------------------------------ MODULE CpuLayout ------------------------------
(***************************************************************************)
(* Which cores the miner's threads are pinned to: init_layout              *)
(* (src/src/util/cpu_affinity.cpp), in its two versions.  The CUDA host    *)
(* threads spin while a kernel runs, so nothing else should be where they  *)
(* are.  On Windows a core is a logical processor, and of the lists only   *)
(* the key generator's is applied (pin_list is empty there).               *)
(*                                                                         *)
(* A core is its place in what detect_physical_cores finds, a list of CPUs *)
(* the set of its cores.  On POSIX desktop_cores only goes into the log    *)
(* line and is left out.                                                   *)
(***************************************************************************)
EXTENDS Integers, FiniteSets

CONSTANTS CoreCounts,  \* cores a machine may have, 1 at least
          Settings     \* values of the settings of miner.ini; 0 or less is "choose"

Parameters == CoreCounts \subseteq Nat \ {0} /\ Settings \subseteq Int

VARIABLES machine,  \* os, number of cores, and the four settings
          layout    \* role -> its cores, and the number of keygen threads

Lower(a, b) == IF a < b THEN a ELSE b
Upper(a, b) == IF a > b THEN a ELSE b

Machine == [os : {"windows", "posix"}, cores : CoreCounts,
            desktop : Settings, bag : Settings, flush : Settings, dash : Settings]

\* Mutant of Shrunk: the flush cores are never given up.
ShrunkKeepsFlush(s, room) ==
    LET over == Upper(0, s.bag + s.flush + s.dash - room)
        rest == Upper(0, over - s.dash)
    IN [bag  |-> Upper(0, s.bag - rest), flush |-> s.flush, dash |-> Upper(0, s.dash - over)]

\* The while loops: cores are given up, the dashboard's first, until what is
\* left fits; flush keeps one.
Shrunk(s, room) ==
    LET over == Upper(0, s.bag + s.flush + s.dash - room)
        rest == Upper(0, over - s.dash)
    IN [bag   |-> Upper(0, s.bag - rest),
        flush |-> Upper(1, s.flush - Upper(0, rest - s.bag)),
        dash  |-> Upper(0, s.dash - over)]

\* take, take_phys: n cores from `from` on, before `end`.
Take(from, n, end) == {c \in from .. (from + n - 1) : c < end}

FirstOf(cores, n) == {c \in cores : Cardinality({d \in cores : d < c}) < n}

Or(cores, others) == IF cores = {} THEN others ELSE cores

\* suggested_keygen_threads: what the engine takes when keygen_threads is 0.
SuggestedKeygenThreads(n) == IF n >= 6 THEN 12 ELSE 2 * Upper(1, n)

-----------------------------------------------------------------------------
(* Windows                                                                 *)

DesktopCores(m) == Upper(0, Lower(m.desktop, m.cores \div 2))

\* What miner.ini says, or else what suits the cores that remain.
WindowsShares(m, remain) ==
    LET By(setting, four, eight, more) ==
            IF setting > 0 THEN setting
            ELSE IF remain <= four THEN more[1] ELSE IF remain <= eight THEN more[2] ELSE more[3]
    IN [bag   |-> By(m.bag, 4, 8, <<0, 1, 2>>),
        flush |-> By(m.flush, 6, 8, <<1, 2, IF remain <= 16 THEN Upper(2, remain \div 4) ELSE 4>>),
        dash  |-> By(m.dash, 4, 8, <<0, 1, 2>>)]

\* With one core left nothing is shrunk: dashboard or bag lose one.
WindowsCores(m, remain) ==
    LET s == WindowsShares(m, remain)
    IN IF remain > 1 THEN Shrunk(s, remain - 1)
       ELSE IF s.dash > 0 THEN [s EXCEPT !.dash = @ - 1]
       ELSE IF s.bag > 0 THEN [s EXCEPT !.bag = @ - 1] ELSE s

WindowsLayout(m) ==
    LET first  == DesktopCores(m)
        s      == WindowsCores(m, m.cores - first)
        flush  == Take(first + s.bag, s.flush, m.cores)
        cuda   == Or(Take(first + s.bag + s.flush + s.dash, m.cores, m.cores), flush)
        others == FirstOf((0 .. (m.cores - 1)) \ cuda, 12)
        keygen == Or(others, cuda)
    IN [bag |-> Take(first, s.bag, m.cores), flush |-> flush,
        dash |-> Take(first + s.bag + s.flush, s.dash, m.cores),
        cuda |-> cuda, keygen |-> keygen,
        threads |-> SuggestedKeygenThreads(Cardinality(keygen))]

-----------------------------------------------------------------------------
(* POSIX                                                                   *)

CudaPhys(n) == Upper(1, Lower(IF n >= 4 THEN 2 ELSE 1, n - 1))

PosixShares(m) ==
    LET By(setting, few, six, eight) ==
            IF setting > 0 THEN setting
            ELSE IF m.cores >= 8 THEN eight ELSE IF m.cores >= 6 THEN six ELSE few
    IN [bag |-> By(m.bag, 0, 1, 0), flush |-> By(m.flush, 1, 1, 6), dash |-> By(m.dash, 0, 1, 0)]

PosixLayout(m) ==
    LET end    == m.cores - CudaPhys(m.cores)
        s      == IF end > 0 THEN Shrunk(PosixShares(m), end) ELSE PosixShares(m)
        number == Lower(6, Upper(1, end))
        keygen == 0 .. (number - 1)
    IN [bag    |-> Or(Take(0, s.bag, end), keygen),
        flush  |-> Or(Take(s.bag, s.flush, end), keygen),
        dash   |-> Or(Take(s.bag + s.flush, s.dash, end), keygen),
        cuda   |-> end .. (m.cores - 1), keygen |-> keygen,
        threads |-> SuggestedKeygenThreads(number)]

-----------------------------------------------------------------------------

\* init_layout
LayoutOf(m) == IF m.os = "windows" THEN WindowsLayout(m) ELSE PosixLayout(m)

InitLayout == machine \in Machine /\ layout = LayoutOf(machine)

-----------------------------------------------------------------------------
(* Properties                                                              *)

\* "pinned OFF the CUDA-host spin cores" (miner.ini:163): whatever the settings
\* ask for, no other thread is laid on a core of the CUDA host, each role that
\* is pinned has a core, bag, flush and dashboard do not share one (but for the
\* keygen cores on POSIX), and a keygen core gets one thread or two.  That needs
\* two cores, beside those of the desktop on Windows.
CoresApart ==
    LET roles == {"bag", "flush", "dash"}
        own   == {r \in roles : machine.os = "windows" \/ layout[r] # layout.keygen}
        room  == machine.cores - IF machine.os = "windows" THEN DesktopCores(machine) ELSE 0
    IN room > 1 =>
        /\ \A r \in roles \cup {"keygen"} : layout[r] \cap layout.cuda = {}
        /\ \A r \in {"flush", "cuda", "keygen"} : layout[r] # {}
        /\ machine.os = "posix" => \A r \in roles : layout[r] # {}
        /\ \A r, s \in own : r # s => layout[r] \cap layout[s] = {}
        /\ Cardinality(layout.keygen) <= layout.threads
        /\ layout.threads <= 2 * Cardinality(layout.keygen)
=============================================================================
