---------------------------- MODULE InstanceLock ----------------------------
(***************************************************************************)
(* miner.lock (src/src/app/instance_lock.cpp): a miner acquires the lock   *)
(* file at startup and releases it at the end of its session, or dies.  On *)
(* Windows the file is opened for one process alone; on POSIX it is opened *)
(* by all and flocked by one.  release removes the file by its name, after *)
(* it has let go of it.                                                    *)
(*                                                                         *)
(* A file is a number, a new one a number that is neither named nor open.  *)
(* The pid written into it is left out: nothing reads it.                  *)
(***************************************************************************)
EXTENDS Naturals, FiniteSets

CONSTANT Process  \* processes started in the same directory

Parameters == IsFiniteSet(Process)

VARIABLES platform,  \* "posix" or "windows"; it does not move
          named,     \* the file miner.lock names, 0 when there is none
          opened,    \* the file each process has open, 0 for none
          lpc,       \* where a process is: "out", "opened", "held", "closed"
          unlinked   \* history: has a release removed a file another one had open?

vars == <<platform, named, opened, lpc, unlinked>>

Init == /\ platform \in {"posix", "windows"}
        /\ named = 0
        /\ opened = [p \in Process |-> 0] /\ lpc = [p \in Process |-> "out"]
        /\ unlinked = FALSE

Holders == {p \in Process : lpc[p] = "held"}

\* open with O_CREAT, or CREATE_ALWAYS: the named file, else a fresh one.
NamedFile ==
    LET used == {named} \cup {opened[p] : p \in Process}
    IN IF named # 0 THEN named
       ELSE CHOOSE f \in 1..(Cardinality(Process) + 1) : f \notin used

OpenedBy(f, others) == \E q \in others : opened[q] = f

\* acquire on POSIX begins: whoever comes opens the file.
OpenPosix(p) ==
    /\ platform = "posix" /\ lpc[p] = "out"
    /\ opened' = [opened EXCEPT ![p] = NamedFile] /\ named' = NamedFile
    /\ lpc' = [lpc EXCEPT ![p] = "opened"]
    /\ UNCHANGED <<platform, unlinked>>

\* Mutant of Flock: the answer is not looked at.
FlockIgnored(p) ==
    /\ lpc[p] = "opened"
    /\ lpc' = [lpc EXCEPT ![p] = "held"]
    /\ UNCHANGED <<platform, named, opened, unlinked>>

\* ... and flocks what it opened, or closes it and is refused.
Flock(p) ==
    /\ lpc[p] = "opened"
    /\ IF \E q \in Holders : opened[q] = opened[p]
       THEN /\ lpc' = [lpc EXCEPT ![p] = "out"]
            /\ opened' = [opened EXCEPT ![p] = 0]
       ELSE lpc' = [lpc EXCEPT ![p] = "held"] /\ UNCHANGED opened
    /\ UNCHANGED <<platform, named, unlinked>>

\* acquire on Windows: CreateFileW shares with nobody; a refusal changes nothing.
AcquireWindows(p) ==
    /\ platform = "windows" /\ lpc[p] = "out"
    /\ ~OpenedBy(NamedFile, Process)
    /\ opened' = [opened EXCEPT ![p] = NamedFile] /\ named' = NamedFile
    /\ lpc' = [lpc EXCEPT ![p] = "held"]
    /\ UNCHANGED <<platform, unlinked>>

\* release: the lock goes with the descriptor or the handle ...
Close(p) ==
    /\ lpc[p] = "held"
    /\ opened' = [opened EXCEPT ![p] = 0]
    /\ lpc' = [lpc EXCEPT ![p] = "closed"]
    /\ UNCHANGED <<platform, named, unlinked>>

\* ... and then whatever the name now leads to is removed; Windows refuses to
\* remove a file somebody has open.
Remove(p) ==
    /\ lpc[p] = "closed"
    /\ LET busy == named # 0 /\ OpenedBy(named, Process \ {p})
       IN IF platform = "windows" /\ busy
          THEN UNCHANGED <<named, unlinked>>
          ELSE named' = 0 /\ unlinked' = (unlinked \/ busy)
    /\ lpc' = [lpc EXCEPT ![p] = "out"]
    /\ UNCHANGED <<platform, opened>>

\* A process dies: the system closes its files, the name stays.
Die(p) ==
    /\ lpc[p] # "out"
    /\ opened' = [opened EXCEPT ![p] = 0]
    /\ lpc' = [lpc EXCEPT ![p] = "out"]
    /\ UNCHANGED <<platform, named, unlinked>>

Next == \E p \in Process : \/ OpenPosix(p) \/ Flock(p) \/ AcquireWindows(p)
                           \/ Close(p) \/ Remove(p) \/ Die(p)

Spec == Init /\ [][Next]_vars

-----------------------------------------------------------------------------
(* Properties                                                              *)

\* "Another miner instance is already running": two processes never both hold
\* the lock, whoever crashes or restarts in between.  On POSIX that is so until
\* a release takes the name away from a file another process has opened since.
OneMiner == Cardinality(Holders) <= 1 \/ (platform = "posix" /\ unlinked)
=============================================================================
