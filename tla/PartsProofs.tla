----------------------------- MODULE PartsProofs -----------------------------
(***************************************************************************)
(* The smaller components, for any values of their constants: the lock     *)
(* file, the reports to the explorer, the payout cycle and the holdings    *)
(* thread.  EngineProofs, GateProofs and PlanProofs have the others.       *)
(***************************************************************************)
EXTENDS MCParts, Sequences, FiniteSetTheorems, TLAPS

\* A step of the composition is a step of each component, or leaves it alone.
LEMMA PartsApart ==
    ASSUME [Next]_vars
    PROVE  /\ [Rotation!Next]_R
           /\ [Keygen!Next]_K /\ [Lock!Next]_L /\ [Thermal!Next]_T /\ [Session!Next]_S
           /\ [Wallet!Next]_W /\ [Payout!Next]_P /\ [Vram!Next]_V /\ [Report!Next]_Q
           /\ [Xuni!Next]_X /\ [Verify!Next]_Y /\ [Power!Next]_Z
           /\ UNCHANGED part /\ UNCHANGED C
<1> USE DEF RotationStep, KeygenStep, LockStep, ThermalStep, SessionStep, WalletStep,
            PayoutStep, VramStep, ReportStep, XuniStep, VerifyStep, PowerStep
<1>1. CASE RotationStep \/ KeygenStep
  BY <1>1
<1>2. CASE LockStep \/ ThermalStep
  BY <1>2
<1>3. CASE SessionStep \/ WalletStep
  BY <1>3
<1>4. CASE PayoutStep \/ VramStep
  BY <1>4
<1>5. CASE ReportStep \/ XuniStep
  BY <1>5
<1>6. CASE VerifyStep \/ PowerStep
  BY <1>6
<1>7. CASE UNCHANGED vars
  BY <1>7 DEF vars
<1> QED
  BY <1>1, <1>2, <1>3, <1>4, <1>5, <1>6, <1>7 DEF Next

-----------------------------------------------------------------------------
(* InstanceLock                                                            *)

LockTypes ==
    /\ platform \in {"posix", "windows"} /\ named \in Nat /\ unlinked \in BOOLEAN
    /\ opened \in [Process -> Nat]
    /\ lpc \in [Process -> {"out", "opened", "held", "closed"}]

\* Who holds the lock has a file open that no other holder has.  As long as no
\* release has removed a file another process had open, and on Windows always,
\* whatever is open is the file miner.lock names: so there is one such holder.
LockInv ==
    /\ LockTypes
    /\ \A p \in Process : opened[p] # 0 <=> lpc[p] \in {"opened", "held"}
    /\ \A p, r \in Process :
           lpc[p] = "held" /\ lpc[r] = "held" /\ opened[p] = opened[r] => p = r
    /\ platform = "windows" \/ ~unlinked => \A p \in Process : opened[p] \in {0, named}
    /\ platform = "windows" => \A p \in Process : lpc[p] # "opened"

\* There are more numbers than processes, so one is free for a new file.
LEMMA NewFile ==
    ASSUME LockTypes
    PROVE  Lock!NamedFile \in Nat \ {0}
<1> DEFINE n == Cardinality(Process)
           O == {opened[p] : p \in Process}
<1>1. IsFiniteSet(Process)
  BY LockParameters DEF Lock!Parameters, Lock!IsFiniteSet, IsFiniteSet
<1>2. n \in Nat /\ Cardinality(O) <= n /\ IsFiniteSet(O)
  <2>1. n \in Nat
    BY <1>1, FS_CardinalityType
  <2>2. [p \in Process |-> opened[p]] \in Surjection(Process, O)
    BY DEF Surjection
  <2> QED
    BY <1>1, <2>1, <2>2, FS_Surjection
<1>3. IsFiniteSet(1..(n + 1)) /\ Cardinality(1..(n + 1)) = n + 1
  BY <1>2, FS_Interval
<1>4. named = 0 => \E f \in 1..(n + 1) : f \notin {named} \cup O
  <2> SUFFICES ASSUME named = 0, \A f \in 1..(n + 1) : f \in {0} \cup O
               PROVE  FALSE
    OBVIOUS
  <2>1. 1..(n + 1) \subseteq O
    BY <1>2
  <2>2. Cardinality(1..(n + 1)) <= Cardinality(O)
    BY <1>2, <2>1, FS_Subset
  <2>3. Cardinality(O) \in Nat
    BY <1>2, FS_CardinalityType
  <2> QED
    BY <1>2, <1>3, <2>2, <2>3
<1>5. Lock!NamedFile = IF named # 0 THEN named
                       ELSE CHOOSE f \in 1..(n + 1) : f \notin {named} \cup O
  BY DEF Lock!NamedFile, Lock!Cardinality, Cardinality
<1> QED
  BY <1>2, <1>4, <1>5 DEF LockTypes

LEMMA LockInitInv == Init => LockInv
<1> SUFFICES ASSUME Init PROVE LockInv
  OBVIOUS
<1>1. Lock!Init
  BY DEF Init, LockInit
<1>2. LockTypes
  BY <1>1 DEF Lock!Init, LockTypes
<1> QED
  BY <1>1, <1>2 DEF Lock!Init, LockInv

LEMMA LockKeepsInv ==
    ASSUME LockInv, [Lock!Next]_L
    PROVE  LockInv'
<1>0. LockTypes
  BY DEF LockInv
<1>1. CASE UNCHANGED L
  BY <1>1 DEF L, LockInv, LockTypes
<1> SUFFICES ASSUME Lock!Next PROVE LockInv'
  BY <1>1
<1> PICK p \in Process : \/ Lock!OpenPosix(p) \/ Lock!Flock(p) \/ Lock!AcquireWindows(p)
                         \/ Lock!Close(p) \/ Lock!Remove(p) \/ Lock!Die(p)
  BY DEF Lock!Next
<1>2. CASE Lock!OpenPosix(p)
  <2>1. /\ platform = "posix" /\ lpc[p] = "out" /\ named' = Lock!NamedFile
        /\ opened' = [opened EXCEPT ![p] = Lock!NamedFile]
        /\ lpc' = [lpc EXCEPT ![p] = "opened"] /\ UNCHANGED <<platform, unlinked>>
    BY <1>2 DEF Lock!OpenPosix
  <2>2. Lock!NamedFile \in Nat \ {0} /\ (named # 0 => Lock!NamedFile = named)
    BY <1>0, NewFile DEF Lock!NamedFile
  <2>3. LockTypes'
    BY <1>0, <2>1, <2>2 DEF LockTypes
  <2> QED
    BY <1>0, <2>1, <2>2, <2>3 DEF LockInv, LockTypes
<1>3. CASE Lock!Flock(p)
  <2>1. lpc[p] = "opened" /\ UNCHANGED <<platform, named, unlinked>>
    BY <1>3 DEF Lock!Flock
  <2>2. CASE \E r \in Lock!Holders : opened[r] = opened[p]
    <3>1. lpc' = [lpc EXCEPT ![p] = "out"] /\ opened' = [opened EXCEPT ![p] = 0]
      BY <1>3, <2>2 DEF Lock!Flock
    <3>2. LockTypes'
      BY <1>0, <2>1, <3>1 DEF LockTypes
    <3> QED
      BY <1>0, <2>1, <3>1, <3>2 DEF LockInv, LockTypes
  <2>3. CASE \A r \in Lock!Holders : opened[r] # opened[p]
    <3>1. lpc' = [lpc EXCEPT ![p] = "held"] /\ opened' = opened
      BY <1>3, <2>3 DEF Lock!Flock
    <3>2. LockTypes'
      BY <1>0, <2>1, <3>1 DEF LockTypes
    <3>3. \A r \in Process : lpc[r] = "held" => opened[r] # opened[p]
      BY <2>3 DEF Lock!Holders
    <3> QED
      BY <1>0, <2>1, <3>1, <3>2, <3>3 DEF LockInv, LockTypes
  <2> QED
    BY <2>2, <2>3
<1>4. CASE Lock!AcquireWindows(p)
  <2>1. /\ platform = "windows" /\ lpc[p] = "out" /\ named' = Lock!NamedFile
        /\ opened' = [opened EXCEPT ![p] = Lock!NamedFile]
        /\ lpc' = [lpc EXCEPT ![p] = "held"] /\ UNCHANGED <<platform, unlinked>>
        /\ \A r \in Process : opened[r] # Lock!NamedFile
    BY <1>4 DEF Lock!AcquireWindows, Lock!OpenedBy
  <2>2. Lock!NamedFile \in Nat \ {0} /\ (named # 0 => Lock!NamedFile = named)
    BY <1>0, NewFile DEF Lock!NamedFile
  <2>3. LockTypes'
    BY <1>0, <2>1, <2>2 DEF LockTypes
  <2>4. \A r \in Process : opened[r] = 0
    BY <2>1, <2>2 DEF LockInv
  <2> QED
    BY <1>0, <2>1, <2>2, <2>3, <2>4 DEF LockInv, LockTypes
<1>5. CASE Lock!Close(p)
  <2>1. /\ lpc[p] = "held" /\ opened' = [opened EXCEPT ![p] = 0]
        /\ lpc' = [lpc EXCEPT ![p] = "closed"] /\ UNCHANGED <<platform, named, unlinked>>
    BY <1>5 DEF Lock!Close
  <2>2. LockTypes'
    BY <1>0, <2>1 DEF LockTypes
  <2> QED
    BY <1>0, <2>1, <2>2 DEF LockInv, LockTypes
<1>6. CASE Lock!Remove(p)
  <2> DEFINE busy == named # 0 /\ \E r \in Process \ {p} : opened[r] = named
  <2>1. /\ lpc[p] = "closed" /\ lpc' = [lpc EXCEPT ![p] = "out"]
        /\ UNCHANGED <<platform, opened>>
    BY <1>6 DEF Lock!Remove
  <2>2. \/ platform = "windows" /\ busy /\ UNCHANGED <<named, unlinked>>
        \/ /\ ~(platform = "windows" /\ busy)
           /\ named' = 0 /\ unlinked' = (unlinked \/ busy)
    BY <1>6 DEF Lock!Remove, Lock!OpenedBy
  <2>3. LockTypes'
    <3>1. unlinked' \in BOOLEAN
      BY <1>0, <2>2, Zenon DEF LockTypes
    <3>2. named' \in Nat
      BY <1>0, <2>2 DEF LockTypes
    <3> QED
      BY <1>0, <2>1, <3>1, <3>2 DEF LockTypes
  <2>4. opened[p] = 0
    BY <2>1 DEF LockInv
  <2>5. platform = "windows" \/ ~unlinked' => \A r \in Process : opened[r] \in {0, named'}
    <3> SUFFICES ASSUME platform = "windows" \/ ~unlinked', NEW r \in Process
                 PROVE  opened[r] \in {0, named'}
      OBVIOUS
    <3>1. CASE UNCHANGED <<named, unlinked>>
      BY <3>1 DEF LockInv
    <3>2. CASE ~busy /\ named' = 0 /\ (unlinked' <=> unlinked \/ busy)
      BY <2>4, <3>2 DEF LockInv
    <3>3. CASE platform # "windows" /\ busy /\ unlinked'
      BY <3>3
    <3> QED
      BY <2>2, <3>1, <3>2, <3>3
  <2> QED
    BY <1>0, <2>1, <2>3, <2>4, <2>5 DEF LockInv, LockTypes
<1>7. CASE Lock!Die(p)
  <2>1. /\ opened' = [opened EXCEPT ![p] = 0] /\ lpc' = [lpc EXCEPT ![p] = "out"]
        /\ UNCHANGED <<platform, named, unlinked>>
    BY <1>7 DEF Lock!Die
  <2>2. LockTypes'
    BY <1>0, <2>1 DEF LockTypes
  <2> QED
    BY <1>0, <2>1, <2>2 DEF LockInv, LockTypes
<1> QED
  BY <1>2, <1>3, <1>4, <1>5, <1>6, <1>7

\* Two miners never both hold miner.lock, whoever opens, is refused, releases or
\* dies in between; on POSIX until a release removes, by name, a file that
\* another process has opened since (instance_lock.cpp).
THEOREM OneMinerHolds == FairSpec => []OneMiner
<1>1. ASSUME LockInv PROVE OneMiner
  <2> SUFFICES ASSUME platform = "windows" \/ ~unlinked
               PROVE  Cardinality(Lock!Holders) <= 1
    BY <1>1 DEF OneMiner, Lock!OneMiner, LockInv, LockTypes, Lock!Cardinality, Cardinality
  <2>1. \A p, r \in Lock!Holders : p = r
    BY <1>1 DEF LockInv, Lock!Holders
  <2>2. Lock!Holders = {} \/ \E p : Lock!Holders = {p}
    BY <2>1
  <2>3. Cardinality(Lock!Holders) \in {0, 1}
    BY <2>2, FS_EmptySet, FS_Singleton, Zenon
  <2> QED
    BY <2>3
<1>2. LockInv /\ [Next]_vars => LockInv'
  BY PartsApart, LockKeepsInv
<1> QED
  BY <1>1, <1>2, LockInitInv, PTL DEF FairSpec

-----------------------------------------------------------------------------
(* ReportQueue                                                             *)

\* The reports that wait are the last Len(rq) of those made, so the one in hand,
\* the one before it and all that were given up are older.
ReportInv ==
    /\ rq \in Seq(Nat) /\ made \in Nat /\ posted \in Nat /\ gone \in Nat
    /\ posting \in Seq(Nat) /\ Len(posting) <= 1
    /\ Len(rq) <= made
    /\ NewestWait

LEMMA ReportInitInv == Init => ReportInv
<1> SUFFICES ASSUME Init PROVE ReportInv
  OBVIOUS
<1>1. /\ made = 0 /\ rq = <<>> /\ posting = <<>> /\ posted = 0 /\ gone = 0
  BY DEF Init, ReportInit, Report!Init
<1> QED
  BY <1>1 DEF ReportInv, NewestWait, Report!NewestWait, Report!Earlier

\* A queue that gets one more entry at its end, or loses its first.
LEMMA Appended ==
    ASSUME NEW s \in Seq(Nat), NEW n \in Nat
    PROVE  /\ Append(s, n) \in Seq(Nat) /\ Len(Append(s, n)) = Len(s) + 1
           /\ \A i \in 1..Len(s) : Append(s, n)[i] = s[i]
           /\ Append(s, n)[Len(s) + 1] = n
<1> QED
  OBVIOUS

LEMMA Beheaded ==
    ASSUME NEW s \in Seq(Nat), s # <<>>
    PROVE  /\ Len(s) > 0 /\ Head(s) = s[1] /\ Head(s) \in Nat
           /\ Tail(s) \in Seq(Nat) /\ Len(Tail(s)) = Len(s) - 1
           /\ \A i \in 1..(Len(s) - 1) : Tail(s)[i] = s[i + 1]
<1> QED
  OBVIOUS

LEMMA ReportKeepsInv ==
    ASSUME ReportInv, [Report!Next]_Q
    PROVE  ReportInv'
<1>0. /\ rq \in Seq(Nat) /\ made \in Nat /\ posted \in Nat /\ gone \in Nat
      /\ posting \in Seq(Nat) /\ Len(posting) <= 1 /\ Len(rq) <= made
      /\ Len(rq) \in Nat /\ DOMAIN rq = 1..Len(rq) /\ Limit \in Nat
  BY ReportParameters DEF ReportInv, Report!Parameters
<1>l. Len(rq) \in Nat
  BY <1>0
<1>n. /\ \A i \in 1..Len(rq) : rq[i] = made - Len(rq) + i
      /\ (IF posting = <<>> THEN posted ELSE Head(posting)) <= made - Len(rq)
      /\ gone <= made - Len(rq)
      /\ posting # <<>> => posted < Head(posting)
      /\ gone # 0 => gone + Limit < made
  BY <1>0 DEF ReportInv, NewestWait, Report!NewestWait, Report!Earlier
\* What is left to show of the queue after a step.
<1>g. ASSUME rq' \in Seq(Nat), made' \in Nat, posted' \in Nat, gone' \in Nat,
             posting' \in Seq(Nat), Len(posting') <= 1, Len(rq') <= made',
             \A i \in 1..Len(rq') : rq'[i] = made' - Len(rq') + i,
             (IF posting' = <<>> THEN posted' ELSE Head(posting')) <= made' - Len(rq'),
             gone' <= made' - Len(rq'),
             posting' # <<>> => posted' < Head(posting'),
             gone' # 0 => gone' + Limit < made'
      PROVE  ReportInv'
  <2>1. DOMAIN rq' = 1..Len(rq')
    BY <1>g
  <2> QED
    BY <1>g, <2>1 DEF ReportInv, NewestWait, Report!NewestWait, Report!Earlier
<1>1. CASE Report!Enqueue /\ Len(rq) > Limit
  <2> DEFINE t == Tail(rq)
  <2>r. rq' = Append(t, made + 1)
    BY <1>1 DEF Report!Enqueue
  <2>1. /\ made' = made + 1 /\ gone' = Head(rq)
        /\ posting' = posting /\ posted' = posted
    BY <1>1 DEF Report!Enqueue
  <2>2. /\ t \in Seq(Nat) /\ Len(t) = Len(rq) - 1 /\ Head(rq) = made - Len(rq) + 1
        /\ \A i \in 1..Len(t) : t[i] = rq[i + 1]
    <3>1. rq # <<>>
      BY <1>0, <1>1
    <3> QED
      BY <1>0, <1>n, <3>1, Beheaded
  <2> HIDE DEF t
  <2>3. /\ rq' \in Seq(Nat) /\ Len(rq') = Len(rq) /\ rq'[Len(rq)] = made + 1
        /\ \A i \in 1..(Len(rq) - 1) : rq'[i] = t[i]
    <3>1. made + 1 \in Nat /\ t \in Seq(Nat)
      BY <1>0, <2>2
    <3>2. /\ Append(t, made + 1) \in Seq(Nat) /\ Len(Append(t, made + 1)) = Len(t) + 1
          /\ \A i \in 1..Len(t) : Append(t, made + 1)[i] = t[i]
          /\ Append(t, made + 1)[Len(t) + 1] = made + 1
      BY <3>1, Appended
    <3>3. Len(t) + 1 = Len(rq)
      BY <1>0, <2>2
    <3> QED
      BY <2>r, <2>2, <3>2, <3>3
  <2>4. ASSUME NEW i \in 1..Len(rq') PROVE rq'[i] = made' - Len(rq') + i
    <3>1. CASE i = Len(rq)
      BY <1>0, <2>1, <2>3, <3>1
    <3>2. CASE i # Len(rq)
      <4>0. i \in 1..Len(rq) /\ Len(t) = Len(rq) - 1
        BY <2>2, <2>3
      <4>1. i \in 1..(Len(rq) - 1) /\ i + 1 \in 1..Len(rq) /\ i \in 1..Len(t)
        <5>1. i \in Int /\ Len(rq) \in Int /\ 1 <= i /\ i <= Len(rq) - 1
          BY <1>l, <3>2, <4>0
        <5> QED
          BY <4>0, <5>1
      <4>2. rq'[i] = rq[i + 1]
        BY <2>2, <2>3, <4>1
      <4>3. rq[i + 1] = made - Len(rq) + (i + 1)
        BY <1>n, <4>1
      <4> QED
        BY <1>0, <2>1, <2>3, <4>1, <4>2, <4>3
    <3> QED
      BY <3>1, <3>2
  <2>5. /\ made' \in Nat /\ gone' \in Nat /\ Len(rq') <= made'
        /\ gone' <= made' - Len(rq') /\ gone' + Limit < made'
    <3>1. gone' = made - Len(rq) + 1 /\ Len(rq') = Len(rq) /\ Len(rq) > Limit
      BY <1>1, <2>1, <2>2, <2>3
    <3> QED
      BY <1>0, <2>1, <3>1
  <2>6. (IF posting = <<>> THEN posted ELSE Head(posting)) <= made' - Len(rq')
    <3>1. CASE posting = <<>>
      BY <1>0, <1>n, <2>1, <2>3, <3>1
    <3>2. CASE posting # <<>>
      <4>1. Head(posting) \in Nat
        BY <1>0, <3>2, Beheaded
      <4> QED
        BY <1>0, <1>n, <2>1, <2>3, <3>2, <4>1
    <3> QED
      BY <3>1, <3>2
  <2>7. posting' \in Seq(Nat) /\ Len(posting') <= 1 /\ posted' \in Nat
    BY <1>0, <2>1
  <2>8. posting' # <<>> => posted' < Head(posting')
    BY <1>n, <2>1
  <2>9. (IF posting' = <<>> THEN posted' ELSE Head(posting')) <= made' - Len(rq')
    BY <2>1, <2>6
  <2> QED
    BY <1>g, <2>3, <2>4, <2>5, <2>7, <2>8, <2>9
<1>2. CASE Report!Enqueue /\ Len(rq) <= Limit
  <2>1. made' = made + 1 /\ rq' = Append(rq, made + 1) /\ UNCHANGED <<posting, posted, gone>>
    BY <1>0, <1>2 DEF Report!Enqueue
  <2>2. /\ rq' \in Seq(Nat) /\ Len(rq') = Len(rq) + 1 /\ rq'[Len(rq) + 1] = made + 1
        /\ \A i \in 1..Len(rq) : rq'[i] = rq[i]
    BY <1>0, <2>1, Appended
  <2>3. ASSUME NEW i \in 1..Len(rq') PROVE rq'[i] = made' - Len(rq') + i
    <3>1. CASE i = Len(rq) + 1
      BY <1>0, <2>1, <2>2, <3>1
    <3>2. CASE i # Len(rq) + 1
      <4>1. i \in 1..Len(rq)
        BY <1>0, <2>2, <3>2
      <4>2. rq'[i] = made - Len(rq) + i
        BY <1>n, <2>2, <4>1
      <4> QED
        BY <1>0, <2>1, <2>2, <4>1, <4>2
    <3> QED
      BY <3>1, <3>2
  <2> QED
    BY <1>0, <1>n, <1>g, <2>1, <2>2, <2>3
<1>3. CASE Report!Take
  <2>1. /\ posting = <<>> /\ rq # <<>> /\ posting' = <<Head(rq)>> /\ rq' = Tail(rq)
        /\ UNCHANGED <<made, posted, gone>>
    BY <1>3 DEF Report!Take
  <2>2. /\ rq' \in Seq(Nat) /\ Len(rq') = Len(rq) - 1 /\ Head(rq) = made - Len(rq) + 1
        /\ Len(rq) > 0 /\ \A i \in 1..Len(rq') : rq'[i] = rq[i + 1]
    BY <1>0, <1>n, <2>1, Beheaded
  <2>3. /\ posting' \in Seq(Nat) /\ Len(posting') = 1 /\ posting' # <<>>
        /\ Head(posting') = made - Len(rq) + 1
    BY <1>0, <2>1, <2>2
  <2>4. \A i \in 1..Len(rq') : rq'[i] = made' - Len(rq') + i
    BY <1>0, <1>n, <2>1, <2>2
  <2> QED
    BY <1>0, <1>n, <1>g, <2>1, <2>2, <2>3, <2>4
<1>4. CASE Report!PostEnds
  <2>1. /\ posting # <<>> /\ posted' = Head(posting) /\ posting' = <<>>
        /\ UNCHANGED <<rq, made, gone>>
    BY <1>4 DEF Report!PostEnds
  <2>2. Head(posting) \in Nat
    BY <1>0, <2>1, Beheaded
  <2> QED
    BY <1>0, <1>n, <1>g, <2>1, <2>2
<1>5. CASE Report!Stop \/ Report!Joined \/ UNCHANGED Q
  <2>1. UNCHANGED <<rq, made, posting, posted, gone>>
    BY <1>5 DEF Report!Stop, Report!Joined, Q
  <2> QED
    BY <1>0, <1>n, <1>g, <2>1
<1>6. Report!Enqueue => Len(rq) > Limit \/ Len(rq) <= Limit
  BY <1>0
<1> QED
  BY <1>1, <1>2, <1>3, <1>4, <1>5, <1>6 DEF Report!Next

\* The explorer hears of what the miner did in its order and never twice; what a
\* slow one misses is the oldest, and only when the queue is full
\* (xenblockscan.cpp: q_ and its loop).
THEOREM NewestReportsWait == FairSpec => []NewestWait
<1>1. ReportInv => NewestWait
  BY DEF ReportInv
<1>2. ReportInv /\ [Next]_vars => ReportInv'
  BY PartsApart, ReportKeepsInv
<1> QED
  BY <1>1, <1>2, ReportInitInv, PTL DEF FairSpec

-----------------------------------------------------------------------------
(* PayoutCycle                                                             *)

Cycle == [user : Nat, fee : Nat, astray : BOOLEAN]

\* A cycle that has not gone astray is what the two counters say, the fee wallet
\* has its turn when the user's finds are complete and not before, and neither
\* counter passes its share by more than one batch.
PayoutInv ==
    /\ fee_on \in BOOLEAN /\ mining_fee \in BOOLEAN /\ payout \in {"user", "fee"}
    /\ user_finds \in Nat /\ fee_finds \in Nat /\ cycle \in Cycle /\ ended \in Cycle
    /\ mining_fee <=> user_finds >= 100 - DevFeePct
    /\ user_finds < 100 - DevFeePct + MaxHits /\ fee_finds < DevFeePct
    /\ ~cycle.astray => cycle.user = user_finds /\ cycle.fee = fee_finds
    /\ FeeShare

LEMMA PayoutInitInv == Init => PayoutInv
<1> SUFFICES ASSUME Init PROVE PayoutInv
  OBVIOUS
<1> USE PayoutParameters DEF Payout!Parameters
<1>1. /\ fee_on \in BOOLEAN /\ mining_fee = FALSE /\ payout = "user"
      /\ user_finds = 0 /\ fee_finds = 0
      /\ cycle = Payout!NewCycle /\ ended = Payout!NewCycle
  BY DEF Init, PayoutInit, Payout!Init
<1>2. mining_fee \in BOOLEAN
  BY <1>1
<1>3. Payout!NewCycle \in Cycle /\ Payout!NewCycle.astray = FALSE
      /\ Payout!NewCycle.user = 0 /\ Payout!NewCycle.fee = 0
  BY DEF Payout!NewCycle, Cycle
<1>4. FeeShare
  BY <1>1, <1>3 DEF FeeShare, Payout!FeeShare
<1> QED
  BY <1>1, <1>2, <1>3, <1>4 DEF PayoutInv

\* What a find adds to the history.
LEMMA Booking ==
    ASSUME PayoutInv, NEW n \in Nat, NEW p \in {"user", "fee"}
    PROVE  /\ Payout!Booked(n, p) \in Cycle
           /\ ~Payout!Booked(n, p).astray =>
                  /\ ~cycle.astray /\ (mining_fee <=> p = "fee")
                  /\ Payout!Booked(n, p).user = cycle.user + (IF mining_fee THEN 0 ELSE n)
                  /\ Payout!Booked(n, p).fee = cycle.fee + (IF mining_fee THEN n ELSE 0)
<1> DEFINE b == Payout!Booked(n, p)
<1>1. CASE cycle.astray \/ (mining_fee # (p = "fee"))
  <2>1. b = [user |-> 0, fee |-> 0, astray |-> TRUE]
    BY <1>1 DEF Payout!Booked, Payout!NewCycle
  <2> QED
    BY <2>1 DEF Cycle
<1>2. CASE ~(cycle.astray \/ (mining_fee # (p = "fee")))
  <2>1. b = [cycle EXCEPT ![p] = @ + n]
    BY <1>2 DEF Payout!Booked
  <2>2. mining_fee <=> p = "fee"
    BY <1>2, Zenon DEF PayoutInv
  <2>3. cycle \in Cycle /\ ~cycle.astray
    BY <1>2 DEF PayoutInv
  <2>4. CASE p = "user"
    BY <2>1, <2>2, <2>3, <2>4 DEF Cycle
  <2>5. CASE p = "fee"
    BY <2>1, <2>2, <2>3, <2>5 DEF Cycle
  <2> QED
    BY <2>4, <2>5
<1> QED
  BY <1>1, <1>2

LEMMA PayoutKeepsInv ==
    ASSUME PayoutInv, [Payout!Next]_P
    PROVE  PayoutInv'
<1> USE PayoutParameters DEF Payout!Parameters
<1>0. /\ user_finds \in Nat /\ fee_finds \in Nat /\ cycle \in Cycle /\ ended \in Cycle
      /\ mining_fee <=> user_finds >= 100 - DevFeePct
      /\ user_finds < 100 - DevFeePct + MaxHits /\ fee_finds < DevFeePct
      /\ ~cycle.astray => cycle.user = user_finds /\ cycle.fee = fee_finds
      /\ fee_on \in BOOLEAN /\ mining_fee \in BOOLEAN /\ payout \in {"user", "fee"}
  BY DEF PayoutInv
<1>new. /\ Payout!NewCycle = [user |-> 0, fee |-> 0, astray |-> FALSE]
        /\ Payout!NewCycle \in Cycle
  BY DEF Payout!NewCycle, Cycle
<1>1. ASSUME UNCHANGED <<mining_fee, user_finds, fee_finds, cycle, ended>>,
             fee_on' = fee_on, payout' \in {"user", "fee"}
      PROVE  PayoutInv'
  BY <1>1 DEF PayoutInv, FeeShare, Payout!FeeShare, Payout!InShare, Payout!NewCycle
<1>2. ASSUME NEW n \in 1..MaxHits, NEW p \in {"user", "fee"}, Payout!UserTurn(n, p),
             fee_on' = fee_on, payout' \in {"user", "fee"}
      PROVE  PayoutInv'
  <2>b. /\ Payout!Booked(n, p) \in Cycle
        /\ ~Payout!Booked(n, p).astray =>
               /\ ~cycle.astray
               /\ Payout!Booked(n, p).user = cycle.user + (IF mining_fee THEN 0 ELSE n)
               /\ Payout!Booked(n, p).fee = cycle.fee + (IF mining_fee THEN n ELSE 0)
    <3>1. n \in Nat
      OBVIOUS
    <3> QED
      BY <3>1, Booking
  <2>1. /\ ~mining_fee /\ user_finds' = user_finds + n
        /\ cycle' = Payout!Booked(n, p) /\ ended' = Payout!NewCycle /\ fee_finds' = fee_finds
        /\ mining_fee' = (user_finds' >= 100 - DevFeePct)
    BY <1>2 DEF Payout!UserTurn
  <2>2. mining_fee' \in BOOLEAN /\ (mining_fee' <=> user_finds' >= 100 - DevFeePct)
    <3>1. (user_finds' >= 100 - DevFeePct) \in BOOLEAN
      OBVIOUS
    <3> QED
      BY <2>1, <3>1, Zenon
  <2>3. /\ cycle' \in Cycle
        /\ ~cycle'.astray => cycle'.user = user_finds' /\ cycle'.fee = fee_finds'
    BY <1>0, <2>1, <2>b
  <2>4. user_finds' \in Nat /\ user_finds' < 100 - DevFeePct + MaxHits
    BY <1>0, <2>1
  <2>5. FeeShare'
    BY <1>0, <2>1, <2>3, <2>4 DEF FeeShare, Payout!FeeShare
  <2> QED
    BY <1>0, <1>2, <1>new, <2>1, <2>2, <2>3, <2>4, <2>5 DEF PayoutInv
<1>3. ASSUME NEW n \in 1..MaxHits, NEW p \in {"user", "fee"}, Payout!FeeTurn(n, p),
             fee_on' = fee_on, payout' \in {"user", "fee"}
      PROVE  PayoutInv'
  <2>b. /\ Payout!Booked(n, p) \in Cycle
        /\ ~Payout!Booked(n, p).astray =>
               /\ ~cycle.astray
               /\ Payout!Booked(n, p).user = cycle.user + (IF mining_fee THEN 0 ELSE n)
               /\ Payout!Booked(n, p).fee = cycle.fee + (IF mining_fee THEN n ELSE 0)
    <3>1. n \in Nat
      OBVIOUS
    <3> QED
      BY <3>1, Booking
  <2>1. CASE fee_finds + n < DevFeePct
    <3>1. /\ mining_fee /\ mining_fee' /\ fee_finds' = fee_finds + n
          /\ user_finds' = user_finds
          /\ cycle' = Payout!Booked(n, p) /\ ended' = Payout!NewCycle
      BY <1>3, <2>1 DEF Payout!FeeTurn
    <3>2. mining_fee' \in BOOLEAN /\ (mining_fee' <=> user_finds' >= 100 - DevFeePct)
      <4>1. (fee_finds + n < DevFeePct) \in BOOLEAN /\ mining_fee' = (fee_finds + n < DevFeePct)
        BY <1>3 DEF Payout!FeeTurn
      <4>2. mining_fee' \in BOOLEAN
        BY <4>1, Zenon
      <4> QED
        BY <1>0, <3>1, <4>2
    <3>3. /\ cycle' \in Cycle
          /\ ~cycle'.astray => cycle'.user = user_finds' /\ cycle'.fee = fee_finds'
      BY <1>0, <3>1, <2>b
    <3>4. fee_finds' \in Nat /\ fee_finds' < DevFeePct
      BY <1>0, <2>1, <3>1
    <3>5. FeeShare'
      BY <1>0, <3>1, <3>3, <3>4 DEF FeeShare, Payout!FeeShare
    <3> QED
      BY <1>0, <1>3, <1>new, <3>1, <3>2, <3>3, <3>4, <3>5 DEF PayoutInv
  <2>2. CASE ~(fee_finds + n < DevFeePct)
    <3>1. /\ mining_fee /\ ~mining_fee' /\ fee_finds' = 0 /\ user_finds' = 0
          /\ cycle' = Payout!NewCycle /\ ended' = Payout!Booked(n, p)
      BY <1>3, <2>2 DEF Payout!FeeTurn
    <3>2. mining_fee' \in BOOLEAN
      <4>1. (fee_finds + n < DevFeePct) \in BOOLEAN /\ mining_fee' = (fee_finds + n < DevFeePct)
        BY <1>3 DEF Payout!FeeTurn
      <4> QED
        BY <4>1, Zenon
    <3>3. ~(user_finds' >= 100 - DevFeePct)
      BY <3>1
    <3>4. /\ ended' \in Cycle
          /\ ~ended'.astray => /\ ended'.user = user_finds
                               /\ ended'.fee = fee_finds + n
      BY <1>0, <3>1, <2>b
    <3>5. FeeShare'
      <4>1. ~ended'.astray => /\ Payout!InShare(ended'.user, 100 - DevFeePct)
                              /\ Payout!InShare(ended'.fee, DevFeePct)
        BY <1>0, <2>2, <3>1, <3>4 DEF Payout!InShare
      <4>2. cycle'.user = 0 /\ cycle'.fee = 0
        BY <1>new, <3>1
      <4> QED
        BY <4>1, <4>2 DEF FeeShare, Payout!FeeShare, Payout!InShare
    <3> QED
      BY <1>0, <1>3, <1>new, <3>1, <3>2, <3>3, <3>4, <3>5 DEF PayoutInv
  <2> QED
    BY <2>1, <2>2
<1>4. ASSUME NEW n \in 0..MaxHits, NEW p \in {"user", "fee"},
             Payout!StampAndCountHits(n, p), fee_on' = fee_on, payout' \in {"user", "fee"}
      PROVE  PayoutInv'
  BY <1>1, <1>2, <1>3, <1>4 DEF Payout!StampAndCountHits, Payout!counts
<1>5. ASSUME NEW n \in 0..MaxHits, Payout!MineBatch(n) PROVE PayoutInv'
  <2>1. /\ fee_on' = fee_on /\ payout' = Payout!Selected
        /\ Payout!Selected \in {"user", "fee"}
        /\ \/ Payout!StampAndCountHits(n, Payout!Selected)
           \/ UNCHANGED <<mining_fee, user_finds, fee_finds, cycle, ended>>
    BY <1>5 DEF Payout!MineBatch, Payout!Selected, Payout!counts
  <2> QED
    BY <1>1, <1>4, <2>1
<1>6. ASSUME NEW n \in 0..MaxHits, Payout!DrainPipeline(n) PROVE PayoutInv'
  <2>1. /\ fee_on' = fee_on /\ payout' = payout
        /\ \/ Payout!StampAndCountHits(n, payout)
           \/ UNCHANGED <<mining_fee, user_finds, fee_finds, cycle, ended>>
    BY <1>6 DEF Payout!DrainPipeline, Payout!counts
  <2> QED
    BY <1>0, <1>1, <1>4, <2>1
<1>7. CASE UNCHANGED P
  BY <1>0, <1>1, <1>7 DEF P
<1> QED
  BY <1>5, <1>6, <1>7 DEF Payout!Next

\* "99 user / 1 fee": each cycle pays both wallets their share and at most one
\* batch more, unless a drain came between the end of a turn and the next choice
\* (stamp_and_count_hits, select_payout_salt and drain_pipeline).
THEOREM SharesArePaid == FairSpec => []FeeShare
<1>1. PayoutInv => FeeShare
  BY DEF PayoutInv
<1>2. PayoutInv /\ [Next]_vars => PayoutInv'
  BY PartsApart, PayoutKeepsInv
<1> QED
  BY <1>1, <1>2, PayoutInitInv, PTL DEF FairSpec

-----------------------------------------------------------------------------
(* WalletPoller                                                            *)

\* The longest sleep: the wait is capped, but one tick at least.
LongestSleep == IF MaxWait > 1 THEN MaxWait ELSE 1

WalletTypes ==
    /\ wrunning \in BOOLEAN /\ force \in BOOLEAN /\ forced \in BOOLEAN /\ asked \in BOOLEAN
    /\ notifying \in BOOLEAN /\ tpc \in Wallet!ThreadPC
    /\ since \in 0..Idle /\ timer \in Nat /\ age \in Nat
    /\ tpc = "fetch" => timer <= MaxFetch
    /\ tpc \in {"dozing", "asleep"} => timer <= LongestSleep

\* A request is in force_, or in the hands of the turn that has just taken it.
Remembered == asked => force \/ (tpc = "decide" /\ forced)

\* How long it can have waited where the thread is: through the fetch that was
\* under way, or a sleep begun before it came, and the floor since then; never
\* beyond the floor except in the turn that sees it.
AgeByPlace ==
    asked =>
        /\ tpc = "fetch" => age + timer <= MaxFetch
        /\ tpc \in {"dozing", "asleep"} => age + timer <= LongestSleep
        /\ tpc = "top" \/ (tpc = "decide" /\ forced) => age <= MaxFetch + Floor
        /\ tpc = "decide" /\ ~forced => age = 0
        /\ tpc # "fetch" /\ since < Floor => age <= MaxFetch + since
        /\ tpc \in {"wait", "spun"} /\ since >= Floor => age = 0

WalletInv == /\ WalletTypes
             /\ wrunning => tpc # "left" /\ Remembered /\ AgeByPlace

LEMMA WalletInitInv == Init => WalletInv
<1> SUFFICES ASSUME Init PROVE WalletInv
  OBVIOUS
<1> USE WalletParameters DEF Wallet!Parameters
<1>1. /\ wrunning = TRUE /\ force = FALSE /\ notifying = FALSE
      /\ since = Idle /\ tpc = "top" /\ forced = FALSE /\ timer = 0
      /\ asked = FALSE /\ age = 0
  BY DEF Init, WalletInit, Wallet!Init
<1>2. /\ wrunning \in BOOLEAN /\ force \in BOOLEAN /\ forced \in BOOLEAN /\ asked \in BOOLEAN
      /\ notifying \in BOOLEAN /\ ~asked
  BY <1>1
<1>3. tpc \in Wallet!ThreadPC /\ since \in 0..Idle /\ timer \in Nat /\ age \in Nat
  BY <1>1 DEF Wallet!ThreadPC
<1> QED
  BY <1>1, <1>2, <1>3 DEF WalletInv, WalletTypes, Remembered, AgeByPlace

LEMMA WalletKeepsInv ==
    ASSUME WalletInv, [Wallet!Next]_W
    PROVE  WalletInv'
<1> USE WalletParameters DEF Wallet!Parameters, LongestSleep
<1>0. WalletTypes
  BY DEF WalletInv
<1>1. CASE Wallet!ForceRefresh
  <2>1. /\ wrunning /\ wrunning' = wrunning /\ force' = TRUE /\ notifying' = TRUE
        /\ asked' = TRUE /\ age' = (IF asked THEN age ELSE 0)
        /\ since' = since /\ tpc' = tpc /\ forced' = forced /\ timer' = timer
    BY <1>1 DEF Wallet!ForceRefresh, Wallet!thread
  <2>2. WalletTypes'
    BY <1>0, <2>1 DEF WalletTypes
  <2> QED
    BY <1>0, <2>1, <2>2 DEF WalletInv, WalletTypes, Remembered, AgeByPlace
<1>2. CASE Wallet!StopPoller
  <2>1. /\ wrunning' = FALSE /\ notifying' = TRUE
        /\ UNCHANGED <<force, since, tpc, forced, timer, asked, age>>
    BY <1>2 DEF Wallet!StopPoller, Wallet!thread
  <2> QED
    BY <1>0, <2>1 DEF WalletInv, WalletTypes
<1>3. CASE Wallet!NotifyThread
  <2>1. /\ notifying' = FALSE /\ tpc' = (IF tpc = "asleep" THEN "top" ELSE tpc)
        /\ UNCHANGED <<wrunning, force, since, forced, timer, asked, age>>
    BY <1>3 DEF Wallet!NotifyThread
  <2>2. WalletTypes'
    BY <1>0, <2>1 DEF WalletTypes, Wallet!ThreadPC
  <2> QED
    BY <1>0, <2>1, <2>2 DEF WalletInv, WalletTypes, Remembered, AgeByPlace
<1>4. CASE Wallet!TakeForce
  <2>1. tpc = "top" /\ UNCHANGED <<wrunning, notifying, since, timer, asked, age>>
    BY <1>4 DEF Wallet!TakeForce
  <2>2. CASE wrunning
    <3>1. forced' = force /\ force' = FALSE /\ tpc' = "decide"
      BY <1>4, <2>2 DEF Wallet!TakeForce
    <3>2. WalletTypes'
      BY <1>0, <2>1, <3>1 DEF WalletTypes, Wallet!ThreadPC
    <3> QED
      BY <1>0, <2>1, <2>2, <3>1, <3>2 DEF WalletInv, WalletTypes, Remembered, AgeByPlace
  <2>3. CASE ~wrunning
    <3>1. tpc' = "left" /\ UNCHANGED <<force, forced>>
      BY <1>4, <2>3 DEF Wallet!TakeForce
    <3> QED
      BY <1>0, <2>1, <2>3, <3>1 DEF WalletInv, WalletTypes, Wallet!ThreadPC
  <2> QED
    BY <2>2, <2>3
<1>5. ASSUME NEW ticks \in 0..MaxFetch, Wallet!BeginFetch(ticks) PROVE WalletInv'
  <2>1. /\ since' = 0 /\ timer' = ticks /\ tpc' = "fetch" /\ asked' = FALSE /\ age' = 0
        /\ UNCHANGED <<wrunning, force, notifying, forced>>
    BY <1>5 DEF Wallet!BeginFetch
  <2>2. ticks \in Nat /\ ticks <= MaxFetch
    OBVIOUS
  <2>3. WalletTypes'
    <3>1. asked' \in BOOLEAN
      BY <2>1
    <3>2. since' \in 0..Idle /\ age' \in Nat /\ timer' \in Nat /\ timer' <= MaxFetch
      BY <2>1, <2>2
    <3>3. tpc' = "fetch" /\ tpc' \in Wallet!ThreadPC
      BY <2>1 DEF Wallet!ThreadPC
    <3> QED
      BY <1>0, <2>1, <3>1, <3>2, <3>3 DEF WalletTypes
  <2> QED
    BY <2>1, <2>3 DEF WalletInv, Remembered, AgeByPlace
<1>6. CASE Wallet!EndFetch
  <2>1. /\ tpc = "fetch" /\ timer = 0 /\ since' = 0 /\ tpc' = "wait"
        /\ UNCHANGED <<wrunning, force, notifying, forced, timer, asked, age>>
    BY <1>6 DEF Wallet!EndFetch
  <2>2. WalletTypes'
    BY <1>0, <2>1 DEF WalletTypes, Wallet!ThreadPC
  <2> QED
    BY <1>0, <2>1, <2>2 DEF WalletInv, WalletTypes, Remembered, AgeByPlace
<1>7. CASE Wallet!NotDue
  <2>1. /\ tpc = "decide" /\ tpc' = "wait" /\ (force' <=> force \/ forced)
        /\ UNCHANGED <<wrunning, notifying, since, forced, timer, asked, age>>
    BY <1>7, Zenon DEF Wallet!NotDue
  <2>2. force' \in BOOLEAN
    <3>1. force' = (force \/ forced)
      BY <1>7 DEF Wallet!NotDue
    <3> QED
      BY <3>1, Zenon
  <2>3. forced => since < Floor
    BY <1>0, <1>7 DEF Wallet!NotDue, Wallet!Due, WalletTypes
  <2>4. WalletTypes'
    BY <1>0, <2>1, <2>2 DEF WalletTypes, Wallet!ThreadPC
  <2> QED
    BY <1>0, <2>1, <2>3, <2>4 DEF WalletInv, WalletTypes, Remembered, AgeByPlace
<1>8. CASE Wallet!LookAtForce
  <2>1. tpc = "wait" /\ UNCHANGED <<wrunning, force, notifying, since, forced, asked, age>>
    BY <1>8 DEF Wallet!LookAtForce
  <2>2. CASE force \/ ~wrunning
    <3>1. tpc' = "spun" /\ timer' = timer
      BY <1>8, <2>2 DEF Wallet!LookAtForce
    <3>2. WalletTypes'
      BY <1>0, <2>1, <3>1 DEF WalletTypes, Wallet!ThreadPC
    <3> QED
      BY <1>0, <2>1, <3>1, <3>2 DEF WalletInv, WalletTypes, Remembered, AgeByPlace
  <2>3. CASE ~force /\ wrunning
    <3>1. /\ tpc' = "dozing"
          /\ timer' = IF Wallet!Remaining < 1 THEN 1
                      ELSE IF Wallet!Remaining < MaxWait THEN Wallet!Remaining ELSE MaxWait
      BY <1>8, <2>3 DEF Wallet!LookAtForce
    <3>2. Wallet!Remaining \in Nat
      BY <1>0 DEF WalletTypes, Wallet!Remaining
    <3>3. timer' \in Nat /\ timer' <= LongestSleep
      BY <3>1, <3>2
    <3>4. ~asked
      BY <2>1, <2>3 DEF WalletInv, Remembered
    <3>5. WalletTypes'
      BY <1>0, <2>1, <3>1, <3>3 DEF WalletTypes, Wallet!ThreadPC
    <3> QED
      BY <2>1, <3>1, <3>4, <3>5 DEF WalletInv, Remembered, AgeByPlace
  <2> QED
    BY <2>2, <2>3
<1>9. CASE Wallet!FallAsleep
  <2>1. /\ tpc = "dozing" /\ tpc' = "asleep"
        /\ UNCHANGED <<wrunning, force, notifying, since, forced, timer, asked, age>>
    BY <1>9 DEF Wallet!FallAsleep
  <2>2. WalletTypes'
    BY <1>0, <2>1 DEF WalletTypes, Wallet!ThreadPC
  <2> QED
    BY <1>0, <2>1, <2>2 DEF WalletInv, WalletTypes, Remembered, AgeByPlace
<1>10. CASE Wallet!WakeUp
  <2>1. /\ tpc = "spun" \/ (tpc = "asleep" /\ timer = 0)
        /\ tpc' = "top"
        /\ UNCHANGED <<wrunning, force, notifying, since, forced, timer, asked, age>>
    BY <1>10 DEF Wallet!WakeUp
  <2>2. WalletTypes'
    BY <1>0, <2>1 DEF WalletTypes, Wallet!ThreadPC
  <2> QED
    BY <1>0, <2>1, <2>2 DEF WalletInv, WalletTypes, Remembered, AgeByPlace
<1>11. CASE Wallet!Tick
  <2>1. /\ since' = (IF since < Idle THEN since + 1 ELSE since)
        /\ age' = (IF asked THEN age + 1 ELSE age)
        /\ UNCHANGED <<wrunning, force, notifying, forced, asked>>
    BY <1>11 DEF Wallet!Tick
  <2>2. CASE tpc = "spun"
    <3>1. tpc' = "top" /\ timer' = timer
      BY <1>11, <2>2 DEF Wallet!Tick
    <3>2. WalletTypes'
      BY <1>0, <2>1, <2>2, <3>1 DEF WalletTypes, Wallet!ThreadPC
    <3> QED
      BY <1>0, <2>1, <2>2, <3>1, <3>2 DEF WalletInv, WalletTypes, Remembered, AgeByPlace
  <2>3. CASE tpc \in {"fetch", "asleep"} /\ timer > 0
    <3>1. tpc' = tpc /\ timer' = timer - 1
      BY <1>11, <2>3 DEF Wallet!Tick
    <3>2. WalletTypes'
      BY <1>0, <2>1, <2>3, <3>1 DEF WalletTypes, Wallet!ThreadPC
    <3> QED
      BY <1>0, <2>1, <2>3, <3>1, <3>2 DEF WalletInv, WalletTypes, Remembered, AgeByPlace
  <2> QED
    BY <1>11, <2>2, <2>3 DEF Wallet!Tick
<1>12. CASE UNCHANGED W
  <2>1. UNCHANGED <<wrunning, force, notifying, since, tpc, forced, timer, asked, age>>
    BY <1>12 DEF W
  <2> QED
    BY <2>1 DEF WalletInv, WalletTypes, Remembered, AgeByPlace
<1> QED
  BY <1>1, <1>2, <1>3, <1>4, <1>5, <1>6, <1>7, <1>8, <1>9, <1>10, <1>11, <1>12
     DEF Wallet!Next

\* A forced refresh of the holdings waits for the fetch under way and the floor,
\* and never for the idle poll, although maybe_refresh notifies without the
\* mutex and a turn inside the floor puts force_ back (wallet.cpp, loop).
THEOREM ForcedRefreshIsPrompt == FairSpec => []RefreshIsPrompt
<1>1. WalletInv => RefreshIsPrompt
  BY WalletParameters DEF WalletInv, WalletTypes, AgeByPlace, RefreshIsPrompt,
     Wallet!RefreshIsPrompt, Wallet!Parameters, Wallet!ThreadPC, LongestSleep
<1>2. WalletInv /\ [Next]_vars => WalletInv'
  BY PartsApart, WalletKeepsInv
<1> QED
  BY <1>1, <1>2, WalletInitInv, PTL DEF FairSpec
=============================================================================
