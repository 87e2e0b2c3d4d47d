-------------------------- MODULE NetworkGateProofs --------------------------
(***************************************************************************)
(* What holds of the poller, the two threads and the match-drain for every *)
(* set of values of m=, every budget and every bound.                      *)
(***************************************************************************)
EXTENDS NetworkGate, TLAPS

\* Where only a thread of a hybrid session gets.
HybridOnly == {"left", "count", "decide", "park", "mine"}

Oracle == [says : BOOLEAN, left : BOOLEAN, waits : 0..MaxBag]

\* Types, and what makes Replan safe: the mining thread gets there with a
\* snapshot that has an m=, in classic mode only.  Without it the engine could
\* be replanned for the missing m= of a failed poll.
GateInv ==
    /\ TypeOK
    /\ pc["miner"] = "replan" => snap["miner"].m # None /\ ~Hybrid
    /\ Hybrid => engine_m = forced
    /\ ~Hybrid => bag = 0 /\ ~drain /\ \A t \in Thread : pc[t] \notin HybridOnly

\* At most four numbers are remembered, so one in 1..5 is free: the poller never
\* publishes a snapshot under a number somebody takes for an older one.
LEMMA FreshNumber ==
    ASSUME TypeOK
    PROVE  NewSeq \in 1..5 /\ NewSeq \notin Remembered
<1>1. Remembered = {status.seq, last_seq, snap["miner"].seq, snap["worker"].seq}
  BY DEF Remembered, Thread
<1>2. \E n \in 1..5 : n \notin Remembered
  <2> DEFINE a == status.seq  b == last_seq  c == snap["miner"].seq  d == snap["worker"].seq
  <2>1. \E n \in 1..5 : n # a /\ n # b /\ n # c /\ n # d
    <3> HIDE DEF a, b, c, d
    <3>1. SUFFICES ASSUME \A n \in 1..5 : n = a \/ n = b \/ n = c \/ n = d
                   PROVE  FALSE
      OBVIOUS
    <3>2. /\ (1 = a \/ 1 = b \/ 1 = c \/ 1 = d) /\ (2 = a \/ 2 = b \/ 2 = c \/ 2 = d)
          /\ (3 = a \/ 3 = b \/ 3 = c \/ 3 = d) /\ (4 = a \/ 4 = b \/ 4 = c \/ 4 = d)
          /\ (5 = a \/ 5 = b \/ 5 = c \/ 5 = d)
      BY <3>1
    <3> QED
      BY <3>2
  <2> QED
    BY <1>1, <2>1
<1> QED
  BY <1>2 DEF NewSeq

Row == [seq : 0..5, m : Memory \cup {None}]

LEMMA InitGateInv == Init => GateInv
<1> SUFFICES ASSUME Init PROVE GateInv
  OBVIOUS
<1> USE MemoryIsPositive, ForcedIsMemory, BoundsAreNat, Budgets
<1>1. NoSnap \in Row /\ NotRead \in Oracle
  BY DEF Row, Oracle, NoSnap, NotRead, None
<1>2. forced \in Memory \cup {0} /\ (Hybrid => forced \in Memory)
  BY DEF Init, Hybrid
<1>3. bag \in 0..MaxBag /\ (~Hybrid => bag = 0)
  BY DEF Init
<1>4. TypeOK
  <2>1. /\ forced \in ForcedChoices /\ truth \in Memory /\ moves \in 0..MaxMoves
        /\ status \in Row /\ snap \in [Thread -> Row]
        /\ saw \in [Thread -> Oracle]
    BY <1>1 DEF Init
  <2>2. pc \in [Thread -> PC]
    BY DEF Init, PC
  <2>3. engine_m \in Memory
    BY <1>2 DEF Init
  <2>4. /\ network_difficulty = Fallback /\ network_ok = FALSE
        /\ drain = FALSE /\ parked = FALSE
        /\ fail_streak = 0 /\ last_seq = 0
    BY DEF Init
  <2>5. network_ok \in BOOLEAN /\ drain \in BOOLEAN /\ parked \in BOOLEAN
    BY <2>4
  <2>6. network_difficulty \in Memory /\ fail_streak \in 0..MatchBudget /\ last_seq \in 0..5
    BY <2>4
  <2>7. bag \in 0..MaxBag
    BY <1>3
  <2> QED
    BY <2>1, <2>2, <2>3, <2>5, <2>6, <2>7, Zenon DEF TypeOK, Row, Oracle
<1>5. \A t \in Thread : pc[t] = "idle"
  BY DEF Init
<1> QED
  BY <1>3, <1>4, <1>5 DEF GateInv, HybridOnly, Init, Thread

\* refresh_network and update_match_drain, by either thread.
LEMMA StepKeepsGateInv ==
    ASSUME GateInv, NEW t \in Thread, Step(t)
    PROVE  GateInv'
<1> USE MemoryIsPositive, ForcedIsMemory, BoundsAreNat, Budgets
<1> USE DEF Hybrid
<1>0. TypeOK /\ "miner" \in Thread
  BY DEF GateInv, Thread
<1>r. /\ status \in Row /\ snap \in [Thread -> Row] /\ NoSnap \in Row
      /\ NotRead \in Oracle
  BY <1>0 DEF TypeOK, Row, Oracle, NoSnap, NotRead, None
<1>s. snap[t] \in Row /\ snap[t].seq \in 0..5 /\ (snap[t].m # None => snap[t].m \in Memory)
  BY <1>r DEF Row
<1>f. Folded(t) => /\ pc' = [pc EXCEPT ![t] = "oracle"] /\ pc' \in [Thread -> PC]
                   /\ snap' = [snap EXCEPT ![t] = NoSnap] /\ snap' \in [Thread -> Row]
  BY <1>0, <1>r DEF Folded, TypeOK, PC
<1>1. CASE GetStatus(t)
  <2>1. pc' \in [Thread -> PC] /\ snap' \in [Thread -> Row]
    BY <1>0, <1>1, <1>r DEF GetStatus, TypeOK, PC
  <2>2. pc'["miner"] = "replan" => pc["miner"] = "replan" /\ snap'["miner"] = snap["miner"]
    BY <1>0, <1>1, <1>r DEF GetStatus, TypeOK
  <2>3. \A u \in Thread : pc'[u] \in HybridOnly => pc[u] \in HybridOnly
    BY <1>0, <1>1 DEF GetStatus, TypeOK, HybridOnly
  <2> QED
    BY <1>0, <1>1, <2>1, <2>2, <2>3 DEF GetStatus, GateInv, TypeOK, Row, HybridOnly, state
<1>2. CASE Dedupe(t)
  <2>1. /\ pc' \in [Thread -> PC] /\ snap' \in [Thread -> Row] /\ last_seq' \in 0..5
    <3>1. CASE Folded(t) /\ UNCHANGED last_seq
      BY <1>0, <1>f, <3>1 DEF TypeOK
    <3>2. CASE /\ pc' = [pc EXCEPT ![t] = "apply"] /\ last_seq' = snap[t].seq
               /\ UNCHANGED snap
      BY <1>0, <1>r, <1>s, <3>2 DEF TypeOK, PC
    <3> QED
      BY <1>2, <3>1, <3>2 DEF Dedupe
  <2>2. pc'["miner"] = "replan" => pc["miner"] = "replan" /\ snap'["miner"] = snap["miner"]
    BY <1>0, <1>2, <1>r DEF Dedupe, Folded, TypeOK
  <2>3. \A u \in Thread : pc'[u] \in HybridOnly => pc[u] \in HybridOnly
    BY <1>0, <1>2 DEF Dedupe, Folded, TypeOK, HybridOnly
  <2> QED
    BY <1>0, <1>2, <2>1, <2>2, <2>3 DEF Dedupe, GateInv, TypeOK, Row, HybridOnly
<1>3. CASE ApplySuccess(t)
  <2>1. /\ pc' \in [Thread -> PC] /\ snap' \in [Thread -> Row]
        /\ network_difficulty' \in Memory /\ network_ok' \in BOOLEAN
        /\ fail_streak' \in 0..MatchBudget
    <3>1. CASE Folded(t)
      BY <1>3, <1>f, <1>s, <3>1 DEF ApplySuccess
    <3>2. CASE pc' = [pc EXCEPT ![t] = "replan"] /\ UNCHANGED snap
      BY <1>0, <1>3, <1>r, <1>s, <3>2 DEF ApplySuccess, TypeOK, PC
    <3> QED
      BY <1>3, <3>1, <3>2 DEF ApplySuccess
  <2>2. \/ pc'["miner"] # "replan"
        \/ pc["miner"] = "replan" /\ snap'["miner"] = snap["miner"]
        \/ ~Hybrid /\ snap'["miner"].m # None
    BY <1>0, <1>3, <1>r DEF ApplySuccess, Folded, TypeOK
  <2>3. \A u \in Thread : pc'[u] \in HybridOnly => pc[u] \in HybridOnly
    BY <1>0, <1>3 DEF ApplySuccess, Folded, TypeOK, HybridOnly
  <2> QED
    BY <1>0, <1>3, <2>1, <2>2, <2>3 DEF ApplySuccess, GateInv, TypeOK, Row, HybridOnly
<1>4. CASE ApplyFailure(t)
  <2>0. FailBudget \in Nat
    BY DEF FailBudget
  <2>1. /\ pc' \in [Thread -> PC] /\ snap' \in [Thread -> Row]
    BY <1>4, <1>f DEF ApplyFailure
  <2>4. fail_streak' \in 0..MatchBudget
    BY <1>0, <1>4 DEF ApplyFailure, TypeOK
  <2>5. network_ok' \in BOOLEAN
    <3>1. (fail_streak + 1 < FailBudget) \in BOOLEAN
      OBVIOUS
    <3>2. network_ok' \in {FALSE, fail_streak + 1 < FailBudget}
      BY <1>4 DEF ApplyFailure
    <3> QED
      BY <3>1, <3>2, Zenon
  <2>2. pc'["miner"] = "replan" => pc["miner"] = "replan" /\ snap'["miner"] = snap["miner"]
    BY <1>0, <1>4, <1>r DEF ApplyFailure, Folded, TypeOK
  <2>3. \A u \in Thread : pc'[u] \in HybridOnly => pc[u] \in HybridOnly
    BY <1>0, <1>4 DEF ApplyFailure, Folded, TypeOK, HybridOnly
  <2>6. UNCHANGED <<forced, truth, moves, status, network_difficulty, last_seq, saw, drain,
                    parked, bag, engine_m>>
    BY <1>4 DEF ApplyFailure
  <2> QED
    BY <1>0, <2>1, <2>2, <2>3, <2>4, <2>5, <2>6 DEF GateInv, TypeOK, Row, HybridOnly
<1>5. CASE ReadOracle(t)
  <2>1. pc'["miner"] = "replan" => pc["miner"] = "replan"
    BY <1>0, <1>5 DEF ReadOracle, TypeOK, PC
  <2>2. pc' \in [Thread -> PC]
    <3>1. pc \in [Thread -> PC]
      BY <1>0 DEF TypeOK
    <3>2. pc' = [pc EXCEPT ![t] = "left"] \/ pc' = [pc EXCEPT ![t] = "idle"]
      BY <1>5 DEF ReadOracle
    <3> QED
      BY <3>1, <3>2 DEF PC
  <2>3. saw' \in [Thread -> Oracle]
    <3>1. OracleSays \in BOOLEAN
      BY DEF OracleSays
    <3>2. saw \in [Thread -> Oracle]
      BY <1>0 DEF TypeOK, Oracle
    <3>3. [saw[t] EXCEPT !.says = OracleSays] \in Oracle
      BY <3>1, <3>2 DEF Oracle
    <3>4. saw' = saw \/ saw' = [saw EXCEPT ![t] = [saw[t] EXCEPT !.says = OracleSays]]
      BY <1>5 DEF ReadOracle
    <3> HIDE DEF Hybrid
    <3> QED
      BY <3>2, <3>3, <3>4
  <2>4. ~Hybrid => \A u \in Thread :
                       pc'[u] \in HybridOnly => pc[u] \in HybridOnly
    BY <1>0, <1>5 DEF ReadOracle, TypeOK, HybridOnly
  <2> QED
    BY <1>0, <1>5, <2>1, <2>2, <2>3, <2>4 DEF ReadOracle, GateInv, TypeOK, Oracle, state
<1>h. pc[t] \in HybridOnly => Hybrid
  BY DEF GateInv
<1>6. CASE ReadLeft(t)
  <2>1. pc' \in [Thread -> PC] /\ (pc'["miner"] = "replan" => pc["miner"] = "replan")
    BY <1>0, <1>6 DEF ReadLeft, TypeOK, PC
  <2>2. Hybrid
    BY <1>6, <1>h DEF ReadLeft, HybridOnly
  <2>3. saw' \in [Thread -> Oracle]
    <3>1. OracleLeft \in BOOLEAN
      BY <1>0 DEF OracleLeft, TypeOK
    <3>2. saw \in [Thread -> Oracle]
      BY <1>0 DEF TypeOK, Oracle
    <3>3. [saw[t] EXCEPT !.left = OracleLeft] \in Oracle
      BY <3>1, <3>2 DEF Oracle
    <3>4. saw' = [saw EXCEPT ![t] = [saw[t] EXCEPT !.left = OracleLeft]]
      BY <1>6 DEF ReadLeft
    <3> HIDE DEF Hybrid
    <3> QED
      BY <3>2, <3>3, <3>4
  <2> QED
    BY <1>0, <1>6, <2>1, <2>2, <2>3 DEF ReadLeft, GateInv, TypeOK, Oracle, state
<1>9. CASE CountBag(t)
  <2>1. pc' \in [Thread -> PC] /\ (pc'["miner"] = "replan" => pc["miner"] = "replan")
    BY <1>0, <1>9 DEF CountBag, TypeOK, PC
  <2>2. Hybrid
    BY <1>9, <1>h DEF CountBag, HybridOnly
  <2>3. saw' \in [Thread -> Oracle]
    <3>1. saw \in [Thread -> Oracle] /\ bag \in 0..MaxBag
      BY <1>0 DEF TypeOK, Oracle
    <3> DEFINE q == IF saw[t].says THEN bag ELSE 0
               w == IF q < MinQueue THEN q ELSE MinQueue
    <3>0. q \in 0..MaxBag
      BY <3>1
    <3>2. w \in 0..MaxBag
      BY <3>0
    <3>3. [saw[t] EXCEPT !.waits = w] \in Oracle
      BY <3>1, <3>2 DEF Oracle
    <3>4. saw' = [saw EXCEPT ![t] = [saw[t] EXCEPT !.waits = w]]
      BY <1>9 DEF CountBag
    <3> QED
      BY <3>1, <3>3, <3>4
  <2> QED
    BY <1>0, <1>9, <2>1, <2>2, <2>3 DEF CountBag, GateInv, TypeOK, Oracle, state
<1>7. CASE Decide(t)
  <2>1. pc' \in [Thread -> PC] /\ (pc'["miner"] = "replan" => pc["miner"] = "replan")
    BY <1>0, <1>7 DEF Decide, Decided, TypeOK, PC
  <2>2. Hybrid
    BY <1>7, <1>h DEF Decide, HybridOnly
  <2>3. saw' \in [Thread -> Oracle]
    <3>1. saw \in [Thread -> Oracle] /\ saw' = [saw EXCEPT ![t] = NotRead]
      BY <1>0, <1>7 DEF Decide, Decided, TypeOK, Oracle
    <3> QED
      BY <1>r, <3>1
  <2>4. drain' \in BOOLEAN
    <3>1. \/ drain' = ~(saw[t].left \/ (saw[t].says /\ saw[t].waits = 0))
          \/ drain' = (saw[t].says /\ saw[t].waits >= MinQueue)
          \/ drain' = FALSE
      BY <1>7 DEF Decide, NoMoreToDo
    <3> QED
      BY <3>1, Zenon
  <2>5. UNCHANGED <<forced, truth, moves, status, state, snap, parked, bag, engine_m>>
    BY <1>7 DEF Decide
  <2> QED
    BY <1>0, <2>1, <2>2, <2>3, <2>4, <2>5 DEF GateInv, TypeOK, Oracle, state
<1>10. CASE t = "miner" /\ (ParkCheck \/ MineTurn)
  <2>1. pc' \in [Thread -> PC] /\ pc'["miner"] # "replan"
    BY <1>0, <1>10 DEF ParkCheck, MineTurn, TypeOK, PC
  <2>2. Hybrid
    BY <1>10, <1>h DEF ParkCheck, MineTurn, HybridOnly
  <2>3. bag' \in 0..MaxBag /\ parked' \in BOOLEAN
    BY <1>0, <1>10 DEF ParkCheck, MineTurn, TypeOK
  <2>4. UNCHANGED <<forced, truth, moves, status, state, snap, saw, drain, engine_m>>
    BY <1>10 DEF ParkCheck, MineTurn
  <2> QED
    BY <1>0, <2>1, <2>2, <2>3, <2>4 DEF GateInv, TypeOK, state
<1>8. CASE t = "miner" /\ Replan
  <2>1. /\ pc' \in [Thread -> PC] /\ snap' \in [Thread -> Row] /\ engine_m' \in Memory
    BY <1>0, <1>8, <1>r, <1>s DEF Replan, Folded, TypeOK, PC, GateInv
  <2>2. pc'["miner"] # "replan"
    BY <1>0, <1>8 DEF Replan, Folded, TypeOK
  <2>3. \A u \in Thread : pc'[u] \in HybridOnly => pc[u] \in HybridOnly
    BY <1>0, <1>8 DEF Replan, Folded, TypeOK, HybridOnly
  <2> QED
    BY <1>0, <1>8, <2>1, <2>2, <2>3 DEF Replan, GateInv, TypeOK, Row, HybridOnly, state
<1> QED
  BY <1>1, <1>2, <1>3, <1>4, <1>5, <1>6, <1>7, <1>8, <1>9, <1>10 DEF Step

LEMMA NextGateInv == GateInv /\ [Next]_vars => GateInv'
<1> SUFFICES ASSUME GateInv, [Next]_vars PROVE GateInv'
  OBVIOUS
<1> USE MemoryIsPositive, ForcedIsMemory, BoundsAreNat, Budgets
<1> USE DEF Hybrid
<1>0. TypeOK
  BY DEF GateInv
<1>1. CASE NetworkMoves
  BY <1>1 DEF NetworkMoves, GateInv, TypeOK, threads, state
<1>2. ASSUME NEW m \in Memory \cup {None}, Publish(m) PROVE GateInv'
  <2>1. status' \in [seq : 0..5, m : Memory \cup {None}]
    BY <1>0, <1>2, FreshNumber DEF Publish
  <2> QED
    BY <1>2, <2>1 DEF Publish, GateInv, TypeOK, threads, state
<1>3. ASSUME NEW t \in Thread, Step(t) PROVE GateInv'
  BY <1>3, StepKeepsGateInv
<1>5. CASE PostAccepted
  BY <1>5 DEF PostAccepted, GateInv, TypeOK, threads
<1>6. CASE PostUnanswered
  <2>1. network_ok' \in BOOLEAN
    <3>1. network_ok' = (network_ok /\ Hybrid /\ OracleSays)
      BY <1>6 DEF PostUnanswered
    <3> QED
      BY <3>1, Zenon
  <2> QED
    BY <1>6, <2>1 DEF PostUnanswered, GateInv, TypeOK, threads
<1>7. CASE EngineRestarts
  BY <1>7 DEF EngineRestarts, GateInv, TypeOK, threads, state
<1>8. CASE UNCHANGED vars
  BY <1>8 DEF vars, GateInv, TypeOK, threads, state
<1>9. truth \in Memory
  BY <1>0 DEF TypeOK
<1> QED
  BY <1>1, <1>2, <1>3, <1>5, <1>6, <1>7, <1>8, <1>9
     DEF Next, PollSucceeds, PollFails

LEMMA GateInvariant == Spec => []GateInv
<1> QED
  BY InitGateInv, NextGateInv, PTL DEF Spec

\* The network state of refresh_network, the two threads' steps through it and
\* the match-drain keep to their types: the poller always finds a number nobody
\* remembers, and the engine is never planned for the m= a failed poll lacks.
THEOREM GateTypes == Spec => []TypeOK
<1>1. GateInv => TypeOK
  BY DEF GateInv
<1> QED
  BY <1>1, GateInvariant, PTL

\* Hybrid mode never replans; classic mode never parks.
ModesApart == (Hybrid => engine_m = forced) /\ (~Hybrid => ~drain)

\* "Hybrid: CUDA stays on fixed m=" (supervisor.cpp:525), and a classic
\* session never sits in a match-drain: the mode read from miner.ini separates
\* replanning (refresh_network) from parking (update_match_drain) for good,
\* in every interleaving of the two threads.
THEOREM ModesStayApart == Spec => []ModesApart
<1>1. GateInv => ModesApart
  BY DEF GateInv, ModesApart
<1> QED
  BY <1>1, GateInvariant, PTL

=============================================================================
