----------------------------- MODULE NetworkGate -----------------------------
(***************************************************************************)
(* The network's m= on its way to the threads that act on it.  The poller  *)
(* (src/src/network/difficulty.cpp) GETs /difficulty and publishes         *)
(* snapshots with a sequence number; the mining thread and the submit      *)
(* worker each fold new snapshots into the shared network state            *)
(* (refresh_network in src/src/app/supervisor.cpp) and then open or close  *)
(* the match-drain (update_match_drain), during which CUDA is parked.  The *)
(* engine is replanned by the mining thread alone.                         *)
(*                                                                         *)
(* Every critical section under state_mu_ or the poller's mutex is a step. *)
(* A snapshot's age is left to chance: it can only make network_ok_ fall   *)
(* sooner.  Sequence numbers are only compared for equality, so a new one  *)
(* is any number nobody remembers.                                         *)
(***************************************************************************)
EXTENDS Naturals, FiniteSets

CONSTANTS Memory,     \* values of m=
          ForcedChoices, \* force_mine_memory_cost in miner.ini: 0 is classic mode
          Fallback,   \* memory_cost: m= when no poll ever succeeded
          MinQueue,   \* match_drain_min_queue
          MatchBudget, \* failed polls that network_ok_ outlives on the bag's m= (6)
          OtherBudget, \* and on any other (3)
          MaxBag,     \* bound: rows in the bag
          MaxMoves    \* bound: changes of the network's m=

ASSUME MemoryIsPositive == Memory \subseteq Nat \ {0} /\ Fallback \in Memory
ASSUME ForcedIsMemory   == ForcedChoices # {} /\ ForcedChoices \subseteq Memory \cup {0}
ASSUME BoundsAreNat     == MaxBag \in Nat /\ MaxMoves \in Nat /\ MinQueue \in Nat \ {0}
ASSUME Budgets == MatchBudget \in Nat /\ OtherBudget \in 0..MatchBudget

None == 0  \* no value: std::optional, and seq before the first poll

Thread == {"miner", "worker"}

VARIABLES
    forced,    \* settings_.force_mine_memory_cost: read once, never changed
    truth,     \* external: the m= the network really has
    moves,     \* bound: how often it has changed
    status,    \* NetworkPoller::status_: seq, and m (None when the GET failed)
    network_difficulty, \* network_difficulty_
    network_ok,         \* network_ok_
    fail_streak,        \* difficulty_fail_streak_
    last_seq,           \* last_poll_seq_
    pc,        \* per thread: step of refresh_network and update_match_drain
    snap,      \* per thread: the snapshot it works on
    saw,       \* per thread: what update_match_drain read of the oracle
    drain,     \* match_drain_active_
    parked,    \* has the mining thread stopped CUDA for it?
    bag,       \* rows in the disk queue at the bag's m= (counted in hybrid mode only)
    engine_m   \* CudaEngine::difficulty_

state  == <<network_difficulty, network_ok, fail_streak, last_seq>>
threads == <<pc, snap, saw>>
vars == <<forced, truth, moves, status, state, threads, drain, parked, bag, engine_m>>

\* "park" and "mine" are the mining thread's alone.
PC == {"idle", "seen", "apply", "replan", "oracle", "left", "count", "decide", "park", "mine"}

Hybrid == forced # 0                                             \* force_mine_mode()
BagM   == IF Hybrid THEN forced                                  \* bag_target_m()
          ELSE IF network_difficulty = None THEN Fallback ELSE network_difficulty
OracleSays == network_difficulty = BagM                          \* oracle_says_m(bag_m)
OracleLeft == network_ok /\ network_difficulty # BagM            \* oracle_left_m(bag_m)

\* Failed polls in a row that network_ok_ outlives; the count stops one short of
\* the larger budget, from where on each failure spends it.
FailBudget == IF Hybrid /\ network_difficulty = forced THEN MatchBudget ELSE OtherBudget

NoSnap  == [seq |-> 0, m |-> None]
NotRead == [says |-> FALSE, left |-> FALSE, waits |-> 0]

\* run() has probed without an answer, set the fallback, and started the threads.
Init ==
    /\ forced \in ForcedChoices
    /\ truth \in Memory /\ moves = 0
    /\ status = NoSnap
    /\ network_difficulty = Fallback /\ network_ok = FALSE
    /\ fail_streak = 0 /\ last_seq = 0
    /\ pc = [t \in Thread |-> "idle"] /\ snap = [t \in Thread |-> NoSnap]
    /\ saw = [t \in Thread |-> NotRead]
    /\ drain = FALSE /\ parked = FALSE /\ bag \in (IF Hybrid THEN 0..MaxBag ELSE {0})
    /\ engine_m = (IF Hybrid THEN forced ELSE Fallback)

-----------------------------------------------------------------------------
(* The network and the poller                                              *)

\* External: the network changes its m=.
NetworkMoves ==
    /\ moves < MaxMoves
    /\ truth' \in Memory \ {truth}
    /\ moves' = moves + 1
    /\ UNCHANGED <<forced, status, state, threads, drain, parked, bag, engine_m>>

\* Sequence numbers that somebody still remembers.
Remembered == {status.seq, last_seq} \cup {snap[t].seq : t \in Thread}
NewSeq == CHOOSE n \in 1..5 : n \notin Remembered

\* Timing: polls are a second apart at least and the submit worker looks every
\* 20 ms when it has nothing to send, so some thread has seen a snapshot before
\* the next one replaces it.  The other may still be working on an older one.
StatusSeen == status.seq \in {0, last_seq}

\* poll_once: a GET, and its outcome published under a new sequence number.
Publish(m) ==
    /\ StatusSeen
    /\ status' = [seq |-> NewSeq, m |-> m]
    /\ UNCHANGED <<forced, truth, moves, state, threads, drain, parked, bag, engine_m>>

PollSucceeds == Publish(truth)
PollFails    == Publish(None)

-----------------------------------------------------------------------------
(* refresh_network, by thread t                                            *)

GetStatus(t) ==
    /\ pc[t] = "idle"
    /\ snap' = [snap EXCEPT ![t] = status]
    /\ pc' = [pc EXCEPT ![t] = "seen"]
    /\ UNCHANGED <<forced, truth, moves, status, state, saw, drain, parked, bag, engine_m>>

\* Thread t is done with its snapshot and forgets it.
Folded(t) == /\ pc' = [pc EXCEPT ![t] = "oracle"]
             /\ snap' = [snap EXCEPT ![t] = NoSnap]

\* Mutant of Dedupe: only the first snapshot is ever folded in.
DedupeFirstOnly(t) ==
    /\ pc[t] = "seen"
    /\ IF snap[t].seq = 0 \/ last_seq # 0
       THEN Folded(t) /\ UNCHANGED last_seq
       ELSE pc' = [pc EXCEPT ![t] = "apply"] /\ last_seq' = snap[t].seq /\ UNCHANGED snap
    /\ UNCHANGED <<forced, truth, moves, status, network_difficulty, network_ok, fail_streak,
                   saw, drain, parked, bag, engine_m>>

\* A snapshot whose number is the last one seen is not folded in again.
Dedupe(t) ==
    /\ pc[t] = "seen"
    /\ IF snap[t].seq \in {0, last_seq}
       THEN Folded(t) /\ UNCHANGED last_seq
       ELSE pc' = [pc EXCEPT ![t] = "apply"] /\ last_seq' = snap[t].seq /\ UNCHANGED snap
    /\ UNCHANGED <<forced, truth, moves, status, network_difficulty, network_ok, fail_streak,
                   saw, drain, parked, bag, engine_m>>

\* Mutant of ApplySuccess: hybrid mode has no use for the network's m=.
ApplySuccessClassicOnly(t) ==
    /\ pc[t] = "apply" /\ snap[t].m # None
    /\ network_difficulty' = (IF Hybrid THEN network_difficulty ELSE snap[t].m)
    /\ network_ok' = TRUE /\ fail_streak' = 0
    /\ IF snap[t].m # network_difficulty /\ ~Hybrid /\ t = "miner"
       THEN pc' = [pc EXCEPT ![t] = "replan"] /\ UNCHANGED snap
       ELSE Folded(t)
    /\ UNCHANGED <<forced, truth, moves, status, last_seq, saw, drain, parked, bag, engine_m>>

\* A successful poll: the number is the oracle's, whatever thread t read it.
ApplySuccess(t) ==
    /\ pc[t] = "apply" /\ snap[t].m # None
    /\ network_difficulty' = snap[t].m /\ network_ok' = TRUE /\ fail_streak' = 0
    /\ IF snap[t].m # network_difficulty /\ ~Hybrid /\ t = "miner"
       THEN pc' = [pc EXCEPT ![t] = "replan"] /\ UNCHANGED snap
       ELSE Folded(t)
    /\ UNCHANGED <<forced, truth, moves, status, last_seq, saw, drain, parked, bag, engine_m>>

\* Mutant of ApplyFailure: the streak is that of the budget, and one more.
ApplyFailureOffByOne(t) ==
    /\ pc[t] = "apply" /\ snap[t].m = None
    /\ fail_streak' = IF fail_streak <= MatchBudget THEN fail_streak + 1 ELSE MatchBudget
    /\ network_ok' \in {FALSE, fail_streak + 1 < FailBudget}
    /\ Folded(t)
    /\ UNCHANGED <<forced, truth, moves, status, network_difficulty, last_seq, saw, drain,
                   parked, bag, engine_m>>

\* A failed one: last-good stays, network_ok_ falls when a budget is spent.
ApplyFailure(t) ==
    /\ pc[t] = "apply" /\ snap[t].m = None
    /\ fail_streak' = IF fail_streak + 1 < MatchBudget THEN fail_streak + 1 ELSE fail_streak
    /\ network_ok' \in {FALSE, fail_streak + 1 < FailBudget}
    /\ Folded(t)
    /\ UNCHANGED <<forced, truth, moves, status, network_difficulty, last_seq, saw, drain,
                   parked, bag, engine_m>>

\* Classic mode: the mining thread replans the engine for the new m=.
Replan ==
    /\ pc["miner"] = "replan"
    /\ engine_m' = snap["miner"].m
    /\ Folded("miner")
    /\ UNCHANGED <<forced, truth, moves, status, state, saw, drain, parked, bag>>

-----------------------------------------------------------------------------
(* update_match_drain, by thread t; hybrid mode only                       *)

ReadOracle(t) ==
    /\ pc[t] = "oracle"
    /\ IF Hybrid THEN /\ saw' = [saw EXCEPT ![t].says = OracleSays]
                      /\ pc' = [pc EXCEPT ![t] = "left"]
                 ELSE pc' = [pc EXCEPT ![t] = "idle"] /\ UNCHANGED saw
    /\ UNCHANGED <<forced, truth, moves, status, state, snap, drain, parked, bag, engine_m>>

ReadLeft(t) ==
    /\ pc[t] = "left"
    /\ saw' = [saw EXCEPT ![t].left = OracleLeft]
    /\ pc' = [pc EXCEPT ![t] = "count"]
    /\ UNCHANGED <<forced, truth, moves, status, state, snap, drain, parked, bag, engine_m>>

\* The count matters when the oracle says the bag's m=, and is only compared with
\* 0 and with MinQueue.
CountBag(t) ==
    /\ pc[t] = "count"
    /\ LET match_q == IF saw[t].says THEN bag ELSE 0
       IN saw' = [saw EXCEPT ![t].waits = IF match_q < MinQueue THEN match_q ELSE MinQueue]
    /\ pc' = [pc EXCEPT ![t] = "decide"]
    /\ UNCHANGED <<forced, truth, moves, status, state, snap, drain, parked, bag, engine_m>>

\* The worker goes on to its jobs, the mining thread to the engine.
Decided(t) == /\ pc' = [pc EXCEPT ![t] = IF t = "miner" THEN "park" ELSE "idle"]
              /\ saw' = [saw EXCEPT ![t] = NotRead]

\* Mutant of Decide: an open window closes when the bag is empty, only.
DecideOnlyEmpty(t) ==
    /\ pc[t] = "decide"
    /\ drain' = IF drain THEN ~(saw[t].says /\ saw[t].waits = 0)
                ELSE saw[t].says /\ saw[t].waits >= MinQueue
    /\ Decided(t)
    /\ UNCHANGED <<forced, truth, moves, status, state, snap, parked, bag, engine_m>>

\* The bag was empty at its m=, or a live m= had left that.
NoMoreToDo(t) == saw[t].left \/ (saw[t].says /\ saw[t].waits = 0)

\* Open a closed window when the oracle matches and enough rows wait; close an
\* open one when the bag is empty, a live m= left it, or its time is up
\* (match_drain_max_s, which may pass between any two turns, or be never).
Decide(t) ==
    /\ pc[t] = "decide"
    /\ \/ ~drain /\ drain' = (saw[t].says /\ saw[t].waits >= MinQueue)
       \/ drain /\ drain' = ~NoMoreToDo(t)
       \/ drain /\ drain' = FALSE
    /\ Decided(t)
    /\ UNCHANGED <<forced, truth, moves, status, state, snap, parked, bag, engine_m>>

-----------------------------------------------------------------------------
(* What the threads do with it                                             *)

\* Mutant of ParkCheck: CUDA is stopped, and started again in the same turn.
ParkCheckMinesOn ==
    /\ pc["miner"] = "park"
    /\ parked' = drain
    /\ pc' = [pc EXCEPT !["miner"] = "mine"]
    /\ \/ UNCHANGED bag
       \/ drain /\ ~parked /\ bag < MaxBag /\ bag' = bag + 1
    /\ UNCHANGED <<forced, truth, moves, status, state, snap, saw, drain, engine_m>>

\* The mining thread of a hybrid session looks at the window: it stops a running
\* engine, whose pipeline may leave it a last hit, or goes on to mine.
ParkCheck ==
    /\ pc["miner"] = "park"
    /\ parked' = drain
    /\ pc' = [pc EXCEPT !["miner"] = IF drain THEN "idle" ELSE "mine"]
    /\ \/ UNCHANGED bag
       \/ drain /\ ~parked /\ bag < MaxBag /\ bag' = bag + 1
    /\ UNCHANGED <<forced, truth, moves, status, state, snap, saw, drain, engine_m>>

\* ... mine_batch: a hit may be bagged at the bag's m=, window or no window.
MineTurn ==
    /\ pc["miner"] = "mine"
    /\ pc' = [pc EXCEPT !["miner"] = "idle"]
    /\ \/ UNCHANGED bag
       \/ bag < MaxBag /\ bag' = bag + 1
    /\ UNCHANGED <<forced, truth, moves, status, state, snap, saw, drain, parked, engine_m>>

\* A POST of a row is accepted: the row leaves, the network is up.
PostAccepted ==
    /\ Hybrid /\ OracleSays /\ bag > 0
    /\ truth = BagM
    /\ bag' = bag - 1
    /\ network_ok' = TRUE
    /\ UNCHANGED <<forced, truth, moves, status, network_difficulty, fail_streak, last_seq,
                   threads, drain, parked, engine_m>>

\* note_submit_transport_failure: a live POST had no answer.
PostUnanswered ==
    /\ ~drain
    /\ network_ok' = (network_ok /\ Hybrid /\ OracleSays)
    /\ UNCHANGED <<forced, truth, moves, status, network_difficulty, fail_streak, last_seq,
                   threads, drain, parked, bag, engine_m>>

\* Restart of the engine after a cooldown.
EngineRestarts ==
    /\ pc["miner"] = "idle" /\ ~Hybrid
    /\ engine_m' = network_difficulty
    /\ UNCHANGED <<forced, truth, moves, status, state, threads, drain, parked, bag>>

Step(t) == \/ GetStatus(t) \/ Dedupe(t) \/ ApplySuccess(t) \/ ApplyFailure(t)
           \/ ReadOracle(t) \/ ReadLeft(t) \/ CountBag(t) \/ Decide(t)
           \/ t = "miner" /\ (Replan \/ ParkCheck \/ MineTurn)

Next == \/ NetworkMoves \/ PollSucceeds \/ PollFails
        \/ \E t \in Thread : Step(t)
        \/ PostAccepted \/ PostUnanswered \/ EngineRestarts

Spec == Init /\ [][Next]_vars

\* The threads run on (both loops refresh every turn), a GET has a timeout.
Fairness == /\ \A t \in Thread : WF_vars(Step(t))
            /\ WF_vars(PollSucceeds \/ PollFails)

FairSpec == Spec /\ Fairness

\* ... and the network answers a poll, or a POST it should take, now and then.
HealthySpec == FairSpec /\ SF_vars(PollSucceeds) /\ SF_vars(PostAccepted)

-----------------------------------------------------------------------------
(* Properties                                                              *)

\* Every variable ranges over what the code can store in it.
TypeOK ==
    /\ forced \in ForcedChoices
    /\ truth \in Memory /\ moves \in 0..MaxMoves
    /\ status \in [seq : 0..5, m : Memory \cup {None}]
    /\ network_difficulty \in Memory /\ network_ok \in BOOLEAN
    /\ fail_streak \in 0..MatchBudget /\ last_seq \in 0..5
    /\ pc \in [Thread -> PC] /\ snap \in [Thread -> [seq : 0..5, m : Memory \cup {None}]]
    /\ saw \in [Thread -> [says : BOOLEAN, left : BOOLEAN, waits : 0..MaxBag]]
    /\ drain \in BOOLEAN /\ parked \in BOOLEAN /\ bag \in 0..MaxBag
    /\ engine_m \in Memory

\* Once the network keeps one m= and answers polls, the supervisor ends up with
\* that m= for good, although a thread that was slow may overwrite a newer
\* snapshot with the older one it holds.
NetFollows == <>[](network_difficulty = truth)

\* When polls have stopped failing and the pool takes what it should, no
\* match-drain lasts for ever: CUDA is parked for as long as the bag, or the
\* network's stay at its m=, lasts.
DrainEnds == <>[](status.m # None) => []<>(~drain)

\* A window is closed for its age alone.
TimeIsUp == drain /\ ~drain' /\ \E t \in Thread : pc[t] = "decide" /\ ~NoMoreToDo(t)

\* ... and a bag that waits for its m= is emptied while the network has it,
\* though the mining thread adds to it as long as CUDA is not parked: the window
\* opens, parks CUDA and lasts until the last row is gone, whatever either thread
\* has read too early.  That is, unless windows are closed for their age for ever.
BagServed ==
    <>[](status.m # None) /\ <>[][~TimeIsUp]_vars =>
        [](Hybrid /\ bag > 0 => <>(bag = 0 \/ truth # forced))

-----------------------------------------------------------------------------
(* What comments say and the code does not do                              *)

\* "Classic mode: CUDA follows live /difficulty" (supervisor.cpp:1499).
EngineFollows == <>[](Hybrid \/ engine_m = truth)
=============================================================================
