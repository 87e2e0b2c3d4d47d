------------------------ MODULE SubmitPipelineProofs ------------------------
(***************************************************************************)
(* What holds of a hit's way through the supervisor for any set of hits,   *)
(* any number of pool threads and any mix of settings and platforms.       *)
(***************************************************************************)
EXTENDS SubmitPipeline, FiniteSetTheorems, TLAPS

\* Where a thread can be while it has hits of its own.
InHand == /\ hand # {} => mpc \in {"hit", "checked", "graceBag", "finalBag"}
          /\ batch # {} => wpc \in {"route", "live", "post", "lastBag"}
          /\ inflight # {} => wpc \in {"post", "wave", "lastWave"}
          /\ wave \cup accepted_ids # {} => wpc \in {"wave", "lastWave"}
          /\ bagging # {} => hpc = "bag"
          /\ IsFiniteSet(inflight)

\* Hits and rows come from the engine or from an earlier session, never both: a
\* row that cannot be assembled, and so may leave the queue, is no hit.
Known == /\ hand \cup live_q \cup batch \cup Posting \cup bagging \cup stored \cup answered
                \subseteq found \cup Backlog
         /\ found \cap Backlog = {}

\* What was answered "ok" is with the pool.
Recorded == answered \subseteq pool

\* Who may still run when: the worker not before the loop and not after its
\* join, and nothing is put into the live queue once it is bagged for good.
Closing == /\ mpc \in {"boot", "start"} => wpc = "none"
           /\ mpc \in {"done", "exited"} => wpc \in {"none", "stopped"}
           /\ mpc \in {"finalBag", "finalJoin", "done", "exited"} => live_q = {}
           /\ hpc # "idle" => HandlerOn # "none"
           /\ mpc = "exited" /\ HandlerOn = "main" => hpc \in {"idle", "returned"}

\* The inductive invariant.
PipeInv == /\ TypeOK /\ InHand /\ WaveBacked /\ Closing
           /\ Known /\ Recorded /\ NothingLost /\ OneOwner /\ AcceptedIsDone

-----------------------------------------------------------------------------

\* Any two places, spelled out.
Apart(H, L, B, P, G, D) ==
    /\ H \cap (L \cup B \cup P \cup G \cup D) = {}
    /\ L \cap (B \cup P \cup G \cup D) = {}
    /\ B \cap (P \cup G \cup D) = {}
    /\ P \cap (G \cup D) = {}
    /\ G \cap D = {}

LEMMA OwnersApart ==
    /\ OneOwner <=> Apart(hand, live_q, batch, Posting, bagging, stored)
    /\ OneOwner' <=> Apart(hand', live_q', batch', Posting', bagging', stored')
<1>1. OneOwner <=> Apart(hand, live_q, batch, Posting, bagging, stored)
  BY DEF OneOwner, Apart
<1>2. OneOwner' <=> Apart(hand', live_q', batch', Posting', bagging', stored')
  BY DEF OneOwner, Apart
<1>. QED
  BY <1>1, <1>2

LEMMA InitPipeInv == Init => PipeInv
<1>. SUFFICES ASSUME Init PROVE PipeInv
  OBVIOUS
<1>1. TypeOK
  <2>1. Cardinality(inflight) <= Parallel
    BY PoolSize, FS_EmptySet DEF Init
  <2>. QED
    BY <2>1, HitKinds DEF Init, TypeOK, MainPC, WorkerPC, HandlerPC
<1>2. InHand /\ WaveBacked /\ Closing /\ Known /\ Recorded /\ NothingLost /\ AcceptedIsDone
  BY FS_EmptySet DEF Init, InHand, WaveBacked, Closing, Known, Recorded, NothingLost,
                     AcceptedIsDone, Posting
<1>3. OneOwner
  BY OwnersApart DEF Init, Apart, Posting
<1>. QED
  BY <1>1, <1>2, <1>3 DEF PipeInv

\* Bagging puts the hits on disk or, if the settings say so, drops them.
LEMMA Bags ==
    ASSUME NEW S, Queue(S) \/ Keep(S)
    PROVE  \/ stored' = stored \cup S /\ dropped' = dropped
           \/ stored' = stored /\ dropped' = dropped \cup S
BY DEF Queue, Keep

\* A step that moves no hit keeps what is said of the hits.
LEMMA NoHitMoves ==
    ASSUME PipeInv, Posting' = Posting,
           UNCHANGED <<hand, live_q, batch, wave, inflight, accepted_ids, bagging,
                       stored, pool, found, dropped, answered>>
    PROVE  Known' /\ Recorded' /\ NothingLost' /\ OneOwner' /\ AcceptedIsDone'
BY OwnersApart DEF PipeInv, Apart, Known, Recorded, NothingLost, AcceptedIsDone

\* What the pool does with a POST: it forgets nothing, and "ok" means recorded.
LEMMA VerifyRecords ==
    ASSUME pool \in SUBSET Hash, NEW h \in Hash, NEW class, Verify(h, class)
    PROVE  /\ pool \subseteq pool' /\ pool' \in SUBSET Hash
           /\ class = "ok" => h \in pool'
BY DEF Verify

\* The mining thread keeps the invariant.
LEMMA MainKeepsPipeInv == PipeInv /\ MainStep => PipeInv'
<1>. SUFFICES ASSUME PipeInv, MainStep PROVE PipeInv'
  OBVIOUS
<1>. USE DEF flags, main, worker, handler, history
<1>0. /\ TypeOK /\ InHand /\ WaveBacked /\ Closing /\ Known /\ Recorded /\ NothingLost
      /\ AcceptedIsDone /\ Apart(hand, live_q, batch, Posting, bagging, stored)
      /\ UNCHANGED setup
  BY OwnersApart DEF PipeInv, MainStep
<1>1. CASE RunBegins \/ WorkerStarts \/ EngineFails \/ Iterate \/ BatchDone \/ LoopEnds \/ Join \/ Exit
  <2>1. TypeOK'
    <3>1. CASE RunBegins \/ WorkerStarts \/ EngineFails
      BY <1>0, <3>1 DEF RunBegins, WorkerStarts, EngineFails, TypeOK, MainPC, WorkerPC
    <3>2. CASE Iterate \/ BatchDone \/ LoopEnds
      BY <1>0, <3>2 DEF Iterate, BatchDone, LoopEnds, TypeOK, MainPC
    <3>3. CASE Join \/ Exit
      BY <1>0, <3>3 DEF Join, Exit, TypeOK, MainPC, WorkerPC
    <3>. QED
      BY <1>1, <3>1, <3>2, <3>3
  <2>2. InHand' /\ WaveBacked' /\ Closing'
    BY <1>0, <1>1 DEF RunBegins, WorkerStarts, EngineFails, Iterate, BatchDone, LoopEnds, Join,
                      Exit, InHand, WaveBacked, Closing, MainRuns, TypeOK, HandlerOn, Setup
  <2>3. Known' /\ Recorded' /\ NothingLost' /\ OneOwner' /\ AcceptedIsDone'
    BY <1>0, <1>1, NoHitMoves DEF RunBegins, WorkerStarts, EngineFails, Iterate, BatchDone,
                                  LoopEnds, Join, Exit, Posting, InHand, Closing
  <2>. QED
    BY <2>1, <2>2, <2>3 DEF PipeInv
<1>2. CASE ReadShutdownFlag
  <2>1. TypeOK'
    BY <1>0, <1>2, Bags DEF ReadShutdownFlag, TypeOK, MainPC
  <2>2. InHand' /\ WaveBacked' /\ Closing'
    BY <1>0, <1>2, Bags DEF ReadShutdownFlag, InHand, WaveBacked, Closing, MainRuns, TypeOK,
                            HandlerOn
  <2>3. Known' /\ Recorded' /\ NothingLost'
    BY <1>0, <1>2, Bags DEF ReadShutdownFlag, InHand, Known, Recorded, NothingLost, Posting
  <2>4. OneOwner'
    BY <1>0, <1>2, Bags, OwnersApart DEF ReadShutdownFlag, InHand, Apart, Known, Posting
  <2>5. AcceptedIsDone'
    BY <1>0, <1>2, Bags DEF ReadShutdownFlag, InHand, AcceptedIsDone, Known, Posting
  <2>. QED
    BY <2>1, <2>2, <2>3, <2>4, <2>5 DEF PipeInv
<1>3. CASE BagSwap
  <2>1. TypeOK'
    BY <1>0, <1>3, Bags DEF BagSwap, TypeOK, MainPC
  <2>2. InHand' /\ WaveBacked' /\ Closing'
    BY <1>0, <1>3, Bags DEF BagSwap, InHand, WaveBacked, Closing, MainRuns, TypeOK, HandlerOn
  <2>3. Known' /\ Recorded' /\ NothingLost'
    BY <1>0, <1>3, Bags DEF BagSwap, InHand, Known, Recorded, NothingLost, Posting
  <2>4. OneOwner'
    BY <1>0, <1>3, Bags, OwnersApart DEF BagSwap, InHand, Apart, Known, Posting
  <2>5. AcceptedIsDone'
    BY <1>0, <1>3, Bags DEF BagSwap, InHand, AcceptedIsDone, Known, Posting
  <2>. QED
    BY <2>1, <2>2, <2>3, <2>4, <2>5 DEF PipeInv
<1>4. CASE BagEnqueue
  <2>1. TypeOK'
    BY <1>0, <1>4, Bags DEF BagEnqueue, TypeOK, MainPC
  <2>2. InHand' /\ WaveBacked' /\ Closing'
    BY <1>0, <1>4, Bags DEF BagEnqueue, InHand, WaveBacked, Closing, MainRuns, TypeOK,
                             HandlerOn
  <2>3. Known' /\ Recorded' /\ NothingLost'
    BY <1>0, <1>4, Bags DEF BagEnqueue, InHand, Known, Recorded, NothingLost, Posting
  <2>4. OneOwner'
    BY <1>0, <1>4, Bags, OwnersApart DEF BagEnqueue, InHand, Apart, Known, Posting
  <2>5. AcceptedIsDone'
    BY <1>0, <1>4, Bags DEF BagEnqueue, InHand, AcceptedIsDone, Known, Posting
  <2>. QED
    BY <2>1, <2>2, <2>3, <2>4, <2>5 DEF PipeInv
<1>5. ASSUME NEW window \in BOOLEAN, NEW drain \in BOOLEAN, NEW match \in BOOLEAN,
            Route(window, drain, match)
     PROVE  PipeInv'
  <2>1. TypeOK'
    BY <1>0, <1>5, Bags DEF Route, TypeOK, MainPC
  <2>2. InHand' /\ WaveBacked' /\ Closing'
    BY <1>0, <1>5, Bags DEF Route, InHand, WaveBacked, Closing, MainRuns, TypeOK, HandlerOn
  <2>3. Known' /\ Recorded' /\ NothingLost'
    BY <1>0, <1>5, Bags DEF Route, InHand, Known, Recorded, NothingLost, Posting
  <2>4. OneOwner'
    BY <1>0, <1>5, Bags, OwnersApart DEF Route, InHand, Apart, Known, Posting
  <2>5. AcceptedIsDone'
    BY <1>0, <1>5, Bags DEF Route, InHand, AcceptedIsDone, Known, Posting
  <2>. QED
    BY <2>1, <2>2, <2>3, <2>4, <2>5 DEF PipeInv
<1>6. ASSUME NEW window \in BOOLEAN, GraceDrain(window)
     PROVE  PipeInv'
  <2>1. TypeOK'
    BY <1>0, <1>6, Bags DEF GraceDrain, TypeOK, MainPC
  <2>2. InHand' /\ WaveBacked' /\ Closing'
    BY <1>0, <1>6, Bags DEF GraceDrain, InHand, WaveBacked, Closing, MainRuns, TypeOK,
                             HandlerOn
  <2>3. Known' /\ Recorded' /\ NothingLost'
    BY <1>0, <1>6, Bags DEF GraceDrain, InHand, Known, Recorded, NothingLost, Posting
  <2>4. OneOwner'
    BY <1>0, <1>6, Bags, OwnersApart DEF GraceDrain, InHand, Apart, Known, Posting
  <2>5. AcceptedIsDone'
    BY <1>0, <1>6, Bags DEF GraceDrain, InHand, AcceptedIsDone, Known, Posting
  <2>. QED
    BY <2>1, <2>2, <2>3, <2>4, <2>5 DEF PipeInv
<1>7. ASSUME NEW window \in BOOLEAN, NEW h \in Hash, HitFound(h, window)
     PROVE  PipeInv'
  <2>1. TypeOK'
    BY <1>0, <1>7, Bags DEF HitFound, TypeOK, MainPC
  <2>2. InHand' /\ WaveBacked' /\ Closing'
    BY <1>0, <1>7, Bags DEF HitFound, InHand, WaveBacked, Closing, MainRuns, TypeOK, HandlerOn
  <2>3. Known' /\ Recorded' /\ NothingLost'
    BY <1>0, <1>7, Bags DEF HitFound, InHand, Known, Recorded, NothingLost, Posting
  <2>4. OneOwner'
    BY <1>0, <1>7, Bags, OwnersApart DEF HitFound, InHand, Apart, Known, Posting
  <2>5. AcceptedIsDone'
    BY <1>0, <1>7, Bags DEF HitFound, InHand, AcceptedIsDone, Known, Posting
  <2>. QED
    BY <2>1, <2>2, <2>3, <2>4, <2>5 DEF PipeInv
<1>. QED
  BY <1>1, <1>2, <1>3, <1>4, <1>5, <1>6, <1>7
     DEF MainStep

\* The submit worker and its pool threads keep the invariant.
LEMMA WorkerKeepsPipeInv == PipeInv /\ WorkerStep => PipeInv'
<1>. SUFFICES ASSUME PipeInv, WorkerStep PROVE PipeInv'
  OBVIOUS
<1>. USE DEF flags, main, worker, handler, history
<1>0. /\ TypeOK /\ InHand /\ WaveBacked /\ Closing /\ Known /\ Recorded /\ NothingLost
      /\ AcceptedIsDone /\ Apart(hand, live_q, batch, Posting, bagging, stored)
      /\ UNCHANGED setup /\ mpc # "exited"
  BY OwnersApart DEF PipeInv, WorkerStep
<1>1. CASE LiveDone \/ FlushSkipped \/ WorkerTurnEnds
  <2>1. TypeOK'
    BY <1>0, <1>1 DEF LiveDone, FlushSkipped, WorkerTurnEnds, TypeOK, MainPC, WorkerPC,
                      HandlerPC
  <2>2. InHand' /\ WaveBacked' /\ Closing'
    BY <1>0, <1>1 DEF LiveDone, FlushSkipped, WorkerTurnEnds, InHand, WaveBacked, Closing,
                      MainRuns, TypeOK, HandlerOn, Setup
  <2>3. Known' /\ Recorded' /\ NothingLost' /\ OneOwner' /\ AcceptedIsDone'
    BY <1>0, <1>1, NoHitMoves DEF LiveDone, FlushSkipped, WorkerTurnEnds, Posting, InHand,
                                  Closing
  <2>. QED
    BY <2>1, <2>2, <2>3 DEF PipeInv
<1>2. CASE Take
  <2>1. TypeOK'
    BY <1>0, <1>2 DEF Take, TypeOK, WorkerPC, HandlerPC
  <2>2. InHand' /\ WaveBacked' /\ Closing'
    BY <1>0, <1>2 DEF Take, InHand, WaveBacked, Closing, TypeOK, HandlerOn
  <2>3. Known' /\ Recorded' /\ NothingLost'
    BY <1>0, <1>2 DEF Take, InHand, Known, Recorded, NothingLost, Posting
  <2>4. OneOwner'
    BY <1>0, <1>2, OwnersApart DEF Take, InHand, Apart, Known, Posting
  <2>5. AcceptedIsDone'
    BY <1>0, <1>2 DEF Take, InHand, AcceptedIsDone, Known, Posting
  <2>. QED
    BY <2>1, <2>2, <2>3, <2>4, <2>5 DEF PipeInv
<1>3. CASE LastSwap
  <2>1. TypeOK'
    BY <1>0, <1>3 DEF LastSwap, TypeOK, WorkerPC, HandlerPC
  <2>2. InHand' /\ WaveBacked' /\ Closing'
    BY <1>0, <1>3 DEF LastSwap, InHand, WaveBacked, Closing, TypeOK, HandlerOn
  <2>3. Known' /\ Recorded' /\ NothingLost'
    BY <1>0, <1>3 DEF LastSwap, InHand, Known, Recorded, NothingLost, Posting
  <2>4. OneOwner'
    BY <1>0, <1>3, OwnersApart DEF LastSwap, InHand, Apart, Known, Posting
  <2>5. AcceptedIsDone'
    BY <1>0, <1>3 DEF LastSwap, InHand, AcceptedIsDone, Known, Posting
  <2>. QED
    BY <2>1, <2>2, <2>3, <2>4, <2>5 DEF PipeInv
<1>4. CASE WaveEnds
  <2>1. TypeOK'
    BY <1>0, <1>4 DEF WaveEnds, TypeOK, WorkerPC, HandlerPC
  <2>2. InHand' /\ WaveBacked' /\ Closing'
    BY <1>0, <1>4 DEF WaveEnds, InHand, WaveBacked, Closing, TypeOK, HandlerOn
  <2>3. Known' /\ Recorded' /\ NothingLost'
    BY <1>0, <1>4 DEF WaveEnds, InHand, WaveBacked, Known, Recorded,
                  NothingLost, Posting
  <2>4. OneOwner'
    BY <1>0, <1>4, OwnersApart DEF WaveEnds, InHand, Apart, Known, Posting
  <2>5. AcceptedIsDone'
    BY <1>0, <1>4 DEF WaveEnds, InHand, AcceptedIsDone, Known, Posting
  <2>. QED
    BY <2>1, <2>2, <2>3, <2>4, <2>5 DEF PipeInv
<1>5. ASSUME NEW down \in BOOLEAN, LastBag(down)
     PROVE  PipeInv'
  <2>1. TypeOK'
    BY <1>0, <1>5, Bags DEF LastBag, TypeOK, WorkerPC, HandlerPC
  <2>2. InHand' /\ WaveBacked' /\ Closing'
    BY <1>0, <1>5, Bags DEF LastBag, InHand, WaveBacked, Closing, TypeOK, HandlerOn
  <2>3. Known' /\ Recorded' /\ NothingLost'
    BY <1>0, <1>5, Bags DEF LastBag, InHand, Known, Recorded, NothingLost, Posting
  <2>4. OneOwner'
    BY <1>0, <1>5, Bags, OwnersApart DEF LastBag, InHand, Apart, Known, Posting
  <2>5. AcceptedIsDone'
    BY <1>0, <1>5, Bags DEF LastBag, InHand, AcceptedIsDone, Known, Posting
  <2>. QED
    BY <2>1, <2>2, <2>3, <2>4, <2>5 DEF PipeInv
<1>6. ASSUME NEW drain \in BOOLEAN, NEW down \in BOOLEAN, RouteBatch(drain, down)
     PROVE  PipeInv'
  <2>1. TypeOK'
    BY <1>0, <1>6, Bags DEF RouteBatch, TypeOK, WorkerPC, HandlerPC
  <2>2. InHand' /\ WaveBacked' /\ Closing'
    BY <1>0, <1>6, Bags DEF RouteBatch, InHand, WaveBacked, Closing, TypeOK, HandlerOn
  <2>3. Known' /\ Recorded' /\ NothingLost'
    BY <1>0, <1>6, Bags DEF RouteBatch, InHand, Known, Recorded, NothingLost, Posting
  <2>4. OneOwner'
    BY <1>0, <1>6, Bags, OwnersApart DEF RouteBatch, InHand, Apart, Known, Posting
  <2>5. AcceptedIsDone'
    BY <1>0, <1>6, Bags DEF RouteBatch, InHand, AcceptedIsDone, Known, Posting
  <2>. QED
    BY <2>1, <2>2, <2>3, <2>4, <2>5 DEF PipeInv
<1>7. ASSUME NEW h \in Hash, NEW window \in BOOLEAN, NEW match \in BOOLEAN,
            LiveGates(h, window, match)
     PROVE  PipeInv'
  <2>0. /\ IsFiniteSet({h}) /\ Cardinality({h}) <= Parallel
        /\ UNCHANGED inflight \/ inflight' = {h}
    <3>1. IsFiniteSet({h}) /\ Cardinality({h}) = 1
      BY FS_Singleton
    <3>2. UNCHANGED inflight \/ inflight' = {h}
      BY <1>7 DEF LiveGates
    <3>. QED
      BY <3>1, <3>2, PoolSize
  <2>1. TypeOK'
    BY <1>0, <1>7, <2>0, Bags DEF LiveGates, TypeOK, WorkerPC, HandlerPC
  <2>2. InHand' /\ WaveBacked' /\ Closing'
    BY <1>0, <1>7, <2>0, Bags DEF LiveGates, InHand, WaveBacked, Closing, TypeOK, HandlerOn
  <2>3. Known' /\ Recorded' /\ NothingLost'
    BY <1>0, <1>7, Bags DEF LiveGates, InHand, Known, Recorded, NothingLost, Posting
  <2>4. OneOwner'
    BY <1>0, <1>7, Bags, OwnersApart DEF LiveGates, InHand, Apart, Known, Posting
  <2>5. AcceptedIsDone'
    BY <1>0, <1>7, Bags DEF LiveGates, InHand, AcceptedIsDone, Known, Posting
  <2>. QED
    BY <2>1, <2>2, <2>3, <2>4, <2>5 DEF PipeInv
<1>8. ASSUME NEW h \in Hash, NEW a \in LiveClasses, LiveAnswer(h, a)
       PROVE  PipeInv'
  <2>1. /\ wpc = "post" /\ Posting = {h} /\ inflight' = {} /\ Posting' = {} /\ wpc' = "live"
        /\ UNCHANGED <<running, shutting_down, worker_running, mpc, hand, batch, wave,
                       accepted_ids, hpc, bagging, found, live_q>>
    BY <1>8 DEF LiveAnswer, Posting
  <2>2. \/ /\ h \in pool' /\ answered' = answered \cup {h}
           /\ UNCHANGED <<stored, dropped>>
        \/ /\ UNCHANGED answered
           /\ \/ stored' = stored \cup {h} /\ dropped' = dropped
              \/ stored' = stored /\ dropped' = dropped \cup {h}
    BY <1>0, <1>8, Bags, VerifyRecords DEF LiveAnswer, TypeOK
  <2>3. pool \subseteq pool' /\ pool' \in SUBSET Hash
    BY <1>0, <1>8, VerifyRecords DEF LiveAnswer, TypeOK
  <2>4. IsFiniteSet({}) /\ Cardinality({}) <= Parallel
    BY FS_EmptySet, PoolSize
  <2>5. TypeOK'
    BY <1>0, <2>1, <2>2, <2>3, <2>4 DEF TypeOK, WorkerPC
  <2>6. InHand' /\ WaveBacked' /\ Closing'
    BY <1>0, <2>1, <2>4 DEF InHand, WaveBacked, Closing, HandlerOn
  <2>7. Known' /\ Recorded' /\ NothingLost'
    BY <1>0, <2>1, <2>2, <2>3 DEF Known, Recorded, NothingLost
  <2>8. OneOwner'
    BY <1>0, <2>1, <2>2, OwnersApart DEF Apart
  <2>9. AcceptedIsDone'
    BY <1>0, <2>1, <2>2 DEF AcceptedIsDone, Apart, InHand
  <2>. QED
    BY <2>5, <2>6, <2>7, <2>8, <2>9 DEF PipeInv
<1>9. ASSUME NEW rows \in SUBSET stored, NEW window \in BOOLEAN, FlushBegins(rows, window)
     PROVE  PipeInv'
  <2>1. TypeOK'
    BY <1>0, <1>9 DEF FlushBegins, TypeOK, WorkerPC, HandlerPC
  <2>2. InHand' /\ WaveBacked' /\ Closing'
    BY <1>0, <1>9 DEF FlushBegins, InHand, WaveBacked, Closing, TypeOK, HandlerOn
  <2>3. Known' /\ Recorded' /\ NothingLost'
    BY <1>0, HitKinds, <1>9 DEF FlushBegins, InHand, Known, Recorded, NothingLost, Posting
  <2>4. OneOwner'
    BY <1>0, <1>9, OwnersApart DEF FlushBegins, InHand, Apart, Known, Posting
  <2>5. AcceptedIsDone'
    BY <1>0, <1>9 DEF FlushBegins, InHand, AcceptedIsDone, Known, Posting
  <2>. QED
    BY <2>1, <2>2, <2>3, <2>4, <2>5 DEF PipeInv
<1>10. ASSUME NEW h \in Hash, PostRow(h)
     PROVE  PipeInv'
  <2>0. IsFiniteSet(inflight') /\ Cardinality(inflight') <= Parallel
    <3>1. /\ inflight' = inflight \cup {h} /\ IsFiniteSet(inflight)
          /\ Cardinality(inflight) < Parallel \/ inflight = {}
      BY <1>0, <1>10 DEF PostRow, InHand
    <3>2. /\ IsFiniteSet(inflight')
          /\ Cardinality(inflight') \in {Cardinality(inflight), Cardinality(inflight) + 1}
      BY <3>1, FS_AddElement
    <3>3. Cardinality(inflight) < Parallel
      BY <3>1, FS_EmptySet, PoolSize
    <3>. QED
      BY <3>2, <3>1, <3>3, FS_CardinalityType, PoolSize
  <2>1. TypeOK'
    BY <1>0, <1>10, <2>0 DEF PostRow, TypeOK, WorkerPC, HandlerPC
  <2>2. InHand' /\ WaveBacked' /\ Closing'
    BY <1>0, <1>10, <2>0 DEF PostRow, InHand, WaveBacked, Closing, TypeOK, HandlerOn
  <2>3. Known' /\ Recorded' /\ NothingLost'
    BY <1>0, <1>10 DEF PostRow, InHand, Known, Recorded, NothingLost, Posting
  <2>4. OneOwner'
    BY <1>0, <1>10, OwnersApart DEF PostRow, InHand, Apart, Known, Posting
  <2>5. AcceptedIsDone'
    BY <1>0, <1>10 DEF PostRow, InHand, AcceptedIsDone, Known, Posting
  <2>. QED
    BY <2>1, <2>2, <2>3, <2>4, <2>5 DEF PipeInv
<1>11. ASSUME NEW h \in Hash, NEW a \in FlushClasses, RowAnswer(h, a)
       PROVE  PipeInv'
  <2>1. /\ wpc \in {"wave", "lastWave"} /\ h \in inflight /\ inflight' = inflight \ {h}
        /\ Posting = {} /\ Posting' = {}
        /\ UNCHANGED <<running, shutting_down, worker_running, mpc, hand, wpc, batch, wave,
                       hpc, bagging, found, dropped, live_q, stored>>
    BY <1>11 DEF RowAnswer, Posting
  <2>2. \/ /\ h \in pool' /\ answered' = answered \cup {h}
           /\ accepted_ids' = accepted_ids \cup {h}
        \/ UNCHANGED <<answered, accepted_ids>>
    BY <1>0, <1>11, VerifyRecords DEF RowAnswer, TypeOK
  <2>3. pool \subseteq pool' /\ pool' \in SUBSET Hash
    BY <1>0, <1>11, VerifyRecords DEF RowAnswer, TypeOK
  <2>4. IsFiniteSet(inflight') /\ Cardinality(inflight') <= Parallel
    <3>1. IsFiniteSet(inflight') /\ Cardinality(inflight') = Cardinality(inflight) - 1
      BY <1>0, <2>1, FS_RemoveElement DEF InHand
    <3>2. Cardinality(inflight) \in Nat /\ Cardinality(inflight) <= Parallel
      BY <1>0, FS_CardinalityType DEF InHand, TypeOK
    <3>. QED
      BY <3>1, <3>2, PoolSize
  <2>5. TypeOK'
    BY <1>0, <2>1, <2>2, <2>3, <2>4 DEF TypeOK
  <2>6. InHand' /\ WaveBacked' /\ Closing'
    BY <1>0, <2>1, <2>2, <2>4 DEF InHand, WaveBacked, Closing, HandlerOn
  <2>7. h \in stored /\ h \notin hand \cup live_q \cup batch \cup bagging
    BY <1>0, <2>1 DEF WaveBacked, Apart
  <2>8. Known' /\ Recorded' /\ NothingLost'
    BY <1>0, <2>1, <2>2, <2>3, <2>7 DEF Known, Recorded, NothingLost
  <2>9. OneOwner'
    BY <1>0, <2>1, OwnersApart
  <2>10. AcceptedIsDone'
    BY <1>0, <2>1, <2>2, <2>7 DEF AcceptedIsDone, WaveBacked
  <2>. QED
    BY <2>5, <2>6, <2>8, <2>9, <2>10 DEF PipeInv
<1>. QED
  BY <1>1, <1>2, <1>3, <1>4, <1>5, <1>6, <1>7, <1>8, <1>9, <1>10, <1>11
     DEF WorkerStep

\* The console handler keeps the invariant, on either platform.
LEMMA HandlerKeepsPipeInv == PipeInv /\ (Signal \/ HandlerStep) => PipeInv'
<1>. SUFFICES ASSUME PipeInv, (Signal \/ HandlerStep) PROVE PipeInv'
  OBVIOUS
<1>. USE DEF flags, main, worker, handler, history
<1>0. /\ TypeOK /\ InHand /\ WaveBacked /\ Closing /\ Known /\ Recorded /\ NothingLost
      /\ AcceptedIsDone /\ Apart(hand, live_q, batch, Posting, bagging, stored)
      /\ UNCHANGED setup
  BY OwnersApart DEF PipeInv, Signal, HandlerStep
<1>1. CASE RequestStop \/ PersistBegins
  <2>1. TypeOK'
    BY <1>0, <1>1 DEF RequestStop, PersistBegins, TypeOK, MainPC, WorkerPC, HandlerPC
  <2>2. InHand' /\ WaveBacked' /\ Closing'
    BY <1>0, <1>1 DEF RequestStop, PersistBegins, InHand, WaveBacked, Closing, MainRuns,
                      TypeOK, HandlerOn, Setup
  <2>3. Known' /\ Recorded' /\ NothingLost' /\ OneOwner' /\ AcceptedIsDone'
    BY <1>0, <1>1, NoHitMoves DEF RequestStop, PersistBegins, Posting, InHand, Closing
  <2>. QED
    BY <2>1, <2>2, <2>3 DEF PipeInv
<1>2. CASE PersistSwap
  <2>1. TypeOK'
    BY <1>0, <1>2 DEF PersistSwap, TypeOK, WorkerPC, HandlerPC
  <2>2. InHand' /\ WaveBacked' /\ Closing'
    BY <1>0, <1>2 DEF PersistSwap, InHand, WaveBacked, Closing, TypeOK, HandlerOn
  <2>3. Known' /\ Recorded' /\ NothingLost'
    BY <1>0, <1>2 DEF PersistSwap, InHand, Known, Recorded, NothingLost, Posting
  <2>4. OneOwner'
    BY <1>0, <1>2, OwnersApart DEF PersistSwap, InHand, Apart, Known, Posting
  <2>5. AcceptedIsDone'
    BY <1>0, <1>2 DEF PersistSwap, InHand, AcceptedIsDone, Known, Posting
  <2>. QED
    BY <2>1, <2>2, <2>3, <2>4, <2>5 DEF PipeInv
<1>3. CASE PersistBag
  <2>1. TypeOK'
    BY <1>0, <1>3, Bags DEF PersistBag, TypeOK, WorkerPC, HandlerPC
  <2>2. InHand' /\ WaveBacked' /\ Closing'
    BY <1>0, <1>3, Bags DEF PersistBag, InHand, WaveBacked, Closing, TypeOK, HandlerOn
  <2>3. Known' /\ Recorded' /\ NothingLost'
    BY <1>0, <1>3, Bags DEF PersistBag, InHand, Known, Recorded, NothingLost, Posting
  <2>4. OneOwner'
    BY <1>0, <1>3, Bags, OwnersApart DEF PersistBag, InHand, Apart, Known, Posting
  <2>5. AcceptedIsDone'
    BY <1>0, <1>3, Bags DEF PersistBag, InHand, AcceptedIsDone, Known, Posting
  <2>. QED
    BY <2>1, <2>2, <2>3, <2>4, <2>5 DEF PipeInv
<1>. QED
  BY <1>1, <1>2, <1>3 DEF Signal, HandlerStep

LEMMA NextPipeInv == PipeInv /\ [Next]_vars => PipeInv'
<1>. SUFFICES ASSUME PipeInv, [Next]_vars PROVE PipeInv'
  OBVIOUS
<1>1. CASE UNCHANGED vars
  <2>1. TypeOK' /\ InHand' /\ WaveBacked' /\ Closing'
    BY <1>1 DEF vars, flags, main, worker, handler, history, PipeInv, TypeOK, InHand,
                WaveBacked, Closing, HandlerOn
  <2>2. Known' /\ Recorded' /\ NothingLost' /\ OneOwner' /\ AcceptedIsDone'
    BY <1>1, NoHitMoves DEF vars, flags, main, worker, handler, history, Posting
  <2>. QED
    BY <2>1, <2>2 DEF PipeInv
<1>. QED
  BY <1>1, MainKeepsPipeInv, WorkerKeepsPipeInv, HandlerKeepsPipeInv DEF Next, Ended

-----------------------------------------------------------------------------

\* The inductive invariant holds in every reachable state.
LEMMA PipeInvariant == Spec => []PipeInv
BY InitPipeInv, NextPipeInv, PTL DEF Spec

\* Every variable of the pipeline keeps its range, and a flush wave never has
\* more POSTs in the air than the pool has threads.
THEOREM TypesHold == Spec => []TypeOK
<1>1. PipeInv => TypeOK
  BY DEF PipeInv
<1>. QED
  BY <1>1, PipeInvariant, PTL

\* No hit slips between the mining thread, the submit worker and the console
\* handler (handle_hit, submit_worker_loop, bag_live_queue_to_store).
THEOREM NoHitLost == Spec => []NothingLost
<1>1. PipeInv => NothingLost
  BY DEF PipeInv
<1>. QED
  BY <1>1, PipeInvariant, PTL

\* No hit has two owners, whichever of the three threads swaps the live queue.
THEOREM HitsHaveOneOwner == Spec => []OneOwner
<1>1. PipeInv => OneOwner
  BY DEF PipeInv
<1>. QED
  BY <1>1, PipeInvariant, PTL

\* A block the pool has accepted is not POSTed again, by process_live_submit or
\* by handle_one.
THEOREM AcceptedOnce == Spec => []AcceptedIsDone
<1>1. PipeInv => AcceptedIsDone
  BY DEF PipeInv
<1>. QED
  BY <1>1, PipeInvariant, PTL

\* A row of a wave stays in the disk queue until try_flush_pending has joined its
\* pool threads, and is in one thread's hands at most, for any number of threads.
THEOREM WavesStayBacked == Spec => []WaveBacked
<1>1. PipeInv => WaveBacked
  BY DEF PipeInv
<1>. QED
  BY <1>1, PipeInvariant, PTL

\* When main has returned, every hit is on disk, accepted or dropped as told, on
\* every path of the shutdown; the one exception is what a Windows console
\* handler still holds.
THEOREM ShutdownKeepsHits == Spec => []EndsKept
<1>1. PipeInv => EndsKept
  <2>. SUFFICES ASSUME PipeInv, mpc = "exited", ~(HandlerOn = "thread" /\ hpc = "bag")
                PROVE  found \subseteq stored \cup answered \cup dropped
    BY DEF EndsKept
  <2>1. HandlerOn \in {"none", "main", "thread"}
    BY SetupsAreSetups DEF PipeInv, TypeOK, Setup, HandlerOn
  <2>2. hpc # "bag"
    BY <2>1 DEF PipeInv, Closing
  <2>3. hand = {} /\ live_q = {} /\ batch = {} /\ Posting = {} /\ bagging = {}
    BY <2>2 DEF PipeInv, Closing, InHand, Posting
  <2>. QED
    BY <2>3 DEF PipeInv, NothingLost
<1>. QED
  BY <1>1, PipeInvariant, PTL

\* The disk queue loses a row only in FlushBegins, which drops what cannot be
\* assembled, and in WaveEnds, which erases what was accepted.
LEMMA WhatLeavesTheQueue ==
    ASSUME Next
    PROVE  stored \ stored' \subseteq accepted_ids \cup Broken
BY DEF Next, MainStep, WorkerStep, HandlerStep, Signal, Ended, vars, flags, main, worker,
       handler, history, Queue, Keep, RunBegins, WorkerStarts, EngineFails, Iterate, BatchDone,
       HitFound, ReadShutdownFlag, Route, LoopEnds, GraceDrain, BagSwap, BagEnqueue, Join, Exit,
       Take, RouteBatch, LiveGates, LiveDone, LiveAnswer, FlushSkipped, FlushBegins, PostRow,
       RowAnswer, WaveEnds, WorkerTurnEnds, LastSwap, LastBag, RequestStop, PersistBegins,
       PersistSwap, PersistBag

\* A row leaves the disk queue only once the pool has recorded its block, or
\* because it cannot be assembled: no step of any thread may do otherwise.
THEOREM RowsLeaveRecorded == Spec => LeavesWhenRecorded
<1>1. PipeInv /\ PipeInv' /\ [Next]_vars => [stored \ stored' \subseteq pool' \cup Broken]_vars
  <2>. SUFFICES ASSUME PipeInv, PipeInv', Next
                PROVE  stored \ stored' \subseteq pool' \cup Broken
    OBVIOUS
  <2>1. accepted_ids \subseteq answered
    BY DEF PipeInv, WaveBacked, InHand
  <2>2. answered \subseteq answered'
    BY DEF Next, MainStep, WorkerStep, HandlerStep, Signal, Ended, vars, flags, main, worker,
           handler, history, RunBegins, WorkerStarts, EngineFails, Iterate, BatchDone, HitFound,
           ReadShutdownFlag, Route, LoopEnds, GraceDrain, BagSwap, BagEnqueue, Join, Exit, Take,
           RouteBatch, LiveGates, LiveDone, LiveAnswer, FlushSkipped, FlushBegins, PostRow,
           RowAnswer, WaveEnds, WorkerTurnEnds, LastSwap, LastBag, RequestStop, PersistBegins,
           PersistSwap, PersistBag
  <2>3. answered' \subseteq pool'
    BY DEF PipeInv, Recorded
  <2>. QED
    BY <2>1, <2>2, <2>3, WhatLeavesTheQueue
<1>. QED
  BY <1>1, PipeInvariant, PTL DEF Spec, LeavesWhenRecorded

-----------------------------------------------------------------------------
(* The pipeline implements the ledger (HitLedger.tla), step by step.         *)

\* What the steps of the ledger need beside PipeInv: what is dropped was found,
\* and no row that cannot be assembled is POSTed.
LedgerInv == /\ dropped \subseteq found \cup Backlog
             /\ wpc \in {"wave", "lastWave"} => (wave \cup inflight) \cap Broken = {}

LEMMA InitLedgerInv == Init => LedgerInv
BY DEF Init, LedgerInv

LEMMA NextLedgerInv == PipeInv /\ LedgerInv /\ [Next]_vars => LedgerInv'
<1>. SUFFICES ASSUME PipeInv, LedgerInv, [Next]_vars PROVE LedgerInv'
  OBVIOUS
<1>. USE DEF flags, main, worker, handler, history
<1>0. InHand /\ WaveBacked /\ Known
  BY DEF PipeInv
<1>1. CASE UNCHANGED vars
  BY <1>1 DEF vars, LedgerInv
<1>2. CASE MainStep
  <2>1. CASE \E window \in BOOLEAN : GraceDrain(window) \/ \E h \in Hash : HitFound(h, window)
    BY <2>1 DEF GraceDrain, HitFound, Queue, LedgerInv
  <2>2. CASE \E window, drain, match \in BOOLEAN : Route(window, drain, match)
    BY <1>0, <2>2 DEF Route, Queue, Keep, Known, LedgerInv
  <2>3. CASE \/ RunBegins \/ WorkerStarts \/ EngineFails \/ Iterate \/ BatchDone
             \/ ReadShutdownFlag \/ LoopEnds \/ BagSwap \/ BagEnqueue \/ Join \/ Exit
    BY <2>3 DEF RunBegins, WorkerStarts, EngineFails, Iterate, BatchDone, ReadShutdownFlag,
                LoopEnds, BagSwap, BagEnqueue, Join, Exit, Queue, LedgerInv
  <2>. QED
    BY <1>2, <2>1, <2>2, <2>3 DEF MainStep
<1>3. CASE WorkerStep
  <2>1. CASE \/ Take \/ LiveDone \/ FlushSkipped \/ WaveEnds \/ WorkerTurnEnds \/ LastSwap
             \/ \E down \in BOOLEAN : LastBag(down)
    BY <2>1 DEF Take, LiveDone, FlushSkipped, WaveEnds, WorkerTurnEnds, LastSwap, LastBag,
                Queue, LedgerInv
  <2>2. CASE \E drain, down \in BOOLEAN : RouteBatch(drain, down)
    BY <1>0, <2>2 DEF RouteBatch, Queue, Keep, Known, LedgerInv
  <2>3. CASE \E h \in Hash, window, match \in BOOLEAN : LiveGates(h, window, match)
    BY <1>0, <2>3 DEF LiveGates, Queue, Keep, Known, LedgerInv
  <2>4. CASE \E h \in Hash, a \in LiveClasses : LiveAnswer(h, a)
    BY <1>0, <2>4 DEF LiveAnswer, Queue, Keep, Known, Posting, LedgerInv
  <2>5. CASE \E rows \in SUBSET stored, window \in BOOLEAN : FlushBegins(rows, window)
    BY <1>0, <2>5 DEF FlushBegins, InHand, LedgerInv
  <2>6. CASE \E h \in Hash : PostRow(h) \/ \E a \in FlushClasses : RowAnswer(h, a)
    BY <2>6 DEF PostRow, RowAnswer, LedgerInv
  <2>. QED
    BY <1>3, <2>1, <2>2, <2>3, <2>4, <2>5, <2>6 DEF WorkerStep
<1>4. CASE Signal \/ HandlerStep
  BY <1>4 DEF Signal, HandlerStep, RequestStop, PersistBegins, PersistSwap, PersistBag, Queue,
              LedgerInv
<1>. QED
  BY <1>1, <1>2, <1>3, <1>4 DEF Next, Ended

\* The ledger of a state: what its variables stand for.
TheLedger == <<ShouldStore, HandlerOn = "thread", mpc # "exited", Held, stored, answered,
               dropped, pool>>

LEMMA InitIsLedgerInit == Init => Ledger!Init
BY SetupsAreSetups DEF Init, Ledger!Init, Held, Posting, ShouldStore, StoreBlocks, BagOnly,
                       SubmitOn, HandlerOn, Setup

\* A step that only hands blocks from one place in RAM to another.
LEMMA LedgerStutters ==
    ASSUME UNCHANGED <<setup, Held, stored, answered, dropped, pool>>, mpc # "exited",
           mpc' # "exited"
    PROVE  UNCHANGED TheLedger
BY DEF TheLedger, ShouldStore, StoreBlocks, BagOnly, SubmitOn, HandlerOn

\* A step of the ledger's owner, while the process runs.
LEMMA LedgerMoves ==
    ASSUME UNCHANGED setup, mpc # "exited", mpc' # "exited",
           \/ \E h \in Hash : Ledger!Find(h)
           \/ \E h \in Held : Ledger!PostHeld(h)
           \/ \E h \in stored : Ledger!PostQueued(h)
           \/ \E S \in SUBSET Held : Ledger!PutAway(S)
           \/ \E S \in SUBSET (stored \cap answered) : Ledger!Erase(S)
           \/ \E S \in SUBSET (stored \cap Broken) : Ledger!Erase(S)
    PROVE  Ledger!Next
BY DEF Ledger!Next, ShouldStore, StoreBlocks, BagOnly, SubmitOn, HandlerOn

\* Bagging by whichever thread is the ledger's way from RAM to disk.
LEMMA BaggingPutsAway ==
    ASSUME NEW S \in SUBSET Held, Held' = Held \ S, Queue(S) \/ Keep(S),
           UNCHANGED <<setup, answered, pool>>, mpc # "exited", mpc' # "exited"
    PROVE  Ledger!Next
<1>1. Ledger!PutAway(S)
  BY DEF Ledger!PutAway, Queue, Keep
<1>. QED
  BY <1>1, LedgerMoves

\* The mining thread finds blocks, hands them on, bags them, and ends the process
\* with nothing in RAM unless a handler on a thread of its own has it.
LEMMA MainIsLedgerStep ==
    ASSUME PipeInv, LedgerInv, MainStep
    PROVE  UNCHANGED TheLedger \/ Ledger!Next
<1>. USE DEF flags, main, worker, handler, history
<1>0. /\ TypeOK /\ InHand /\ Known /\ Closing /\ OneOwner /\ UNCHANGED setup
      /\ dropped \subseteq found \cup Backlog
  BY DEF PipeInv, LedgerInv, MainStep
<1>1. CASE \/ RunBegins \/ WorkerStarts \/ EngineFails \/ Iterate \/ BatchDone \/ LoopEnds
           \/ Join \/ BagSwap
  <2>1. UNCHANGED <<Held, stored, answered, dropped, pool>> /\ mpc # "exited" /\ mpc' # "exited"
    BY <1>0, <1>1 DEF RunBegins, WorkerStarts, EngineFails, Iterate, BatchDone, LoopEnds, Join,
                      BagSwap, Held, Posting, InHand, Closing
  <2>. QED
    BY <1>0, <2>1, LedgerStutters
<1>2. CASE ReadShutdownFlag \/ BagEnqueue \/ \E window, drain, match \in BOOLEAN : Route(window, drain, match)
  <2>0. /\ mpc \in {"hit", "checked", "graceBag", "finalBag"} /\ mpc' # "exited"
        /\ UNCHANGED <<batch, wpc, inflight, bagging, answered, pool>>
        /\ Posting' = Posting
    BY <1>2 DEF ReadShutdownFlag, BagEnqueue, Route, Posting
  <2>1. CASE UNCHANGED <<hand, live_q, stored, dropped>>
    BY <1>0, <2>0, <2>1, LedgerStutters DEF Held
  <2>2. CASE hand' = {} /\ live_q' = live_q \cup hand /\ UNCHANGED <<stored, dropped>>
    BY <1>0, <2>0, <2>2, LedgerStutters DEF Held
  <2>3. CASE hand' = {} /\ live_q' = live_q /\ (Queue(hand) \/ Keep(hand))
    <3>1. Held' = Held \ hand /\ hand \in SUBSET Held
      BY <1>0, <2>0, <2>3, OwnersApart DEF Held, Apart
    <3>. QED
      BY <1>0, <2>0, <2>3, <3>1, BaggingPutsAway
  <2>. QED
    BY <1>2, <2>1, <2>2, <2>3 DEF ReadShutdownFlag, BagEnqueue, Route
<1>3. ASSUME NEW h \in Hash, h \notin found \cup Backlog, mpc # "exited", mpc' # "exited",
             UNCHANGED <<answered, pool>>,
             \/ Held' = Held \cup {h} /\ UNCHANGED <<stored, dropped>>
             \/ stored' = stored \cup {h} /\ UNCHANGED <<Held, dropped>>
             \/ ~ShouldStore /\ dropped' = dropped \cup {h} /\ UNCHANGED <<Held, stored>>
      PROVE  Ledger!Next
  <2>1. h \notin Ledger!Known
    BY <1>0, <1>3 DEF Ledger!Known, Known, Held
  <2>2. Ledger!Find(h)
    BY <1>3, <2>1 DEF Ledger!Find
  <2>. QED
    BY <1>0, <1>3, <2>2, LedgerMoves
<1>4. ASSUME NEW window \in BOOLEAN, NEW h \in Hash, HitFound(h, window)
      PROVE  Ledger!Next
  <2>1. mpc = "mining" /\ mpc' # "exited" /\ h \notin found \cup Backlog
        /\ UNCHANGED <<answered, pool, live_q, batch, wpc, inflight, bagging, stored>>
        /\ hand = {}
    BY <1>0, <1>4 DEF HitFound, InHand
  <2>2. \/ Held' = Held \cup {h} /\ dropped' = dropped
        \/ ~ShouldStore /\ dropped' = dropped \cup {h} /\ Held' = Held
    BY <1>4, <2>1 DEF HitFound, Held, Posting
  <2>. QED
    BY <1>3, <2>1, <2>2
<1>5. ASSUME NEW window \in BOOLEAN, GraceDrain(window)
      PROVE  UNCHANGED TheLedger \/ Ledger!Next
  <2>1. mpc = "grace" /\ mpc' # "exited" /\ UNCHANGED <<Held, answered, pool>>
    BY <1>5 DEF GraceDrain, Held, Posting
  <2>2. PICK S \in {{}} \cup {{h} : h \in Hash \ (found \cup Backlog)} :
               \/ ~ShouldStore /\ dropped' = dropped \cup S /\ UNCHANGED stored
               \/ stored' = stored \cup S /\ UNCHANGED dropped
    BY <1>5 DEF GraceDrain, Queue
  <2>3. CASE S = {}
    BY <1>0, <2>1, <2>2, <2>3, LedgerStutters
  <2>4. CASE \E h \in Hash \ (found \cup Backlog) : S = {h}
    BY <1>3, <2>1, <2>2, <2>4
  <2>. QED
    BY <2>3, <2>4
<1>6. CASE Exit
  <2>1. mpc = "done" /\ mpc' = "exited"
        /\ UNCHANGED <<Held, stored, answered, dropped, pool>>
    BY <1>6 DEF Exit, Held, Posting
  <2>2. hand = {} /\ live_q = {} /\ batch = {} /\ Posting = {}
    BY <1>0, <2>1 DEF InHand, Closing, Posting
  <2>3. hpc \in {"idle", "returned"} \/ HandlerOn = "thread"
    BY <1>0, <1>6, SetupsAreSetups DEF Exit, MainRuns, Closing, TypeOK, HandlerOn, Setup, HandlerPC
  <2>4. Held = {} \/ HandlerOn = "thread"
    BY <1>0, <2>2, <2>3 DEF Held, InHand
  <2>5. Ledger!End
    BY <2>1, <2>4 DEF Ledger!End
  <2>. QED
    BY <1>0, <2>1, <2>5 DEF Ledger!Next, ShouldStore, StoreBlocks, BagOnly, SubmitOn, HandlerOn
<1>. QED
  BY <1>1, <1>2, <1>4, <1>5, <1>6 DEF MainStep

\* The submit worker takes blocks to the pool, and what the pool does not take to
\* disk; its waves leave the rows there until they end.
LEMMA WorkerIsLedgerStep ==
    ASSUME PipeInv, LedgerInv, WorkerStep
    PROVE  UNCHANGED TheLedger \/ Ledger!Next
<1>. USE DEF flags, main, worker, handler, history
<1>0. /\ TypeOK /\ InHand /\ Known /\ Closing /\ OneOwner /\ UNCHANGED setup
      /\ AcceptedIsDone /\ WaveBacked /\ LedgerInv
      /\ mpc # "exited" /\ mpc' = mpc
  BY DEF PipeInv, WorkerStep, Take, LiveDone, FlushSkipped, WaveEnds, WorkerTurnEnds, LastSwap,
         LastBag, RouteBatch, LiveGates, LiveAnswer, FlushBegins, PostRow, RowAnswer
<1>1. CASE Take \/ LiveDone \/ FlushSkipped \/ WorkerTurnEnds \/ LastSwap
  <2>1. UNCHANGED <<Held, stored, answered, dropped, pool>>
    BY <1>0, <1>1 DEF Take, LiveDone, FlushSkipped, WorkerTurnEnds, LastSwap, Held, Posting,
                      InHand
  <2>. QED
    BY <1>0, <2>1, LedgerStutters
<1>2. CASE \/ \E down \in BOOLEAN : LastBag(down)
           \/ \E drain, down \in BOOLEAN : RouteBatch(drain, down)
  <2>0. /\ wpc \in {"lastBag", "route"} /\ wpc' # "post"
        /\ UNCHANGED <<hand, live_q, inflight, bagging, answered, pool>>
    BY <1>2 DEF LastBag, RouteBatch
  <2>1. Posting = {} /\ Posting' = {}
    BY <2>0 DEF Posting
  <2>2. CASE UNCHANGED <<batch, stored, dropped>>
    BY <1>0, <2>0, <2>1, <2>2, LedgerStutters DEF Held
  <2>3. CASE batch' = {} /\ (Queue(batch) \/ Keep(batch))
    <3>1. Held' = Held \ batch /\ batch \in SUBSET Held
      BY <1>0, <2>0, <2>1, <2>3, OwnersApart DEF Held, Apart
    <3>. QED
      BY <1>0, <2>0, <2>3, <3>1, BaggingPutsAway
  <2>. QED
    BY <1>2, <2>2, <2>3 DEF LastBag, RouteBatch
<1>3. ASSUME NEW h \in Hash, NEW window \in BOOLEAN, NEW match \in BOOLEAN,
             LiveGates(h, window, match)
      PROVE  UNCHANGED TheLedger \/ Ledger!Next
  <2>0. /\ wpc = "live" /\ h \in batch /\ batch' = batch \ {h} /\ Posting = {}
        /\ UNCHANGED <<hand, live_q, bagging, answered, pool>>
    BY <1>3 DEF LiveGates, Posting
  <2>1. CASE wpc' = "post" /\ inflight' = {h} /\ UNCHANGED <<stored, dropped>>
    <3>1. Posting' = {h}
      BY <2>1 DEF Posting
    <3>2. Held' = Held
      BY <2>0, <3>1 DEF Held
    <3>. QED
      BY <1>0, <2>0, <2>1, <3>2, LedgerStutters
  <2>2. CASE UNCHANGED <<wpc, inflight>> /\ (Queue({h}) \/ Keep({h}))
    <3>1. Posting' = {}
      BY <2>0, <2>2 DEF Posting
    <3>2. Held' = Held \ {h} /\ {h} \in SUBSET Held
      BY <1>0, <2>0, <3>1, OwnersApart DEF Held, Apart
    <3>. QED
      BY <1>0, <2>0, <2>2, <3>2, BaggingPutsAway
  <2>. QED
    BY <1>3, <2>1, <2>2 DEF LiveGates
<1>4. ASSUME NEW h \in Hash, NEW a \in LiveClasses, LiveAnswer(h, a)
      PROVE  Ledger!Next
  <2>0. /\ Posting = {h} /\ Posting' = {} /\ Verify(h, a)
        /\ UNCHANGED <<hand, live_q, batch, bagging>>
    BY <1>4 DEF LiveAnswer, Posting
  <2>1. h \in Held /\ Held' = Held \ {h}
    BY <1>0, <2>0, OwnersApart DEF Held, Apart
  <2>2. CASE a = "ok"
    <3>1. answered' = answered \cup {h} /\ pool' = pool \cup {h} /\ UNCHANGED <<stored, dropped>>
      BY <1>4, <2>2 DEF LiveAnswer, Verify
    <3>2. Ledger!PostHeld(h)
      BY <1>0, <2>1, <3>1 DEF Ledger!PostHeld
    <3>. QED
      BY <1>0, <2>1, <3>2, LedgerMoves
  <2>3. CASE a = "wrong_m"
    <3>1. Keep({h}) /\ UNCHANGED <<answered, pool>>
      BY <1>4, <2>3 DEF LiveAnswer, Verify
    <3>. QED
      BY <1>0, <2>1, <3>1, BaggingPutsAway
  <2>4. CASE a \notin {"ok", "wrong_m"}
    <3>1. stored' = stored \cup {h} /\ pool' \in {pool, pool \cup {h}}
          /\ UNCHANGED <<answered, dropped>>
      BY <1>4, <2>4 DEF LiveAnswer, Verify, Queue
    <3>2. Ledger!PostHeld(h)
      BY <1>0, <2>1, <3>1 DEF Ledger!PostHeld
    <3>. QED
      BY <1>0, <2>1, <3>2, LedgerMoves
  <2>. QED
    BY <2>2, <2>3, <2>4
<1>5. ASSUME NEW rows \in SUBSET stored, NEW window \in BOOLEAN, FlushBegins(rows, window)
      PROVE  Ledger!Next
  <2>1. /\ stored' = stored \ (rows \cap Broken)
        /\ UNCHANGED <<hand, live_q, batch, bagging, answered, dropped, pool>>
        /\ Posting' = Posting
    BY <1>5 DEF FlushBegins, Posting
  <2>2. Ledger!Erase(rows \cap Broken)
    BY <1>0, <2>1 DEF Ledger!Erase, Held
  <2>3. rows \cap Broken \in SUBSET (stored \cap Broken)
    OBVIOUS
  <2>. QED
    BY <1>0, <2>2, <2>3, LedgerMoves
<1>6. ASSUME NEW h \in Hash, PostRow(h)
      PROVE  UNCHANGED TheLedger
  <2>1. UNCHANGED <<Held, stored, answered, dropped, pool>>
    BY <1>6 DEF PostRow, Held, Posting
  <2>. QED
    BY <1>0, <2>1, LedgerStutters
<1>7. ASSUME NEW h \in Hash, NEW a \in FlushClasses, RowAnswer(h, a)
      PROVE  UNCHANGED TheLedger \/ Ledger!Next
  <2>0. /\ wpc \in {"wave", "lastWave"} /\ h \in inflight /\ Verify(h, a)
        /\ UNCHANGED <<Held, stored, dropped>>
    BY <1>7 DEF RowAnswer, Held, Posting
  <2>1. h \in stored /\ h \notin answered \cup Broken
    BY <1>0, <2>0 DEF WaveBacked, AcceptedIsDone, LedgerInv
  <2>2. CASE a = "ok"
    <3>1. answered' = answered \cup {h} /\ pool' = pool \cup {h}
      BY <1>7, <2>0, <2>2 DEF RowAnswer, Verify
    <3>2. Ledger!PostQueued(h)
      BY <1>0, <2>0, <2>1, <3>1 DEF Ledger!PostQueued
    <3>. QED
      BY <1>0, <2>1, <3>2, LedgerMoves
  <2>3. CASE a # "ok"
    <3>1. UNCHANGED answered /\ pool' \in {pool, pool \cup {h}}
      BY <1>7, <2>0, <2>3 DEF RowAnswer, Verify
    <3>2. CASE pool' = pool
      BY <1>0, <2>0, <3>1, <3>2, LedgerStutters
    <3>3. CASE pool' = pool \cup {h}
      <4>1. Ledger!PostQueued(h)
        BY <1>0, <2>0, <2>1, <3>1, <3>3 DEF Ledger!PostQueued
      <4>. QED
        BY <1>0, <2>1, <4>1, LedgerMoves
    <3>. QED
      BY <3>1, <3>2, <3>3
  <2>. QED
    BY <2>2, <2>3
<1>8. CASE WaveEnds
  <2>1. /\ stored' = stored \ accepted_ids
        /\ UNCHANGED <<Held, answered, dropped, pool>>
    BY <1>8 DEF WaveEnds, Held, Posting
  <2>2. accepted_ids \in SUBSET (stored \cap answered)
    BY <1>0, <1>8 DEF WaveEnds, WaveBacked
  <2>3. Ledger!Erase(accepted_ids)
    BY <1>0, <2>1 DEF Ledger!Erase
  <2>. QED
    BY <1>0, <2>2, <2>3, LedgerMoves
<1>. QED
  BY <1>1, <1>2, <1>3, <1>4, <1>5, <1>6, <1>7, <1>8 DEF WorkerStep

\* The console handler bags what it has swapped out, or moves no block.
LEMMA HandlerIsLedgerStep ==
    ASSUME PipeInv, Signal \/ HandlerStep
    PROVE  UNCHANGED TheLedger \/ Ledger!Next
<1>. USE DEF flags, main, worker, handler, history
<1>0. OneOwner /\ UNCHANGED setup /\ mpc # "exited" /\ mpc' = mpc /\ InHand
  BY DEF PipeInv, Signal, HandlerStep, RequestStop, PersistBegins, PersistSwap, PersistBag
<1>1. CASE RequestStop \/ PersistBegins \/ PersistSwap
  <2>1. UNCHANGED <<Held, stored, answered, dropped, pool>>
    BY <1>0, <1>1 DEF RequestStop, PersistBegins, PersistSwap, Held, Posting, InHand
  <2>. QED
    BY <1>0, <2>1, LedgerStutters
<1>2. CASE PersistBag
  <2>0. UNCHANGED <<hand, live_q, batch, answered, pool>> /\ Posting' = Posting
        /\ bagging' = {} /\ Queue(bagging)
    BY <1>2 DEF PersistBag, Posting
  <2>1. Held' = Held \ bagging /\ bagging \in SUBSET Held
    BY <1>0, <2>0, OwnersApart DEF Held, Apart
  <2>. QED
    BY <1>0, <2>0, <2>1, BaggingPutsAway
<1>. QED
  BY <1>1, <1>2 DEF Signal, HandlerStep

\* The supervisor keeps its promise for every block, whatever the threads do and
\* in whatever order: for any set of blocks, rows, settings and platforms, each
\* step of the pipeline is one a block's owner may take in HitLedger, or none.
THEOREM PipelineKeepsTheLedger == Spec => ImplementsLedger
<1>1. PipeInv /\ LedgerInv /\ [Next]_vars => UNCHANGED TheLedger \/ Ledger!Next
  <2>. SUFFICES ASSUME PipeInv, LedgerInv, [Next]_vars PROVE UNCHANGED TheLedger \/ Ledger!Next
    OBVIOUS
  <2>1. CASE UNCHANGED vars \/ Ended
    BY <2>1 DEF Ended, vars, flags, main, worker, handler, history, TheLedger, Held, Posting,
                ShouldStore, StoreBlocks, BagOnly, SubmitOn, HandlerOn
  <2>. QED
    BY <2>1, MainIsLedgerStep, WorkerIsLedgerStep, HandlerIsLedgerStep DEF Next
<1>2. PipeInv /\ LedgerInv /\ [Next]_vars => [Ledger!Next]_(Ledger!ledger)
  BY <1>1 DEF TheLedger, Ledger!ledger
<1>3. Spec => []LedgerInv
  BY InitLedgerInv, NextLedgerInv, PipeInvariant, PTL DEF Spec
<1>. QED
  BY <1>2, <1>3, InitIsLedgerInit, PipeInvariant, PTL DEF Spec, ImplementsLedger, Ledger!Spec
=============================================================================
