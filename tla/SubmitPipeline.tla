--------------------------- MODULE SubmitPipeline ---------------------------
(***************************************************************************)
(* The way of a found block through the supervisor                         *)
(* (src/src/app/supervisor.cpp): the mining thread classifies a hit and    *)
(* bags it or hands it to the live queue; the submit worker swaps the live *)
(* queue out, POSTs each hit, and serves the disk queue in waves of pool   *)
(* threads; the console handler (src/src/main.cpp) sets the stop flags and *)
(* bags the live queue from a thread of its own or on top of the mining    *)
(* thread; the two shutdown paths do it once more.                         *)
(*                                                                         *)
(* A hit is its digest.  The disk queue is the set BlockStore keeps in RAM *)
(* (its calls are atomic under its mutex; BlockStore.tla has the rest).    *)
(* What the gates of a step read of the network, the clock and the         *)
(* match-drain are parameters of it: those move between any two steps, so  *)
(* every step may read anything (NetworkGate.tla says how they move).      *)
(***************************************************************************)
EXTENDS Naturals, FiniteSets, Answers

CONSTANTS Hash,         \* digests
          Xuni,         \* those of XUNI blocks, submitted in a window only
          Backlog,      \* rows an earlier session left in the disk queue
          Broken,       \* those of them that cannot be assembled for a POST
          Parallel,     \* threads of a flush wave
          Setups        \* settings and platforms a process may have: see Setup

ASSUME HitKinds  == Xuni \subseteq Hash /\ Backlog \subseteq Hash /\ Broken \subseteq Backlog
ASSUME PoolSize  == Parallel \in Nat \ {0}

\* store_blocks, submit_enabled, and where the console handler runs: nowhere, on
\* top of the mining thread (POSIX) or on a thread of its own (Windows).
Setup == [store : BOOLEAN, submit : BOOLEAN, handler : {"none", "main", "thread"}]

ASSUME SetupsAreSetups == Setups \subseteq Setup

VARIABLES
    setup,          \* the settings of this process; they do not move
    running,        \* running_
    shutting_down,  \* shutting_down_
    worker_running, \* submit_worker_running_
    mpc,            \* where the mining thread is: see MainPC
    hand,           \* the hit it is handling, and what its bag call swapped out
    live_q,         \* live_submit_q_
    wpc,            \* where the submit worker is: see WorkerPC
    batch,          \* live hits the worker swapped out and has not dealt with
    wave,           \* rows of the running wave that no pool thread has taken
    inflight,       \* rows (or the live hit) being POSTed
    accepted_ids,   \* rows of the running wave the pool has accepted
    hpc,            \* where the console handler is: see HandlerPC
    bagging,        \* what the handler swapped out of live_q
    stored,         \* the disk queue
    pool,           \* external: digests the pool has recorded
    found,          \* history: every hit the engine handed over
    dropped,        \* history: hits the settings say not to keep
    answered        \* history: digests whose POST was answered "ok"

flags == <<running, shutting_down, worker_running>>
main  == <<mpc, hand>>
worker == <<wpc, batch, wave, inflight, accepted_ids>>
handler == <<hpc, bagging>>
history == <<found, dropped, answered>>
vars == <<setup, flags, main, worker, handler, history, live_q, stored, pool>>

MainPC == {"boot", "start", "loop", "mining", "hit", "checked", "grace", "graceSwap",
           "graceBag", "graceJoin", "final", "finalBag", "finalJoin",
           "done", "exited"}
WorkerPC == {"none", "wait", "route", "live", "post", "flush", "wave", "exit",
             "lastSwap", "lastBag", "lastFlush", "lastWave", "stopped"}
HandlerPC == {"idle", "stop", "swap", "bag", "returned"}

StoreBlocks == setup.store
SubmitOn    == setup.submit
HandlerOn   == setup.handler

BagOnly     == ~SubmitOn                          \* bag_only()
ShouldStore == StoreBlocks \/ BagOnly             \* should_store()

\* What a step reads.  match: the last /difficulty is the bag's m= and /verify is
\* up; down: /verify is dead; window: in_xuni_submit_window(); drain:
\* match_drain_active_.
CanSubmit(match)     == SubmitOn /\ match          \* can_submit_hit_m
OffWindow(h, window) == h \in Xuni /\ ~window

\* A POSIX signal handler runs on top of the mining thread, which stands still.
MainRuns == HandlerOn = "main" => hpc \in {"idle", "returned"}

Init ==
    /\ setup \in Setups
    /\ running = FALSE /\ shutting_down = FALSE /\ worker_running = FALSE
    /\ mpc = "boot" /\ hand = {} /\ live_q = {}
    /\ wpc = "none" /\ batch = {} /\ wave = {} /\ inflight = {} /\ accepted_ids = {}
    /\ hpc = "idle" /\ bagging = {}
    /\ stored = Backlog
    /\ pool = {} /\ found = {} /\ dropped = {} /\ answered = {}

\* queue_hit, or the silent return where the settings say not to bag.
Queue(S) == stored' = stored \cup S /\ UNCHANGED dropped
Keep(S)  == IF ShouldStore THEN Queue(S) ELSE dropped' = dropped \cup S /\ UNCHANGED stored

-----------------------------------------------------------------------------
(* The mining thread                                                       *)

\* run() begins: it sets the flags whatever a handler may have set before.
RunBegins ==
    /\ MainRuns /\ mpc = "boot"
    /\ running' = TRUE /\ shutting_down' = FALSE
    /\ mpc' = "start"
    /\ UNCHANGED <<worker_running, hand, worker, handler, history, live_q, stored, pool>>

\* The engine runs: the submit worker is started, and the loop entered.
WorkerStarts ==
    /\ MainRuns /\ mpc = "start"
    /\ worker_running' = TRUE
    /\ wpc' = "wait" /\ mpc' = "loop"
    /\ UNCHANGED <<running, shutting_down, hand, batch, wave, inflight, accepted_ids,
                   handler, history, live_q, stored, pool>>

\* CUDA does not start: straight to finalize_session, without a worker.
EngineFails ==
    /\ MainRuns /\ mpc = "start"
    /\ mpc' = "final"
    /\ UNCHANGED <<flags, hand, worker, handler, history, live_q, stored, pool>>

\* One turn of the loop: mine_batch, and handle_hit for each of its hits.
Iterate ==
    /\ MainRuns /\ mpc = "loop" /\ running
    /\ mpc' = "mining"
    /\ UNCHANGED <<flags, hand, worker, handler, history, live_q, stored, pool>>

BatchDone ==
    /\ MainRuns /\ mpc = "mining"
    /\ mpc' = "loop"
    /\ UNCHANGED <<flags, hand, worker, handler, history, live_q, stored, pool>>

\* handle_hit begins: an XUNI block out of its window is not even counted.  A
\* digest that is found again while its block waits is BlockStore's, which
\* refuses it.
HitFound(h, window) ==
    /\ MainRuns /\ mpc = "mining"
    /\ h \notin found \cup Backlog
    /\ found' = found \cup {h}
    /\ IF OffWindow(h, window) /\ ~ShouldStore
       THEN dropped' = dropped \cup {h} /\ UNCHANGED <<mpc, hand>>
       ELSE mpc' = "hit" /\ hand' = {h} /\ UNCHANGED dropped
    /\ UNCHANGED <<flags, worker, handler, answered, live_q, stored, pool>>

\* handle_hit: bag-only and shutting-down hits go to disk.
ReadShutdownFlag ==
    /\ MainRuns /\ mpc = "hit"
    /\ IF BagOnly \/ shutting_down
       THEN Queue(hand) /\ mpc' = "mining" /\ hand' = {}
       ELSE mpc' = "checked" /\ UNCHANGED <<hand, stored, dropped>>
    /\ UNCHANGED <<flags, worker, handler, found, answered, live_q, pool>>

\* handle_hit, the rest: XUNI window, match-drain, network, then the live queue.
Route(window, drain, match) ==
    /\ MainRuns /\ mpc = "checked"
    /\ \/ /\ \E h \in hand : OffWindow(h, window)
          /\ Keep(hand) /\ UNCHANGED live_q
       \/ /\ \A h \in hand : ~OffWindow(h, window)
          /\ drain
          /\ Queue(hand) /\ UNCHANGED live_q
       \/ /\ \A h \in hand : ~OffWindow(h, window)
          /\ ~drain /\ ~CanSubmit(match)
          /\ Keep(hand) /\ UNCHANGED live_q
       \/ /\ \A h \in hand : ~OffWindow(h, window)
          /\ ~drain /\ CanSubmit(match)
          /\ live_q' = live_q \cup hand /\ UNCHANGED <<stored, dropped>>
    /\ mpc' = "mining" /\ hand' = {}
    /\ UNCHANGED <<flags, worker, handler, found, answered, pool>>

\* The loop ends: max_seconds, or running_ fell.  A handler that came first
\* leaves graceful_shutdown nothing to do.
LoopEnds ==
    /\ MainRuns /\ mpc = "loop"
    /\ IF shutting_down
       THEN mpc' = "final" /\ UNCHANGED <<running, shutting_down>>
       ELSE mpc' = "grace" /\ running' = FALSE /\ shutting_down' = TRUE
    /\ UNCHANGED <<worker_running, hand, worker, handler, history, live_q, stored, pool>>

\* graceful_shutdown: hits drained from the GPU find shutting_down_ set.
GraceDrain(window) ==
    /\ MainRuns /\ mpc = "grace"
    /\ \E S \in {{}} \cup {{h} : h \in Hash \ (found \cup Backlog)} :
           /\ found' = found \cup S
           /\ IF ~ShouldStore /\ \E h \in S : OffWindow(h, window)
              THEN dropped' = dropped \cup S /\ UNCHANGED stored
              ELSE Queue(S)
    /\ mpc' = "graceSwap"
    /\ UNCHANGED <<flags, hand, worker, handler, answered, live_q, pool>>

\* bag_live_queue_to_store: swap under submit_mu_, enqueue after it.  In
\* graceful_shutdown and again in finalize_session.
BagSwap ==
    /\ MainRuns /\ mpc \in {"graceSwap", "final"}
    /\ hand' = live_q /\ live_q' = {}
    /\ mpc' = IF mpc = "final" THEN "finalBag" ELSE "graceBag"
    /\ shutting_down' = TRUE /\ running' = FALSE
    /\ UNCHANGED <<worker_running, worker, handler, history, stored, pool>>

\* Mutant of BagEnqueue: the worker is not told to stop.
BagEnqueueKeepsWorker ==
    /\ MainRuns /\ mpc \in {"graceBag", "finalBag"}
    /\ Queue(hand) /\ hand' = {}
    /\ mpc' = IF mpc = "finalBag" THEN "finalJoin" ELSE "graceJoin"
    /\ UNCHANGED <<flags, worker, handler, found, answered, live_q, pool>>

\* ... then stop_submit_worker clears its flag.
BagEnqueue ==
    /\ MainRuns /\ mpc \in {"graceBag", "finalBag"}
    /\ Queue(hand)
    /\ hand' = {}
    /\ worker_running' = FALSE
    /\ mpc' = IF mpc = "finalBag" THEN "finalJoin" ELSE "graceJoin"
    /\ UNCHANGED <<running, shutting_down, worker, handler, found, answered, live_q, pool>>

\* Mutant of Join: the worker is not waited for.
JoinNoWait ==
    /\ MainRuns /\ mpc \in {"graceJoin", "finalJoin"}
    /\ mpc' = IF mpc = "finalJoin" THEN "done" ELSE "final"
    /\ UNCHANGED <<flags, hand, worker, handler, history, live_q, stored, pool>>

\* ... and joins the thread.
Join ==
    /\ MainRuns /\ mpc \in {"graceJoin", "finalJoin"}
    /\ wpc \in {"none", "stopped"}
    /\ mpc' = IF mpc = "finalJoin" THEN "done" ELSE "final"
    /\ UNCHANGED <<flags, hand, worker, handler, history, live_q, stored, pool>>

\* main returns; ~BlockStore writes what is dirty and every thread dies.
Exit ==
    /\ MainRuns /\ mpc = "done"
    /\ mpc' = "exited"
    /\ UNCHANGED <<flags, hand, worker, handler, history, live_q, stored, pool>>

-----------------------------------------------------------------------------
(* The submit worker                                                       *)

\* Mutant of Take: a copy instead of a swap.
TakeCopies ==
    /\ wpc = "wait"
    /\ batch' = live_q
    /\ wpc' = "route"
    /\ UNCHANGED <<flags, main, wave, inflight, accepted_ids, handler, history,
                   live_q, stored, pool>>

\* The wait ends (a notify, or 20 ms): the live queue is swapped out.
Take ==
    /\ wpc = "wait"
    /\ batch' = live_q /\ live_q' = {}
    /\ wpc' = "route"
    /\ UNCHANGED <<flags, main, wave, inflight, accepted_ids, handler, history,
                   stored, pool>>

\* Shutting down, bag-only and match-drain bag the batch; a dead /verify bags
\* it if the settings say so; else its hits are POSTed one by one.
RouteBatch(drain, down) ==
    /\ wpc = "route"
    /\ \/ /\ shutting_down \/ BagOnly \/ drain
          /\ Queue(batch) /\ batch' = {}
          /\ wpc' = IF shutting_down \/ BagOnly THEN "exit" ELSE "flush"
       \/ /\ ~shutting_down /\ ~BagOnly /\ ~drain
          /\ down /\ batch # {}
          /\ Keep(batch) /\ batch' = {}
          /\ wpc' = "flush"
       \/ /\ ~shutting_down /\ ~BagOnly /\ ~drain
          /\ wpc' = "live"
          /\ UNCHANGED <<batch, stored, dropped>>
    /\ UNCHANGED <<flags, main, wave, inflight, accepted_ids, handler, found,
                   answered, live_q, pool>>

\* process_live_submit up to the POST.
LiveGates(h, window, match) ==
    /\ wpc = "live" /\ h \in batch
    /\ batch' = batch \ {h}
    /\ IF shutting_down THEN Queue({h}) /\ UNCHANGED <<wpc, inflight>>
       ELSE IF OffWindow(h, window) \/ ~CanSubmit(match) THEN Keep({h}) /\ UNCHANGED <<wpc, inflight>>
       ELSE /\ wpc' = "post" /\ inflight' = {h}
            /\ UNCHANGED <<stored, dropped>>
    /\ UNCHANGED <<flags, main, wave, accepted_ids, handler, found, answered, live_q, pool>>

LiveDone ==
    /\ wpc = "live" /\ batch = {}
    /\ wpc' = "flush"
    /\ UNCHANGED <<flags, main, batch, wave, inflight, accepted_ids, handler,
                   history, live_q, stored, pool>>

\* External: what POST /verify of h does to the pool, and the class of the answer
\* it gives.  An answer lost on the way leaves the block recorded; a recorded
\* block is answered "already exists".
Verify(h, class) ==
    /\ h \in pool => class \in {"ok", "transient", "hold"}
    /\ class = "xuni" => h \in Xuni
    /\ CASE class = "ok"        -> pool' = pool \cup {h}
         [] class = "transient" -> pool' \in {pool, pool \cup {h}}
         [] OTHER               -> pool' = pool

\* Mutant of LiveAnswer: a block the pool holds back is given up.
LiveAnswerGivesUp(h, class) ==
    /\ wpc = "post" /\ inflight = {h}
    /\ Verify(h, class)
    /\ CASE class = "ok"      -> answered' = answered \cup {h} /\ UNCHANGED <<stored, dropped>>
         [] class = "wrong_m" -> Keep({h}) /\ UNCHANGED answered
         [] class = "hold"    -> dropped' = dropped \cup {h} /\ UNCHANGED <<stored, answered>>
         [] OTHER             -> Queue({h}) /\ UNCHANGED answered
    /\ inflight' = {} /\ wpc' = "live"
    /\ UNCHANGED <<flags, main, batch, wave, accepted_ids, handler, found,
                   live_q>>

\* process_live_submit from the answer on: everything not accepted is bagged,
\* a wrong m= only if the settings say so.
LiveAnswer(h, class) ==
    /\ wpc = "post" /\ inflight = {h}
    /\ Verify(h, class)
    /\ CASE class = "ok"      -> answered' = answered \cup {h} /\ UNCHANGED <<stored, dropped>>
         [] class = "wrong_m" -> Keep({h}) /\ UNCHANGED answered
         [] OTHER             -> Queue({h}) /\ UNCHANGED answered
    /\ inflight' = {} /\ wpc' = "live"
    /\ UNCHANGED <<flags, main, batch, wave, accepted_ids, handler, found,
                   live_q>>

\* service_pending_queue has nothing due, or try_flush_pending's gates say no.
FlushSkipped ==
    /\ wpc \in {"flush", "lastFlush"}
    /\ wpc' = IF wpc = "flush" THEN "exit" ELSE "stopped"
    /\ UNCHANGED <<flags, main, batch, wave, inflight, accepted_ids, handler,
                   history, live_q, stored, pool>>

\* try_flush_pending up to its wave, its gates open: rows of the oracle's m=, XUNI in its
\* window; rows that do not assemble leave the queue.
FlushBegins(rows, window) ==
    /\ wpc \in {"flush", "lastFlush"} /\ SubmitOn
    /\ rows \subseteq {h \in stored : ~OffWindow(h, window)} /\ rows # {}
    /\ wpc = "lastFlush" => rows = {h \in stored : ~OffWindow(h, window)}
    /\ stored' = stored \ (rows \cap Broken)
    /\ wave' = rows \ Broken
    /\ wpc' = IF wpc = "flush" THEN "wave" ELSE "lastWave"
    /\ UNCHANGED <<flags, main, batch, inflight, accepted_ids, handler, history,
                   live_q, pool>>

\* Mutant of PostRow: the pool has no size.
PostRowUnbounded(h) ==
    /\ \/ wpc = "wave" /\ ~shutting_down
       \/ wpc = "lastWave" /\ inflight = {}
    /\ h \in wave
    /\ wave' = wave \ {h} /\ inflight' = inflight \cup {h}
    /\ UNCHANGED <<flags, main, wpc, batch, accepted_ids, handler, history,
                   live_q, stored, pool>>

\* Mutant of PostRow: the index into the rows is read and not moved on.
PostRowSharedIndex(h) ==
    /\ \/ wpc = "wave" /\ ~shutting_down /\ Cardinality(inflight) < Parallel
       \/ wpc = "lastWave" /\ inflight = {}
    /\ h \in wave
    /\ inflight' = inflight \cup {h}
    /\ UNCHANGED <<flags, main, wpc, batch, wave, accepted_ids, handler, history,
                   live_q, stored, pool>>

\* A pool thread takes the next row and POSTs it; the closing flush does so
\* alone and does not look at shutting_down_.
PostRow(h) ==
    /\ \/ wpc = "wave" /\ ~shutting_down /\ Cardinality(inflight) < Parallel
       \/ wpc = "lastWave" /\ inflight = {}
    /\ h \in wave
    /\ wave' = wave \ {h} /\ inflight' = inflight \cup {h}
    /\ UNCHANGED <<flags, main, wpc, batch, accepted_ids, handler, history,
                   live_q, stored, pool>>

\* handle_one
RowAnswer(h, class) ==
    /\ wpc \in {"wave", "lastWave"} /\ h \in inflight
    /\ Verify(h, class)
    /\ IF class = "ok"
       THEN accepted_ids' = accepted_ids \cup {h} /\ answered' = answered \cup {h}
       ELSE UNCHANGED <<accepted_ids, answered>>
    /\ inflight' = inflight \ {h}
    /\ UNCHANGED <<flags, main, wpc, batch, wave, handler, found, dropped, live_q, stored>>

\* Mutant of WaveEnds: the accepted rows stay in the queue.
WaveEndsKeepsRows ==
    /\ wpc \in {"wave", "lastWave"} /\ inflight = {}
    /\ wave = {} \/ (wpc = "wave" /\ shutting_down)
    /\ accepted_ids' = {} /\ wave' = {}
    /\ wpc' = IF wpc = "wave" THEN "exit" ELSE "stopped"
    /\ UNCHANGED <<flags, main, batch, inflight, handler, history, live_q, stored, pool>>

\* The pool is joined: the accepted rows leave the disk queue in one call.
WaveEnds ==
    /\ wpc \in {"wave", "lastWave"} /\ inflight = {}
    /\ wave = {} \/ (wpc = "wave" /\ shutting_down)
    /\ stored' = stored \ accepted_ids
    /\ accepted_ids' = {} /\ wave' = {}
    /\ wpc' = IF wpc = "wave" THEN "exit" ELSE "stopped"
    /\ UNCHANGED <<flags, main, batch, inflight, handler, history, live_q, pool>>

\* The end of a turn: go on, or bag the live queue and flush once more.
WorkerTurnEnds ==
    /\ wpc = "exit"
    /\ wpc' = IF worker_running THEN "wait" ELSE "lastSwap"
    /\ UNCHANGED <<flags, main, batch, wave, inflight, accepted_ids, handler,
                   history, live_q, stored, pool>>

LastSwap ==
    /\ wpc = "lastSwap"
    /\ batch' = live_q /\ live_q' = {}
    /\ wpc' = "lastBag"
    /\ UNCHANGED <<flags, main, wave, inflight, accepted_ids, handler, history,
                   stored, pool>>

LastBag(down) ==
    /\ wpc = "lastBag"
    /\ Queue(batch)
    /\ batch' = {}
    /\ wpc' = IF SubmitOn /\ (~shutting_down \/ ~down) THEN "lastFlush" ELSE "stopped"
    /\ UNCHANGED <<flags, main, wave, inflight, accepted_ids, handler, found,
                   answered, live_q, pool>>

-----------------------------------------------------------------------------
(* The console handler: request_stop, then persist_queue_for_restart       *)

\* A signal comes while g_supervisor is set.
RequestStop ==
    /\ HandlerOn # "none" /\ hpc = "idle"
    /\ mpc \notin {"done", "exited"}
    /\ running' = FALSE
    /\ hpc' = "stop"
    /\ UNCHANGED <<shutting_down, worker_running, main, worker, bagging, history,
                   live_q, stored, pool>>

PersistBegins ==
    /\ mpc # "exited" /\ hpc = "stop"
    /\ shutting_down' = TRUE /\ running' = FALSE /\ worker_running' = FALSE
    /\ hpc' = "swap"
    /\ UNCHANGED <<main, worker, bagging, history, live_q, stored, pool>>

PersistSwap ==
    /\ mpc # "exited" /\ hpc = "swap"
    /\ bagging' = live_q /\ live_q' = {}
    /\ hpc' = "bag"
    /\ UNCHANGED <<flags, main, worker, history, stored, pool>>

\* Mutant of PersistBag: what was swapped out is not enqueued.
PersistBagForgets ==
    /\ mpc # "exited" /\ hpc = "bag"
    /\ bagging' = {} /\ hpc' = "returned"
    /\ UNCHANGED <<flags, main, worker, history, live_q, stored, pool>>

PersistBag ==
    /\ mpc # "exited" /\ hpc = "bag"
    /\ Queue(bagging)
    /\ bagging' = {} /\ hpc' = "returned"
    /\ UNCHANGED <<flags, main, worker, found, answered, live_q, pool>>

-----------------------------------------------------------------------------

\* The process is gone.
Ended == mpc = "exited" /\ UNCHANGED vars

MainStep == /\ UNCHANGED setup
            /\ \/ RunBegins \/ WorkerStarts \/ EngineFails
               \/ Iterate \/ BatchDone \/ ReadShutdownFlag
               \/ LoopEnds \/ BagSwap \/ BagEnqueue \/ Join \/ Exit
               \/ \E window, drain, match \in BOOLEAN : Route(window, drain, match)
               \/ \E window \in BOOLEAN : \/ GraceDrain(window)
                                        \/ \E h \in Hash : HitFound(h, window)

WorkerStep == /\ mpc # "exited" /\ UNCHANGED setup
              /\ \/ Take \/ LiveDone \/ FlushSkipped \/ WaveEnds
                 \/ WorkerTurnEnds \/ LastSwap
                 \/ \E h \in Hash : \/ PostRow(h)
                                    \/ \E a \in LiveClasses : LiveAnswer(h, a)
                                    \/ \E a \in FlushClasses : RowAnswer(h, a)
                 \/ \E down \in BOOLEAN : \/ LastBag(down)
                                          \/ \E drain \in BOOLEAN : RouteBatch(drain, down)
                 \/ \E window \in BOOLEAN :
                        \/ \E h \in Hash, match \in BOOLEAN : LiveGates(h, window, match)
                        \/ \E rows \in SUBSET stored : FlushBegins(rows, window)

HandlerStep == UNCHANGED setup /\ (PersistBegins \/ PersistSwap \/ PersistBag)

Signal == UNCHANGED setup /\ RequestStop

Next == MainStep \/ WorkerStep \/ Signal \/ HandlerStep \/ Ended

Spec == Init /\ [][Next]_vars

\* Threads are scheduled, HTTP calls have a timeout; the mining thread leaves a
\* batch and its loop, a handler that has begun runs on.
FairSpec == /\ Spec
            /\ WF_vars(MainStep) /\ WF_vars(WorkerStep) /\ WF_vars(HandlerStep)

-----------------------------------------------------------------------------
(* Properties                                                              *)

\* Every variable ranges over what the code can store in it.
TypeOK ==
    /\ setup \in Setups
    /\ running \in BOOLEAN /\ shutting_down \in BOOLEAN /\ worker_running \in BOOLEAN
    /\ mpc \in MainPC /\ wpc \in WorkerPC /\ hpc \in HandlerPC
    /\ hand \in SUBSET Hash /\ live_q \in SUBSET Hash /\ batch \in SUBSET Hash
    /\ wave \in SUBSET Hash /\ accepted_ids \in SUBSET Hash
    /\ inflight \in SUBSET Hash /\ Cardinality(inflight) <= Parallel
    /\ bagging \in SUBSET Hash /\ stored \in SUBSET Hash /\ pool \in SUBSET Hash
    /\ found \in SUBSET Hash /\ dropped \in SUBSET Hash /\ answered \in SUBSET Hash

\* The live hit being POSTed (rows of a wave stay in the disk queue meanwhile).
Posting == IF wpc = "post" THEN inflight ELSE {}

\* No hit slips between the threads: until the process ends each one is in the
\* hands of a thread, in a queue, accepted, or dropped as the settings say.
NothingLost ==
    found \subseteq hand \cup live_q \cup batch \cup Posting \cup bagging
                     \cup stored \cup answered \cup dropped

\* No hit has two owners: three threads swap the live queue out, and a hit two
\* of them held would be POSTed and bagged, or bagged twice.
OneOwner ==
    LET places == <<hand, live_q, batch, Posting, bagging, stored>>
    IN \A i, j \in DOMAIN places : i # j => places[i] \cap places[j] = {}

\* A block the pool has accepted is not POSTed again: a live one is nowhere any
\* more, a row leaves with its wave before another wave is drawn.
AcceptedIsDone ==
    /\ answered \cap (hand \cup live_q \cup batch \cup Posting \cup bagging) = {}
    /\ answered \cap (wave \cup inflight) = {}
    /\ answered \cap stored \subseteq accepted_ids

\* While its rows are POSTed a wave is only a list of copies: each row stays in
\* the disk queue until the pool threads are joined, so that no stop in between
\* loses it, and each is untaken, in one thread's hands or accepted, never two of
\* them, though the threads share an index, a list of ids and nothing else.
WaveBacked == wpc \in {"wave", "lastWave"} =>
    /\ wave \cup inflight \cup accepted_ids \subseteq stored
    /\ wave \cap inflight = {} /\ accepted_ids \cap (wave \cup inflight) = {}
    /\ accepted_ids \subseteq answered

\* A row leaves the disk queue only once the pool has recorded its block, or
\* because it cannot be assembled at all.
LeavesWhenRecorded == [][stored \ stored' \subseteq pool' \cup Broken]_vars

\* When the process ends every hit is on disk, accepted or dropped as told, but
\* for what a console handler on a thread of its own has swapped out and not yet
\* enqueued: main does not wait for that thread.
EndsKept ==
    mpc = "exited" /\ ~(HandlerOn = "thread" /\ hpc = "bag") =>
        found \subseteq stored \cup answered \cup dropped

\* The blocks a thread has or the live queue holds: RAM only.
Held == hand \cup live_q \cup batch \cup Posting \cup bagging

\* What the supervisor promises for a block, the threads and flags forgotten.
Ledger == INSTANCE HitLedger WITH
              keeps    <- ShouldStore,
              detached <- HandlerOn = "thread",
              alive    <- mpc # "exited",
              held     <- Held,
              queued   <- stored,
              accepted <- answered

\* Every step of every thread is one a block's owner may take, or none: whoever
\* swaps the live queue, a block goes from RAM to disk or to the pool and never
\* back, nothing is dropped that the settings keep, and main returns with
\* nothing in RAM unless a console handler of Windows has it.
ImplementsLedger == Ledger!Spec

\* A stop that run() has seen brings the process down, whatever the pool does.
ShutdownCompletes == (mpc # "boot" /\ ~running) ~> (mpc = "exited")
=============================================================================
