----------------------------- MODULE KeygenPool -----------------------------
(***************************************************************************)
(* The key generator's threads (src/vendor/hashapi/KeygenPool.cpp).  Every *)
(* lane that builds a batch calls fill: it cuts the batch into jobs, queues *)
(* them and sleeps until a counter on its own stack reaches zero.  The     *)
(* counter, its mutex and its condition variable die when fill returns,    *)
(* and fill may return before the worker that counted to zero has locked   *)
(* that mutex: from there on the worker runs into dead memory, and either  *)
(* goes on or never comes back.                                            *)
(*                                                                         *)
(* A key is its place in the batch.  configure(n) is called with the same  *)
(* n at each engine start and returns early, so the threads are fixed.     *)
(***************************************************************************)
EXTENDS Naturals, Sequences, FiniteSets

CONSTANTS Lane,      \* callers of fill
          KeyWorker, \* threads of the pool
          Counts,    \* batch sizes (not zero: fill returns at once on that)
          MaxFills   \* bound: fills of all lanes

Parameters == /\ IsFiniteSet(KeyWorker) /\ KeyWorker # {}
              /\ Counts \subseteq Nat \ {0} /\ MaxFills \in Nat

VARIABLES q,          \* q_: the queued jobs
          stop,       \* stop_: set by the destructor, when no lane runs any more
          fills,      \* history: fills begun
          call,       \* history: the number of each lane's last one
          count,      \* keys the current fill of each lane wants
          fpc,        \* where fill is: "idle", "look" at the counter, "asleep"
          remaining,  \* the counter of its current fill
          written,    \* keys of its arena that have been written
          kpc,        \* where a worker is: see KeyWorkerPC
          job         \* the job it took

lanes   == <<fills, call, count, fpc, remaining, written>>
workers == <<kpc, job>>
vars    == <<q, stop, lanes, workers>>

\* "dead" is a worker that never came back from a mutex that was not there.
KeyWorkerPC == {"wait", "fill", "countdown", "notify", "dead", "gone"}

NoJob == [lane |-> 0, call |-> 0, keys |-> {}]

Init == /\ q = <<>> /\ stop = FALSE
        /\ fills = 0 /\ call = [l \in Lane |-> 0] /\ count = [l \in Lane |-> 0]
        /\ fpc = [l \in Lane |-> "idle"] /\ remaining = [l \in Lane |-> 0]
        /\ written = [l \in Lane |-> {}]
        /\ kpc = [w \in KeyWorker |-> "wait"] /\ job = [w \in KeyWorker |-> NoJob]

\* use: as many chunks as there are threads, but never more than keys.
Use(n) == IF n < Cardinality(KeyWorker) THEN n ELSE Cardinality(KeyWorker)

\* Mutant of Chunk: rounded down.
ChunkRoundsDown(n) == n \div Use(n)

Chunk(n) == (n + Use(n) - 1) \div Use(n)

\* The chunks that are not empty; the counter begins at Use(n) and is taken down
\* once for each that is.
Begins(n) == {(t - 1) * Chunk(n) : t \in 1..Use(n)} \cap 0..(n - 1)

Jobs(l, n) ==
    [t \in 1..Cardinality(Begins(n)) |->
        [lane |-> l, call |-> fills + 1,
         keys |-> {k \in 1..n : (t - 1) * Chunk(n) < k /\ k <= t * Chunk(n)}]]

\* Mutant of Fill: an empty chunk is skipped but still counted.
FillCountsSkipped(l, n) ==
    /\ fpc[l] = "idle" /\ fills < MaxFills /\ ~stop
    /\ q' = q \o Jobs(l, n)
    /\ remaining' = [remaining EXCEPT ![l] = Use(n)]
    /\ fills' = fills + 1 /\ call' = [call EXCEPT ![l] = fills + 1]
    /\ count' = [count EXCEPT ![l] = n]
    /\ written' = [written EXCEPT ![l] = {}]
    /\ fpc' = [fpc EXCEPT ![l] = "look"]
    /\ UNCHANGED <<stop, workers>>

\* fill up to its wait, under q_mu_.
Fill(l, n) ==
    /\ fpc[l] = "idle" /\ fills < MaxFills /\ ~stop
    /\ q' = q \o Jobs(l, n)
    /\ remaining' = [remaining EXCEPT ![l] = Len(Jobs(l, n))]
    /\ fills' = fills + 1 /\ call' = [call EXCEPT ![l] = fills + 1]
    /\ count' = [count EXCEPT ![l] = n]
    /\ written' = [written EXCEPT ![l] = {}]
    /\ fpc' = [fpc EXCEPT ![l] = "look"]
    /\ UNCHANGED <<stop, workers>>

\* done_cv.wait looks at the counter with done_mu locked: it returns or sleeps.
Look(l) ==
    /\ fpc[l] = "look"
    /\ fpc' = [fpc EXCEPT ![l] = IF remaining[l] = 0 THEN "idle" ELSE "asleep"]
    /\ UNCHANGED <<q, stop, fills, call, count, remaining, written, workers>>

-----------------------------------------------------------------------------
(* worker_loop                                                             *)

TakeJob(w) ==
    /\ kpc[w] = "wait" /\ q # <<>>
    /\ job' = [job EXCEPT ![w] = Head(q)] /\ q' = Tail(q)
    /\ kpc' = [kpc EXCEPT ![w] = "fill"]
    /\ UNCHANGED <<stop, lanes>>

\* fillMany writes the chunk into the caller's arena.
WriteKeys(w) ==
    /\ kpc[w] = "fill"
    /\ written' = [written EXCEPT ![job[w].lane] = @ \cup job[w].keys]
    /\ kpc' = [kpc EXCEPT ![w] = "countdown"]
    /\ UNCHANGED <<q, stop, fills, call, count, fpc, remaining, job>>

\* Mutant of CountDown: the counter of before is compared with zero.
CountDownLooksLate(w) ==
    /\ kpc[w] = "countdown"
    /\ LET l == job[w].lane
       IN /\ remaining' = [remaining EXCEPT ![l] = @ - 1]
          /\ kpc' = [kpc EXCEPT ![w] = IF remaining[l] = 0 THEN "notify" ELSE "wait"]
    /\ UNCHANGED <<q, stop, fills, call, count, fpc, written, job>>

\* The one that takes the counter to zero has a notify to send.
CountDown(w) ==
    /\ kpc[w] = "countdown"
    /\ LET l == job[w].lane
       IN /\ remaining' = [remaining EXCEPT ![l] = @ - 1]
          /\ kpc' = [kpc EXCEPT ![w] = IF remaining[l] = 1 THEN "notify" ELSE "wait"]
    /\ UNCHANGED <<q, stop, fills, call, count, fpc, written, job>>

\* The frame that holds done_mu and done_cv is still the one the job came from.
FrameAlive(w) == /\ call[job[w].lane] = job[w].call
                 /\ fpc[job[w].lane] # "idle"

\* done_mu is locked and done_cv notified: the sleeper looks again.
Notify(w) ==
    /\ kpc[w] = "notify" /\ FrameAlive(w)
    /\ fpc' = [fpc EXCEPT ![job[w].lane] = "look"]
    /\ kpc' = [kpc EXCEPT ![w] = "wait"]
    /\ UNCHANGED <<q, stop, fills, call, count, remaining, written, job>>

\* The caller saw zero by itself and is gone: nothing happens, or the lock of
\* what is now other memory never comes.
NotifyDeadFrame(w) ==
    /\ kpc[w] = "notify" /\ ~FrameAlive(w)
    /\ kpc' \in {[kpc EXCEPT ![w] = "wait"], [kpc EXCEPT ![w] = "dead"]}
    /\ UNCHANGED <<q, stop, lanes, job>>

\* ~KeygenPool: the process ends, the lanes are gone.
StopPool ==
    /\ ~stop /\ \A l \in Lane : fpc[l] = "idle"
    /\ stop' = TRUE
    /\ UNCHANGED <<q, lanes, workers>>

WorkerExits(w) ==
    /\ kpc[w] = "wait" /\ stop /\ q = <<>>
    /\ kpc' = [kpc EXCEPT ![w] = "gone"]
    /\ UNCHANGED <<q, stop, lanes, job>>

-----------------------------------------------------------------------------

LaneStep(l)   == Look(l) \/ \E n \in Counts : Fill(l, n)
WorkerStep(w) == TakeJob(w) \/ WriteKeys(w) \/ CountDown(w) \/ Notify(w)
                 \/ NotifyDeadFrame(w) \/ WorkerExits(w)

Next == \/ \E l \in Lane : LaneStep(l)
        \/ \E w \in KeyWorker : WorkerStep(w)
        \/ StopPool

Spec == Init /\ [][Next]_vars

\* Threads are scheduled; a lane need not ask for another batch.
Fairness == /\ \A l \in Lane : WF_vars(Look(l))
            /\ \A w \in KeyWorker : WF_vars(WorkerStep(w))

FairSpec == Spec /\ Fairness

-----------------------------------------------------------------------------
(* Properties                                                              *)

\* A lane hashes the arena as soon as fill returns: every key is there by then,
\* and no thread of the pool still has a chunk of it, queued or in hand.
FillComplete ==
    \A l \in Lane : fpc[l] = "idle" =>
        /\ written[l] = 1..count[l]
        /\ \A i \in DOMAIN q : q[i].lane # l
        /\ \A w \in KeyWorker : kpc[w] \in {"fill", "countdown"} => job[w].lane # l

\* No caller is forgotten in its sleep, though the counter goes down without the
\* mutex of the condition variable: a chunk of its batch is queued or in a
\* worker's hands, or a notify is on its way to the very frame it sleeps in.
NoFillForgotten ==
    \A l \in Lane : fpc[l] = "asleep" =>
        \/ \E i \in DOMAIN q : q[i].lane = l
        \/ \E w \in KeyWorker : /\ job[w].lane = l
                                /\ \/ kpc[w] \in {"fill", "countdown"}
                                   \/ kpc[w] = "notify" /\ FrameAlive(w)

\* A fill comes back whatever falls between a count-down and a sleep, unless
\* every thread was lost to a frame that was no longer there.
FillEnds ==
    \A l \in Lane :
        fpc[l] # "idle" ~> (fpc[l] = "idle" \/ \A w \in KeyWorker : kpc[w] = "dead")
=============================================================================
