------------------------------ MODULE LaneRing ------------------------------
(***************************************************************************)
(* The streaming lanes of CudaEngine (src/src/mining/cuda_engine.cpp): one *)
(* host thread per lane keeps hashing the request of its mailbox into a    *)
(* ring of results, and mine_batch(), on the mining thread, publishes a    *)
(* changed request (a "kick"), waits until every lane has a result, and    *)
(* absorbs one of each.  One mutex, worker_mu_, and two condition          *)
(* variables: worker_cv_ for a new request, worker_done_cv_ both for the   *)
(* lanes that wait for room and for the mining thread that waits for       *)
(* results.  The lane's hash backend                                       *)
(* (src/vendor/hashapi/CudaHashBackend.cpp) is double-buffered: a batch    *)
(* returns the matches of the batch before it.                             *)
(*                                                                         *)
(* A request is the wallet, difficulty and size it is for: a "proto".  A   *)
(* result is the proto whose matches it carries, NoProto if it carries     *)
(* none, Error if the batch failed.  produced - consumed is Len(ring[l]),  *)
(* seq # seen is fresh[l].  The engine has more than one lane; their       *)
(* number is fixed from one start to the next.                             *)
(***************************************************************************)
EXTENDS Naturals, Sequences, FiniteSets

CONSTANTS Lanes,     \* lanes_
          Ring,      \* LaneMailbox::kRing
          Proto,     \* requests
          NoProto,   \* no request, or no match
          Error,     \* the result of a failed batch
          MaxErrors  \* bound: failed results in the rings at once

ASSUME LaneCount == Lanes \in Nat \ {0, 1} /\ Ring \in Nat \ {0} /\ MaxErrors \in Nat
ASSUME Distinct  == Proto # {} /\ NoProto \notin Proto /\ Error \notin Proto \cup {NoProto}

VARIABLES
    want,     \* what the engine is to hash: active_salt_, difficulty_, ...
    box,      \* lane -> request in its mailbox
    fresh,    \* lane -> has the worker not seen that request yet?
    ring,     \* lane -> results produced and not consumed
    job,      \* lane -> request the worker is hashing
    pend,     \* lane -> matches its backend holds back: pending_
    wpc,      \* lane -> where its worker is: see WorkerPC
    mpc,      \* where the mining thread is: see MainPC
    left,     \* lanes mine_batch or drain_pipeline has still to absorb
    got,      \* matches in its MineBatchResult: hashed for, stamped for
    holder,   \* who holds worker_mu_ between two steps: 0 nobody, Main, a lane
    stop      \* workers_stop_

workers == <<job, pend, wpc>>
shared  == <<box, fresh, ring>>
main    == <<want, mpc, left, got>>
vars    == <<workers, shared, main, holder, stop>>

Lane == 1 .. Lanes
Main == Lanes + 1

WorkerPC == {"none", "mail", "mailSleep", "space", "spaceDoze", "spaceSleep",
             "run", "pushed", "gone"}
MainPC   == {"off", "out", "kicked", "wait", "waitDoze", "waitSleep", "absorb",
             "absorbed", "failed", "drain", "drained", "stopping", "joining"}

Init ==
    /\ want \in Proto
    /\ box = [l \in Lane |-> NoProto] /\ fresh = [l \in Lane |-> FALSE]
    /\ ring = [l \in Lane |-> <<>>]
    /\ job = [l \in Lane |-> NoProto] /\ pend = [l \in Lane |-> NoProto]
    /\ wpc = [l \in Lane |-> "none"]
    /\ mpc = "off" /\ left = {} /\ got = {}
    /\ holder = 0 /\ stop = FALSE

\* notify_all on the one condition variable, and on the other.
WakeMail(pcs) == [l \in Lane |-> IF pcs[l] = "mailSleep" THEN "mail" ELSE pcs[l]]
WakeDone(pcs) == [l \in Lane |-> IF pcs[l] = "spaceSleep" THEN "space" ELSE pcs[l]]

-----------------------------------------------------------------------------
(* A lane's worker: lane_worker_loop                                       *)

\* worker_cv_: what it waits for changes under the mutex only, so looking and
\* falling asleep are one step.
MailCheck(l) ==
    /\ wpc[l] = "mail" /\ holder = 0
    /\ IF stop THEN wpc' = [wpc EXCEPT ![l] = "gone"] /\ UNCHANGED <<fresh, job>>
       ELSE IF fresh[l]
            THEN /\ wpc' = [wpc EXCEPT ![l] = "space"]
                 /\ fresh' = [fresh EXCEPT ![l] = FALSE]
                 /\ job' = [job EXCEPT ![l] = box[l]]
            ELSE wpc' = [wpc EXCEPT ![l] = "mailSleep"] /\ UNCHANGED <<fresh, job>>
    /\ UNCHANGED <<pend, box, ring, main, holder, stop>>

\* Mutant of HasSpace: a ring of one.
HasSpaceOneDeep(l) == ring[l] = <<>>

HasSpace(l) == Len(ring[l]) < Ring

\* Mutant of SpaceCheck: a worker with room in its ring does not look for a new
\* request.
SpaceCheckHashesOn(l) ==
    /\ wpc[l] = "space" /\ holder = 0
    /\ \/ /\ stop \/ (fresh[l] /\ ~HasSpace(l))
          /\ wpc' = [wpc EXCEPT ![l] = "mail"] /\ UNCHANGED holder
       \/ /\ ~stop /\ HasSpace(l)
          /\ wpc' = [wpc EXCEPT ![l] = "run"] /\ UNCHANGED holder
       \/ /\ ~stop /\ ~fresh[l] /\ ~HasSpace(l)
          /\ wpc' = [wpc EXCEPT ![l] = "spaceDoze"] /\ holder' = l
    /\ UNCHANGED <<job, pend, shared, main, stop>>

\* worker_done_cv_: a stop or a new request ends the streaming; room in the ring
\* lets the next batch go; else the worker falls asleep, in a second step,
\* because consumed moves and is announced without the mutex.
SpaceCheck(l) ==
    /\ wpc[l] = "space" /\ holder = 0
    /\ \/ /\ stop \/ fresh[l]
          /\ wpc' = [wpc EXCEPT ![l] = "mail"] /\ UNCHANGED holder
       \/ /\ ~stop /\ ~fresh[l] /\ HasSpace(l)
          /\ wpc' = [wpc EXCEPT ![l] = "run"] /\ UNCHANGED holder
       \/ /\ ~stop /\ ~fresh[l] /\ ~HasSpace(l)
          /\ wpc' = [wpc EXCEPT ![l] = "spaceDoze"] /\ holder' = l
    /\ UNCHANGED <<job, pend, shared, main, stop>>

SpaceSleep(l) ==
    /\ wpc[l] = "spaceDoze"
    /\ wpc' = [wpc EXCEPT ![l] = "spaceSleep"] /\ holder' = 0
    /\ UNCHANGED <<job, pend, shared, main, stop>>

\* runBatch: the matches of the batch before go into the ring, those of this one
\* stay behind; produced grows, without the mutex.
RunBatch(l) ==
    /\ wpc[l] = "run"
    /\ ring' = [ring EXCEPT ![l] = Append(@, pend[l])]
    /\ pend' = [pend EXCEPT ![l] = job[l]]
    /\ wpc' = [wpc EXCEPT ![l] = "pushed"]
    /\ UNCHANGED <<job, box, fresh, main, holder, stop>>

Poisoned == {k \in Lane : \E i \in DOMAIN ring[k] : ring[k][i] = Error}

\* runBatch fails, and drops what it held back.
BatchFails(l) ==
    /\ wpc[l] = "run" /\ Cardinality(Poisoned) < MaxErrors
    /\ ring' = [ring EXCEPT ![l] = Append(@, Error)]
    /\ pend' = [pend EXCEPT ![l] = NoProto]
    /\ wpc' = [wpc EXCEPT ![l] = "pushed"]
    /\ UNCHANGED <<job, box, fresh, main, holder, stop>>

Announce(l) ==
    /\ wpc[l] = "pushed"
    /\ wpc' = [WakeDone(wpc) EXCEPT ![l] = "space"]
    /\ mpc' = IF mpc = "waitSleep" THEN "wait" ELSE mpc
    /\ UNCHANGED <<job, pend, shared, want, left, got, holder, stop>>

-----------------------------------------------------------------------------
(* The mining thread                                                       *)

\* start() and ensure_lane_workers(): mailboxes and backends are new.
Start ==
    /\ mpc = "off"
    /\ box' = [l \in Lane |-> NoProto] /\ fresh' = [l \in Lane |-> FALSE]
    /\ ring' = [l \in Lane |-> <<>>]
    /\ job' = [l \in Lane |-> NoProto] /\ pend' = [l \in Lane |-> NoProto]
    /\ wpc' = [l \in Lane |-> "mail"]
    /\ mpc' = "out"
    /\ UNCHANGED <<want, left, got, holder, stop>>

\* The difficulty, the wallet (select_payout_salt) or the XUNI flag moves.
NewProto ==
    /\ mpc = "out"
    /\ want' \in Proto \ {want}
    /\ UNCHANGED <<workers, shared, mpc, left, got, holder, stop>>

\* mine_batch: the mailboxes that differ are rewritten, their rings emptied, in
\* one hold of the mutex.
Kick ==
    /\ mpc = "out" /\ holder = 0
    /\ LET changed == {l \in Lane : box[l] # want}
       IN /\ box' = [l \in Lane |-> want]
          /\ fresh' = [l \in Lane |-> fresh[l] \/ l \in changed]
          /\ ring' = [l \in Lane |-> IF l \in changed THEN <<>> ELSE ring[l]]
          /\ mpc' = IF changed # {} THEN "kicked" ELSE "wait"
    /\ UNCHANGED <<workers, want, left, got, holder, stop>>

\* ... the kick is announced on worker_cv_ alone.
KickNotify ==
    /\ mpc = "kicked"
    /\ wpc' = WakeMail(wpc)
    /\ mpc' = "wait"
    /\ UNCHANGED <<job, pend, shared, want, left, got, holder, stop>>

\* ... every lane must have a result; looking and falling asleep are two steps.
WaitCheck ==
    /\ mpc = "wait" /\ holder = 0
    /\ IF \A l \in Lane : Len(ring[l]) >= 1
       THEN mpc' = "absorb" /\ left' = Lane /\ UNCHANGED holder
       ELSE mpc' = "waitDoze" /\ holder' = Main /\ UNCHANGED left
    /\ UNCHANGED <<workers, shared, want, got, stop>>

WaitSleep ==
    /\ mpc = "waitDoze"
    /\ mpc' = "waitSleep" /\ holder' = 0
    /\ UNCHANGED <<workers, shared, want, left, got, stop>>

\* hit_from_match: a match is stamped with the wallet and difficulty of now.
Stamped(proto) == IF proto = NoProto THEN {} ELSE {[hashed |-> proto, stamp |-> want]}

\* ... the oldest result of the next lane is absorbed, then consumed; a failed
\* one is thrown first.
Absorb(l) ==
    /\ mpc = "absorb" /\ l \in left /\ \A k \in left : l <= k
    /\ ring[l] # <<>>
    /\ IF Head(ring[l]) = Error
       THEN mpc' = "failed" /\ UNCHANGED <<ring, left, got>>
       ELSE /\ got' = got \cup Stamped(Head(ring[l]))
            /\ ring' = [ring EXCEPT ![l] = Tail(@)]
            /\ left' = left \ {l}
            /\ mpc' = IF left' = {} THEN "absorbed" ELSE "absorb"
    /\ UNCHANGED <<workers, box, fresh, want, holder, stop>>

\* ... the room is announced, and the result goes to the supervisor.
Return ==
    /\ mpc = "absorbed"
    /\ wpc' = WakeDone(wpc)
    /\ mpc' = "out" /\ got' = {}
    /\ UNCHANGED <<job, pend, shared, want, left, holder, stop>>

\* The supervisor's catch: it sleeps a second and goes on.
Retry ==
    /\ mpc = "failed"
    /\ mpc' = "out" /\ left' = {} /\ got' = {}
    /\ UNCHANGED <<workers, shared, want, holder, stop>>

\* drain_pipeline, before a park and a shutdown.
DrainBegins ==
    /\ mpc = "out"
    /\ mpc' = "drain" /\ left' = Lane
    /\ UNCHANGED <<workers, shared, want, got, holder, stop>>

\* ... what the backend holds back, before or after the batch that is running:
\* the lane's mutex keeps the two apart.
Drain(l) ==
    /\ mpc = "drain" /\ l \in left /\ \A k \in left : l <= k
    /\ got' = got \cup Stamped(pend[l])
    /\ pend' = [pend EXCEPT ![l] = NoProto]
    /\ left' = left \ {l}
    /\ mpc' = IF left' = {} THEN "drained" ELSE "drain"
    /\ UNCHANGED <<job, wpc, shared, want, holder, stop>>

\* stop(): after a drain, or at once (CUDA 700, a VRAM emergency).
StopFlag ==
    /\ mpc \in {"out", "failed", "drained"} /\ holder = 0
    /\ stop' = TRUE
    /\ mpc' = "stopping" /\ left' = {} /\ got' = {}
    /\ UNCHANGED <<workers, shared, want, holder>>

\* Mutant of StopNotify: worker_done_cv_ is forgotten.
StopNotifyMail ==
    /\ mpc = "stopping"
    /\ wpc' = WakeMail(wpc)
    /\ mpc' = "joining"
    /\ UNCHANGED <<job, pend, shared, want, left, got, holder, stop>>

StopNotify ==
    /\ mpc = "stopping"
    /\ wpc' = WakeDone(WakeMail(wpc))
    /\ mpc' = "joining"
    /\ UNCHANGED <<job, pend, shared, want, left, got, holder, stop>>

\* ... the threads are joined, the lanes destroyed.
Joined ==
    /\ mpc = "joining" /\ \A l \in Lane : wpc[l] = "gone"
    /\ stop' = FALSE
    /\ wpc' = [l \in Lane |-> "none"] /\ pend' = [l \in Lane |-> NoProto]
    /\ mpc' = "off"
    /\ UNCHANGED <<job, shared, want, left, got, holder>>

WorkerStep(l) == \/ MailCheck(l) \/ SpaceCheck(l) \/ SpaceSleep(l)
                 \/ RunBatch(l) \/ BatchFails(l) \/ Announce(l)

MineStep == \/ Start \/ Kick \/ KickNotify \/ WaitCheck \/ WaitSleep
            \/ \E l \in Lane : Absorb(l) \/ Drain(l)
            \/ Return \/ Retry \/ StopNotify \/ Joined

Next == MineStep \/ NewProto \/ DrainBegins \/ StopFlag \/ \E l \in Lane : WorkerStep(l)

Spec == Init /\ [][Next]_vars

\* Every thread is scheduled, a kernel ends; the supervisor calls mine_batch
\* again and again, a stop once it has drained.
FairSpec == /\ Spec
            /\ WF_vars(MineStep) /\ WF_vars(mpc = "drained" /\ StopFlag)
            /\ \A l \in Lane : SF_vars(WorkerStep(l))

-----------------------------------------------------------------------------
(* Properties                                                              *)

\* A worker never writes the slot of a result that has not been consumed, though
\* it looks for room and fills it in different steps and mine_batch rewinds the
\* cursors in between.
RingBounded == \A l \in Lane : ring[l] \in Seq(Proto \cup {NoProto, Error}) /\ Len(ring[l]) <= Ring

\* mine_batch waits for all the lanes at once and then reads them one by one
\* without the mutex: no lane it has still to read runs empty.
NoEmptyRead == mpc = "absorb" => \A l \in left : ring[l] # <<>>

\* A kick empties the ring but not the batch in flight, nor what the backend
\* holds back: at most two results of older requests follow it.
StaleAtMostTwo ==
    \A l \in Lane : \A i \in DOMAIN ring[l] :
        i > 2 => ring[l][i] \in {box[l], NoProto, Error}

\* What a lane may still deliver for requests older than its mailbox's: what the
\* backend holds back, and the batch that is running.
Old(l, proto) == proto \notin {box[l], NoProto}
Owed == [l \in Lane |-> (IF Old(l, pend[l]) THEN 1 ELSE 0)
                       + (IF wpc[l] = "run" /\ Old(l, job[l]) THEN 1 ELSE 0)]

\* The lanes mine_batch has still to absorb.
Round == IF mpc = "absorb" THEN left ELSE {}

\* The lanes as the mining thread may think of them, the threads forgotten.
Stream == INSTANCE LaneStream WITH
              request <- box,
              queue   <- ring,
              owed    <- Owed,
              round   <- Round

\* Lock by lock and wait by wait the engine does what bounded queues would that
\* are read in rounds: a worker that has overslept a kick, a batch that ends
\* after it or a failed one deliver no more old results than the two a kick
\* leaves behind, and no round meets an empty queue or a new request.
ImplementsStream == Stream!Spec

\* Whatever falls between a look and a sleep, since the notifies of the ring are
\* sent without the mutex, mine_batch comes back, unless a kick has met every
\* lane asleep on a full ring: worker_cv_ does not wake those, and with their
\* rings emptied nothing else will.  A failed batch can do the same: the throw
\* leaves what the lanes before it had consumed unannounced.
WaitEnds ==
    (mpc \in {"wait", "waitDoze", "waitSleep"}) ~>
        \/ mpc = "out"
        \/ \A l \in Lane : wpc[l] = "spaceSleep" /\ fresh[l]
        \/ Poisoned # {}

\* A lane that will announce something before it sleeps again.
OnItsWay(l) == \/ wpc[l] \in {"run", "pushed"}
               \/ wpc[l] \in {"space", "mail"} /\ (fresh[l] \/ HasSpace(l))

\* No wake-up is lost for good, though the ring's are sent without the mutex and
\* may fall between a look and a sleep: while mine_batch sleeps a lane is on its
\* way, but for the two states of WaitEnds; no lane sleeps for a request once it
\* has been announced, and none while stop joins its thread.
NobodyOversleeps ==
    /\ mpc = "waitSleep" => \/ \E l \in Lane : OnItsWay(l)
                            \/ \A l \in Lane : wpc[l] = "spaceSleep" /\ fresh[l]
                            \/ Poisoned # {}
    /\ \A l \in Lane : wpc[l] = "mailSleep" /\ fresh[l] => mpc = "kicked"
    /\ mpc = "joining" => \A l \in Lane : wpc[l] \notin {"mailSleep", "spaceSleep"}

\* stop() comes back: no worker sleeps through it.
StopJoins == (mpc = "stopping") ~> (mpc = "off")

-----------------------------------------------------------------------------
(* What comments say and the code does not do                              *)

\* "workers keep the next wave on the GPU while we absorb the last result": while
\* the engine is up every lane hashes again and again.
LanesStream ==
    \A l \in Lane :
        <>[](mpc \notin {"off", "drain", "drained", "stopping", "joining"})
            => []<>(wpc[l] = "run")

\* "Finalize any double-buffered results still sitting on lanes (call before
\* stop)": once they are, no match is left behind, and a stop loses none.
DrainTakesAll ==
    mpc = "drained" => \A l \in Lane : /\ pend[l] = NoProto
                                       /\ \A i \in DOMAIN ring[l] : ring[l][i] \notin Proto

\* "Wallet this hash was mined for": a hit carries the wallet of its request.
StampMatches == \A hit \in got : hit.hashed = hit.stamp
=============================================================================
