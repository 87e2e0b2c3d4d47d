--------------------------- MODULE LaneRingProofs ---------------------------
(***************************************************************************)
(* The ring of a streaming lane and the stream the lanes implement, for    *)
(* any number of lanes, any ring size, any set of requests and any number  *)
(* of failed batches; and the sleep of its threads, for any ring of more   *)
(* than one slot.                                                          *)
(***************************************************************************)
EXTENDS LaneRing, TLAPS

Request == Proto \cup {NoProto}
Result  == Request \cup {Error}

\* Where a worker is while it streams a request.
Streaming == {"space", "spaceDoze", "spaceSleep", "run", "pushed"}

LaneTypes ==
    /\ want \in Proto /\ left \in SUBSET Lane /\ mpc \in MainPC
    /\ box \in [Lane -> Request] /\ fresh \in [Lane -> BOOLEAN]
    /\ ring \in [Lane -> Seq(Result)]
    /\ job \in [Lane -> Request] /\ pend \in [Lane -> Request]
    /\ wpc \in [Lane -> WorkerPC]

\* One lane: the room a worker has looked for is still there when it fills it; it
\* hashes what its mailbox says unless there is a newer request; and a request
\* may be older than the mailbox's in the batch in flight (nothing is in the
\* ring then), in the backend (at most one result is) and in two results.
LaneOK(l) ==
    /\ Len(ring[l]) <= Ring
    /\ wpc[l] = "run" => Len(ring[l]) < Ring
    /\ wpc[l] \in Streaming /\ ~fresh[l] => job[l] = box[l]
    /\ wpc[l] = "run" /\ job[l] # box[l] => Len(ring[l]) = 0
    /\ pend[l] \notin {box[l], NoProto} => Len(ring[l]) <= 1
    /\ \A i \in 1 .. Len(ring[l]) : i > 2 => ring[l][i] \in {box[l], NoProto, Error}

\* The inductive invariant.
RingInv == /\ LaneTypes
           /\ \A l \in Lane : LaneOK(l)
           /\ mpc = "absorb" => \A l \in left : Len(ring[l]) >= 1

-----------------------------------------------------------------------------

\* A ring with one more result.
LEMMA OneMore ==
    ASSUME NEW r \in Seq(Result), NEW x \in Result
    PROVE  /\ Append(r, x) \in Seq(Result) /\ Len(Append(r, x)) = Len(r) + 1
           /\ \A i \in 1 .. Len(r) : Append(r, x)[i] = r[i]
           /\ Append(r, x)[Len(r) + 1] = x
OBVIOUS

\* A ring without its oldest result.
LEMMA OneLess ==
    ASSUME NEW r \in Seq(Result), Len(r) >= 1
    PROVE  /\ Tail(r) \in Seq(Result) /\ Len(Tail(r)) = Len(r) - 1
           /\ \A i \in 1 .. Len(r) - 1 : Tail(r)[i] = r[i + 1]
<1>1. r # <<>>
  OBVIOUS
<1>. QED
  BY <1>1

\* An empty ring, and the request there always is.
LEMMA EmptyRing == <<>> \in Seq(Result) /\ Len(<<>>) = 0
OBVIOUS

LEMMA InitRingInv == Init => RingInv
<1>. SUFFICES ASSUME Init PROVE RingInv
  OBVIOUS
<1>1. LaneTypes
  BY EmptyRing DEF Init, LaneTypes, Request, WorkerPC, MainPC
<1>2. \A l \in Lane : LaneOK(l)
  BY EmptyRing, LaneCount DEF Init, LaneOK, Streaming
<1>. QED
  BY <1>1, <1>2 DEF Init, RingInv

\* A worker's step says nothing of the other lanes, except that Announce wakes them.
LEMMA OtherLanes ==
    ASSUME NEW l \in Lane, RingInv, WorkerStep(l), NEW k \in Lane \ {l}
    PROVE  /\ UNCHANGED <<box[k], fresh[k], ring[k], job[k], pend[k]>>
           /\ \/ wpc'[k] = wpc[k]
              \/ wpc[k] = "spaceSleep" /\ wpc'[k] = "space"
<1>0. LaneTypes /\ k \in Lane /\ k # l
  BY DEF RingInv
<1>1. CASE Announce(l)
  BY <1>0, <1>1 DEF Announce, WakeDone, LaneTypes, shared
<1>2. CASE RunBatch(l) \/ BatchFails(l)
  BY <1>0, <1>2 DEF RunBatch, BatchFails, LaneTypes
<1>3. CASE MailCheck(l)
  BY <1>0, <1>3 DEF MailCheck, LaneTypes
<1>4. CASE SpaceCheck(l) \/ SpaceSleep(l)
  BY <1>0, <1>4 DEF SpaceCheck, SpaceSleep, LaneTypes, shared
<1>. QED
  BY <1>1, <1>2, <1>3, <1>4 DEF WorkerStep

\* A lane nothing happens to but that its sleeping worker is woken.
LEMMA LaneWoken ==
    ASSUME NEW l \in Lane, RingInv,
           UNCHANGED <<box[l], fresh[l], ring[l], job[l], pend[l]>>,
           \/ wpc'[l] = wpc[l]
           \/ wpc[l] = "spaceSleep" /\ wpc'[l] = "space"
           \/ wpc[l] = "mailSleep" /\ wpc'[l] = "mail"
    PROVE  LaneOK(l)'
BY DEF RingInv, LaneOK, Streaming

LEMMA WorkerKeepsRingInv ==
    ASSUME NEW l \in Lane, RingInv, WorkerStep(l)
    PROVE  RingInv'
<1>0. /\ LaneTypes /\ LaneOK(l) /\ \A k \in Lane : Len(ring[k]) \in Nat
      /\ Ring \in Nat \ {0}
  BY LaneCount DEF RingInv, LaneTypes
<1>1. \A k \in Lane \ {l} : LaneOK(k)'
  BY OtherLanes, LaneWoken
<1>2. ASSUME LaneTypes', LaneOK(l)', Len(ring'[l]) >= Len(ring[l]), UNCHANGED left,
             mpc' = "absorb" => mpc = "absorb"
      PROVE  RingInv'
  <2>1. mpc' = "absorb" => \A k \in left' : Len(ring'[k]) >= 1
    <3>. SUFFICES ASSUME mpc' = "absorb", NEW k \in left PROVE Len(ring'[k]) >= 1
      BY <1>2
    <3>1. k \in Lane /\ Len(ring[k]) >= 1
      BY <1>0, <1>2 DEF RingInv, LaneTypes
    <3>2. CASE k = l
      BY <1>0, <1>2, <3>1, <3>2 DEF LaneTypes
    <3>3. CASE k # l
      BY <3>1, <3>3, OtherLanes
    <3>. QED
      BY <3>2, <3>3
  <2>. QED
    BY <1>1, <1>2, <2>1 DEF RingInv
<1>3. CASE MailCheck(l)
  <2>1. LaneTypes'
    BY <1>0, <1>3 DEF MailCheck, LaneTypes, WorkerPC, main, shared
  <2>2. LaneOK(l)'
    BY <1>0, <1>3 DEF MailCheck, LaneOK, LaneTypes, Streaming
  <2>. QED
    BY <1>0, <1>2, <1>3, <2>1, <2>2 DEF MailCheck, main
<1>4. CASE SpaceCheck(l)
  <2>1. LaneTypes'
    BY <1>0, <1>4 DEF SpaceCheck, LaneTypes, WorkerPC, main, shared
  <2>2. LaneOK(l)'
    BY <1>0, <1>4 DEF SpaceCheck, HasSpace, LaneOK, LaneTypes, Streaming, shared
  <2>. QED
    BY <1>0, <1>2, <1>4, <2>1, <2>2 DEF SpaceCheck, main, shared
<1>5. CASE SpaceSleep(l)
  <2>1. LaneTypes'
    BY <1>0, <1>5 DEF SpaceSleep, LaneTypes, WorkerPC, main, shared
  <2>2. LaneOK(l)'
    BY <1>0, <1>5 DEF SpaceSleep, LaneOK, LaneTypes, Streaming, shared
  <2>. QED
    BY <1>0, <1>2, <1>5, <2>1, <2>2 DEF SpaceSleep, main, shared
<1>6. ASSUME NEW x \in Result, x \in {pend[l], Error}, wpc[l] = "run",
             ring' = [ring EXCEPT ![l] = Append(@, x)],
             \/ pend' = [pend EXCEPT ![l] = job[l]]
             \/ pend' = [pend EXCEPT ![l] = NoProto],
             wpc' = [wpc EXCEPT ![l] = "pushed"],
             UNCHANGED <<job, box, fresh, main>>
      PROVE  RingInv'
  <2>1. /\ ring'[l] = Append(ring[l], x) /\ ring'[l] \in Seq(Result)
        /\ Len(ring'[l]) = Len(ring[l]) + 1
        /\ \A i \in 1 .. Len(ring[l]) : ring'[l][i] = ring[l][i]
        /\ ring'[l][Len(ring[l]) + 1] = x
    BY <1>0, <1>6, OneMore DEF LaneTypes
  <2>2. LaneTypes'
    BY <1>0, <1>6, <2>1 DEF LaneTypes, Request, WorkerPC, main
  <2>3. pend'[l] \in {job[l], NoProto} /\ wpc'[l] = "pushed"
    BY <1>0, <1>6 DEF LaneTypes
  <2>4. \A i \in 1 .. Len(ring'[l]) : i > 2 => ring'[l][i] \in {box'[l], NoProto, Error}
    <3>. SUFFICES ASSUME NEW i \in 1 .. Len(ring'[l]), i > 2
                  PROVE  ring'[l][i] \in {box[l], NoProto, Error}
      BY <1>6
    <3>1. CASE i <= Len(ring[l])
      BY <1>0, <2>1, <3>1 DEF LaneOK
    <3>2. CASE i = Len(ring[l]) + 1
      BY <1>0, <1>6, <2>1, <3>2 DEF LaneOK
    <3>. QED
      BY <1>0, <2>1, <3>1, <3>2
  <2>5. LaneOK(l)'
    BY <1>0, <1>6, <2>1, <2>3, <2>4 DEF LaneOK, Streaming
  <2>. QED
    BY <1>0, <1>2, <1>6, <2>1, <2>2, <2>5 DEF main
<1>7. CASE RunBatch(l)
  BY <1>0, <1>6, <1>7 DEF RunBatch, LaneTypes, Result
<1>8. CASE BatchFails(l)
  BY <1>0, <1>6, <1>8 DEF BatchFails, Result
<1>9. CASE Announce(l)
  <2>1. LaneTypes'
    BY <1>0, <1>9 DEF Announce, LaneTypes, WorkerPC, MainPC, WakeDone, shared
  <2>2. LaneOK(l)'
    BY <1>0, <1>9 DEF Announce, LaneOK, LaneTypes, Streaming, WakeDone, shared
  <2>. QED
    BY <1>0, <1>2, <1>9, <2>1, <2>2 DEF Announce, shared
<1>. QED
  BY <1>3, <1>4, <1>5, <1>7, <1>8, <1>9 DEF WorkerStep

\* Kick: a lane whose request changes loses its results, and hears of it.
LEMMA KickKeepsRingInv == RingInv /\ Kick => RingInv'
<1>. SUFFICES ASSUME RingInv, Kick PROVE RingInv'
  OBVIOUS
<1>0. LaneTypes /\ Ring \in Nat \ {0}
  BY LaneCount DEF RingInv
<1>1. /\ \A l \in Lane : /\ box'[l] = want
                         /\ fresh'[l] = (fresh[l] \/ box[l] # want)
                         /\ ring'[l] = IF box[l] # want THEN <<>> ELSE ring[l]
      /\ UNCHANGED <<want, left, job, pend, wpc>> /\ mpc' \in {"kicked", "wait"}
  BY DEF Kick, workers
<1>2. LaneTypes'
  <2>1. /\ box' = [l \in Lane |-> want]
        /\ fresh' = [l \in Lane |-> fresh[l] \/ l \in {k \in Lane : box[k] # want}]
        /\ ring' = [l \in Lane |-> IF l \in {k \in Lane : box[k] # want} THEN <<>>
                                   ELSE ring[l]]
    BY DEF Kick
  <2>2. ring' \in [Lane -> Seq(Result)]
    BY <1>0, <2>1, EmptyRing DEF LaneTypes
  <2>3. box' \in [Lane -> Request] /\ fresh' \in [Lane -> BOOLEAN]
    BY <1>0, <2>1 DEF LaneTypes, Request
  <2>. QED
    BY <1>0, <1>1, <2>2, <2>3 DEF LaneTypes, MainPC
<1>3. ASSUME NEW l \in Lane PROVE LaneOK(l)'
  <2>0. LaneOK(l) /\ wpc'[l] = wpc[l] /\ pend'[l] = pend[l] /\ job'[l] = job[l]
    BY <1>1 DEF RingInv
  <2>1. CASE box[l] = want
    BY <1>1, <2>0, <2>1 DEF LaneOK
  <2>2. CASE box[l] # want
    <3>1. fresh'[l] /\ ring'[l] = <<>> /\ Len(ring'[l]) = 0
      BY <1>1, <2>2, EmptyRing
    <3>. QED
      BY <1>0, <2>0, <3>1 DEF LaneOK
  <2>. QED
    BY <2>1, <2>2
<1>. QED
  BY <1>1, <1>2, <1>3 DEF RingInv

\* Absorb: the oldest result of the next lane goes, the lane is not read again.
LEMMA AbsorbKeepsRingInv ==
    ASSUME RingInv, NEW l \in Lane, Absorb(l)
    PROVE  RingInv'
<1>0. /\ LaneTypes /\ Ring \in Nat /\ mpc = "absorb" /\ l \in left
      /\ \A k \in left : Len(ring[k]) >= 1
  BY LaneCount DEF RingInv, Absorb
<1>1. UNCHANGED <<job, pend, wpc, box, fresh, want>>
  BY DEF Absorb, workers
<1>2. CASE mpc' = "failed" /\ UNCHANGED <<ring, left>>
  <2>1. LaneTypes'
    BY <1>0, <1>1, <1>2 DEF LaneTypes, MainPC
  <2>2. \A k \in Lane : LaneOK(k)'
    BY <1>1, <1>2, LaneWoken
  <2>. QED
    BY <1>2, <2>1, <2>2 DEF RingInv
<1>3. CASE /\ ring' = [ring EXCEPT ![l] = Tail(@)] /\ left' = left \ {l}
           /\ mpc' \in {"absorbed", "absorb"}
  <2>1. /\ ring'[l] = Tail(ring[l]) /\ ring'[l] \in Seq(Result)
        /\ Len(ring'[l]) = Len(ring[l]) - 1 /\ Len(ring[l]) \in Nat
        /\ \A i \in 1 .. Len(ring[l]) - 1 : ring'[l][i] = ring[l][i + 1]
    BY <1>0, <1>3, OneLess DEF LaneTypes
  <2>2. \A k \in Lane \ {l} : ring'[k] = ring[k]
    BY <1>0, <1>3 DEF LaneTypes
  <2>3. LaneTypes'
    BY <1>0, <1>1, <1>3, <2>1 DEF LaneTypes, MainPC
  <2>4. \A k \in Lane \ {l} : LaneOK(k)'
    BY <1>1, <2>2, LaneWoken
  <2>5. LaneOK(l)'
    <3>1. LaneOK(l)
      BY DEF RingInv
    <3>2. \A i \in 1 .. Len(ring'[l]) : i > 2 => ring'[l][i] \in {box[l], NoProto, Error}
      BY <2>1, <3>1 DEF LaneOK
    <3>. QED
      BY <1>0, <1>1, <2>1, <3>1, <3>2 DEF LaneOK
  <2>6. \A k \in left' : Len(ring'[k]) >= 1
    BY <1>0, <1>3, <2>2 DEF LaneTypes
  <2>. QED
    BY <2>3, <2>4, <2>5, <2>6 DEF RingInv
<1>. QED
  BY <1>2, <1>3 DEF Absorb

\* The rest of what the mining thread does leaves rings, mailboxes and workers
\* alone, but for waking them and for a new start.
LEMMA MainKeepsRingInv ==
    RingInv /\ (MineStep \/ NewProto \/ DrainBegins \/ StopFlag) => RingInv'
<1>. SUFFICES ASSUME RingInv, MineStep \/ NewProto \/ DrainBegins \/ StopFlag PROVE RingInv'
  OBVIOUS
<1>0. LaneTypes /\ Ring \in Nat \ {0}
  BY LaneCount DEF RingInv
<1>1. ASSUME UNCHANGED <<box, fresh, ring, job, pend>>, LaneTypes',
             \A l \in Lane : \/ wpc'[l] = wpc[l]
                             \/ wpc[l] = "spaceSleep" /\ wpc'[l] = "space"
                             \/ wpc[l] = "mailSleep" /\ wpc'[l] = "mail",
             mpc' # "absorb"
      PROVE  RingInv'
  BY <1>1, LaneWoken DEF RingInv
<1>2. CASE Start
  <2>1. LaneTypes'
    BY <1>0, <1>2, EmptyRing DEF Start, LaneTypes, Request, WorkerPC, MainPC
  <2>2. \A l \in Lane : LaneOK(l)'
    BY <1>0, <1>2, EmptyRing DEF Start, LaneOK, Streaming
  <2>. QED
    BY <1>2, <2>1, <2>2 DEF Start, RingInv
<1>3. CASE KickNotify \/ Return \/ StopNotify
  BY <1>0, <1>1, <1>3 DEF KickNotify, Return, StopNotify, WakeMail, WakeDone, LaneTypes,
                          WorkerPC, MainPC, shared
<1>4. CASE WaitSleep \/ Retry \/ NewProto \/ DrainBegins \/ StopFlag
  BY <1>0, <1>1, <1>4 DEF WaitSleep, Retry, NewProto, DrainBegins, StopFlag, LaneTypes,
                          MainPC, shared, workers
<1>5. CASE WaitCheck
  <2>1. LaneTypes'
    BY <1>0, <1>5 DEF WaitCheck, LaneTypes, MainPC, shared, workers
  <2>2. \A l \in Lane : LaneOK(l)'
    BY <1>5, LaneWoken DEF WaitCheck, shared, workers
  <2>. QED
    BY <1>5, <2>1, <2>2 DEF WaitCheck, RingInv, shared
<1>6. ASSUME NEW l \in Lane, Drain(l) PROVE RingInv'
  <2>1. LaneTypes' /\ mpc' # "absorb"
    BY <1>0, <1>6 DEF Drain, LaneTypes, MainPC, shared, Request
  <2>2. \A k \in Lane : LaneOK(k)'
    BY <1>0, <1>6 DEF Drain, RingInv, LaneTypes, LaneOK, shared
  <2>. QED
    BY <2>1, <2>2 DEF RingInv
<1>7. CASE Joined
  <2>1. LaneTypes' /\ mpc' # "absorb"
    BY <1>0, <1>7 DEF Joined, LaneTypes, MainPC, WorkerPC, shared, Request
  <2>2. \A k \in Lane : LaneOK(k)'
    BY <1>0, <1>7 DEF Joined, RingInv, LaneTypes, LaneOK, Streaming, shared
  <2>. QED
    BY <2>1, <2>2 DEF RingInv
<1>. QED
  BY <1>2, <1>3, <1>4, <1>5, <1>6, <1>7, KickKeepsRingInv, AbsorbKeepsRingInv DEF MineStep

LEMMA NextRingInv == RingInv /\ [Next]_vars => RingInv'
<1>. SUFFICES ASSUME RingInv, [Next]_vars PROVE RingInv'
  OBVIOUS
<1>1. CASE UNCHANGED vars
  BY <1>1, LaneWoken DEF vars, workers, shared, main, RingInv, LaneTypes
<1>. QED
  BY <1>1, MainKeepsRingInv, WorkerKeepsRingInv DEF Next

-----------------------------------------------------------------------------

\* The inductive invariant holds in every reachable state.
LEMMA RingInvariant == Spec => []RingInv
BY InitRingInv, NextRingInv, PTL DEF Spec

\* No worker overwrites a result that mine_batch has not consumed, though
\* lane_worker_loop looks for room and fills it in two steps.
THEOREM RingNeverOverrun == Spec => []RingBounded
<1>1. RingInv => RingBounded
  BY DEF RingInv, LaneTypes, LaneOK, RingBounded, Result, Request
<1>. QED
  BY <1>1, RingInvariant, PTL

\* mine_batch reads, without the mutex, no ring that has run empty.
THEOREM NoRingReadEmpty == Spec => []NoEmptyRead
<1>1. RingInv => NoEmptyRead
  BY EmptyRing DEF RingInv, LaneTypes, NoEmptyRead
<1>. QED
  BY <1>1, RingInvariant, PTL

\* At most two results of older requests follow a kick, whatever the size of the
\* ring: the batch in flight and the one the backend holds back.
THEOREM TwoStaleResults == Spec => []StaleAtMostTwo
<1>1. RingInv => StaleAtMostTwo
  BY DEF RingInv, LaneTypes, LaneOK, StaleAtMostTwo
<1>. QED
  BY <1>1, RingInvariant, PTL

-----------------------------------------------------------------------------
(* The lanes implement the stream (LaneStream.tla), step by step.            *)

\* The stream of a state: what its variables stand for.
TheStream == <<box, ring, Owed, Round>>

\* What a lane owes depends on the lane alone.
LEMMA OwedOfLane ==
    /\ DOMAIN Owed = Lane /\ DOMAIN Owed' = Lane
    /\ Owed \in [Lane -> 0..2] /\ Owed' \in [Lane -> 0..2]
    /\ \A l \in Lane :
           /\ Owed[l] = (IF Old(l, pend[l]) THEN 1 ELSE 0)
                        + (IF wpc[l] = "run" /\ Old(l, job[l]) THEN 1 ELSE 0)
           /\ Owed'[l] = (IF Old(l, pend[l])' THEN 1 ELSE 0)
                         + (IF wpc'[l] = "run" /\ Old(l, job[l])' THEN 1 ELSE 0)
           /\ Old(l, pend[l])' <=> pend'[l] \notin {box'[l], NoProto}
           /\ Old(l, job[l])' <=> job'[l] \notin {box'[l], NoProto}
BY DEF Owed, Old

\* A lane owes what it did if its request, its batch and its backend stay, and
\* it does not begin a batch of an older request.
LEMMA OwedStays ==
    ASSUME UNCHANGED <<box, pend>>,
           \A l \in Lane : \/ wpc'[l] = "run" /\ wpc[l] = "run" /\ job'[l] = job[l]
                           \/ wpc'[l] # "run" /\ wpc[l] # "run"
                           \/ wpc'[l] = "run" /\ wpc[l] # "run" /\ job'[l] = box[l]
    PROVE  Owed' = Owed
<1>1. \A l \in Lane : Owed'[l] = Owed[l]
  BY OwedOfLane DEF Old
<1>. QED
  BY <1>1, OwedOfLane

LEMMA InitIsStreamInit == Init => Stream!Init
<1>. SUFFICES ASSUME Init PROVE Stream!Init
  OBVIOUS
<1>1. Owed = [l \in Lane |-> 0]
  <2>1. \A l \in Lane : Owed[l] = 0
    BY OwedOfLane DEF Init, Old
  <2>. QED
    BY <2>1, OwedOfLane
<1>2. Round = {}
  BY DEF Init, Round
<1>. QED
  BY <1>1, <1>2 DEF Init, Stream!Init, Stream!Lane, Lane

\* A worker's step delivers one result, or nothing happens in the stream.
LEMMA WorkerIsStreamStep ==
    ASSUME NEW l \in Lane, RingInv, WorkerStep(l)
    PROVE  UNCHANGED TheStream \/ Stream!Next
<1>0. /\ LaneTypes /\ LaneOK(l)
      /\ Error \notin Request
  BY Distinct DEF RingInv, Request
<1>1. CASE MailCheck(l) \/ SpaceCheck(l) \/ SpaceSleep(l) \/ Announce(l)
  <2>1. UNCHANGED <<box, ring, pend>> /\ Round' = Round
    BY <1>1 DEF MailCheck, SpaceCheck, SpaceSleep, Announce, shared, main, Round
  <2>2. \A k \in Lane : \/ wpc'[k] = "run" /\ wpc[k] = "run" /\ job'[k] = job[k]
                        \/ wpc'[k] # "run" /\ wpc[k] # "run"
                        \/ wpc'[k] = "run" /\ wpc[k] # "run" /\ job'[k] = box[k]
    <3>1. CASE MailCheck(l)
      BY <1>0, <3>1 DEF MailCheck, LaneTypes
    <3>2. CASE SpaceCheck(l)
      BY <1>0, <3>2 DEF SpaceCheck, LaneTypes, LaneOK, Streaming
    <3>3. CASE SpaceSleep(l) \/ Announce(l)
      BY <1>0, <3>3 DEF SpaceSleep, Announce, WakeDone, LaneTypes
    <3>. QED
      BY <1>1, <3>1, <3>2, <3>3
  <2>. QED
    BY <2>1, <2>2, OwedStays DEF TheStream
<1>2. ASSUME NEW x \in Result, wpc[l] = "run", UNCHANGED <<box, Round>>,
             ring' = [ring EXCEPT ![l] = Append(@, x)],
             \/ x = pend[l] /\ Old(l, x) /\ Owed' = [Owed EXCEPT ![l] = @ - 1]
             \/ x \in {box[l], NoProto} /\ Owed' = Owed
             \/ x = Error /\ Owed' = [Owed EXCEPT ![l] = 0]
      PROVE  Stream!Next
  <2>1. Len(ring[l]) < Ring
    BY <1>0, <1>2 DEF LaneOK
  <2>2. CASE x = pend[l] /\ Old(l, x) /\ Owed' = [Owed EXCEPT ![l] = @ - 1]
    <3>1. Owed[l] > 0 /\ Stream!Stale(l, x)
      BY <1>0, <2>2, OwedOfLane DEF Stream!Stale, Old, LaneTypes
    <3>. QED
      BY <1>2, <2>1, <2>2, <3>1 DEF Stream!Next, Stream!Deliver, Stream!Lane, Lane, Result, Request
  <2>3. CASE x \in {box[l], NoProto} /\ Owed' = Owed
    <3>1. x # Error /\ ~Stream!Stale(l, x)
      BY <1>0, <2>3 DEF Stream!Stale, LaneTypes, Request
    <3>. QED
      BY <1>2, <2>1, <2>3, <3>1 DEF Stream!Next, Stream!Deliver, Stream!Lane, Lane, Result, Request
  <2>4. CASE x = Error /\ Owed' = [Owed EXCEPT ![l] = 0]
    <3>1. 0 \in 0..Owed[l] /\ ~Stream!Stale(l, x)
      BY <2>4, OwedOfLane DEF Stream!Stale
    <3>. QED
      BY <1>2, <2>1, <2>4, <3>1 DEF Stream!Next, Stream!Deliver, Stream!Lane, Lane, Result, Request
  <2>. QED
    BY <1>2, <2>2, <2>3, <2>4
<1>3. CASE RunBatch(l)
  <2>1. /\ pend'[l] = job[l] /\ wpc[l] = "run" /\ wpc'[l] = "pushed"
        /\ UNCHANGED <<box, job, Round>> /\ ring' = [ring EXCEPT ![l] = Append(@, pend[l])]
        /\ \A k \in Lane \ {l} : pend'[k] = pend[k] /\ wpc'[k] = wpc[k]
    BY <1>0, <1>3 DEF RunBatch, LaneTypes, main, Round
  <2>2. \A k \in Lane \ {l} : Owed'[k] = Owed[k]
    BY <2>1, OwedOfLane DEF Old
  <2>3. Owed[l] = (IF Old(l, pend[l]) THEN 1 ELSE 0) + Owed'[l]
    <3>1. Owed[l] = (IF Old(l, pend[l]) THEN 1 ELSE 0) + (IF Old(l, job[l]) THEN 1 ELSE 0)
      BY <2>1, OwedOfLane
    <3>2. Owed'[l] = (IF Old(l, pend[l])' THEN 1 ELSE 0)
      BY <2>1, OwedOfLane
    <3>3. Old(l, pend[l])' <=> Old(l, job[l])
      BY <2>1, OwedOfLane DEF Old
    <3>. QED
      BY <3>1, <3>2, <3>3
  <2>4. CASE Old(l, pend[l])
    <3>1. Owed'[l] = Owed[l] - 1
      BY <2>3, <2>4, OwedOfLane
    <3>2. Owed' = [Owed EXCEPT ![l] = @ - 1]
      BY <2>2, <3>1, OwedOfLane
    <3>. QED
      BY <1>0, <1>2, <2>1, <2>4, <3>2 DEF LaneTypes, Result
  <2>5. CASE ~Old(l, pend[l])
    <3>1. Owed'[l] = Owed[l]
      BY <2>3, <2>5, OwedOfLane
    <3>2. Owed' = Owed
      BY <2>2, <3>1, OwedOfLane
    <3>. QED
      BY <1>0, <1>2, <2>1, <2>5, <3>2 DEF LaneTypes, Result, Old
  <2>. QED
    BY <2>4, <2>5
<1>4. CASE BatchFails(l)
  <2>1. /\ pend'[l] = NoProto /\ wpc[l] = "run" /\ wpc'[l] = "pushed"
        /\ UNCHANGED <<box, job, Round>> /\ ring' = [ring EXCEPT ![l] = Append(@, Error)]
        /\ \A k \in Lane \ {l} : pend'[k] = pend[k] /\ wpc'[k] = wpc[k]
    BY <1>0, <1>4 DEF BatchFails, LaneTypes, main, Round
  <2>2. Owed'[l] = 0
    <3>1. ~Old(l, pend[l])'
      BY <2>1, OwedOfLane
    <3>. QED
      BY <2>1, <3>1, OwedOfLane
  <2>3. \A k \in Lane \ {l} : Owed'[k] = Owed[k]
    BY <2>1, OwedOfLane DEF Old
  <2>4. Owed' = [Owed EXCEPT ![l] = 0]
    BY <2>2, <2>3, OwedOfLane
  <2>. QED
    BY <1>2, <2>1, <2>4 DEF Result
<1>. QED
  BY <1>1, <1>3, <1>4 DEF WorkerStep

\* The mining thread asks, reads a round, gives it up, or settles what is left.
LEMMA MainIsStreamStep ==
    ASSUME RingInv, MineStep \/ NewProto \/ DrainBegins \/ StopFlag
    PROVE  UNCHANGED TheStream \/ Stream!Next
<1>0. LaneTypes
  BY DEF RingInv
<1>1. CASE \/ KickNotify \/ WaitSleep \/ Return \/ Retry \/ StopNotify \/ NewProto
           \/ DrainBegins \/ StopFlag
  <2>1. UNCHANGED <<box, ring, pend, job>> /\ Round' = Round
    BY <1>1 DEF KickNotify, WaitSleep, Return, Retry, StopNotify, NewProto, DrainBegins,
                StopFlag, shared, workers, Round
  <2>2. \A k \in Lane : wpc'[k] = "run" <=> wpc[k] = "run"
    BY <1>0, <1>1 DEF KickNotify, WaitSleep, Return, Retry, StopNotify, NewProto, DrainBegins,
                      StopFlag, shared, workers, WakeMail, WakeDone, LaneTypes
  <2>. QED
    BY <2>1, <2>2, OwedStays DEF TheStream
<1>2. CASE Start
  <2>1. /\ box' = [l \in Lane |-> NoProto] /\ ring' = [l \in Lane |-> <<>>]
        /\ Round = {} /\ Round' = {}
    BY <1>2 DEF Start, Round
  <2>2. Owed' = [l \in Lane |-> 0]
    <3>1. \A l \in Lane : Owed'[l] = 0
      BY <1>2, OwedOfLane DEF Start
    <3>. QED
      BY <3>1, OwedOfLane
  <2>. QED
    BY <2>1, <2>2 DEF Stream!Next, Stream!Renew, Stream!Lane, Lane
<1>3. CASE Kick
  <2>1. /\ Round = {} /\ Round' = {} /\ UNCHANGED <<pend, job, wpc, want>> /\ want \in Proto
        /\ box' = [l \in Lane |-> want]
    BY <1>0, <1>3 DEF Kick, Round, workers, LaneTypes
  <2>2. ring' = [l \in Lane |-> IF box[l] = want THEN ring[l] ELSE <<>>]
    BY <1>3 DEF Kick
  <2>3. \A l \in Lane : box[l] = want => Owed'[l] = Owed[l]
    BY <2>1, OwedOfLane DEF Old
  <2>4. Stream!Ask(want)
    BY <2>1, <2>2, <2>3, OwedOfLane DEF Stream!Ask, Stream!Lane, Lane
  <2>. QED
    BY <2>1, <2>4 DEF Stream!Next
<1>4. CASE WaitCheck
  <2>1. UNCHANGED <<box, ring, pend, job, wpc>>
    BY <1>4 DEF WaitCheck, workers, shared
  <2>2. Owed' = Owed
    BY <2>1, OwedStays
  <2>3. CASE \A l \in Lane : Len(ring[l]) >= 1
    <3>1. \A l \in Lane : ring[l] # <<>>
      BY <2>3, EmptyRing
    <3>2. Round = {} /\ Round' = Lane
      BY <1>4, <2>3 DEF WaitCheck, Round
    <3>. QED
      BY <2>1, <2>2, <3>1, <3>2 DEF Stream!Next, Stream!BeginRound, Stream!Lane, Lane
  <2>4. CASE ~(\A l \in Lane : Len(ring[l]) >= 1)
    <3>1. Round = {} /\ Round' = {}
      BY <1>4, <2>4 DEF WaitCheck, Round
    <3>. QED
      BY <2>1, <2>2, <3>1 DEF TheStream
  <2>. QED
    BY <2>3, <2>4
<1>5. ASSUME NEW l \in Lane, Absorb(l) PROVE Stream!Next
  <2>1. /\ UNCHANGED <<box, pend, job, wpc>> /\ Round = left /\ ring[l] # <<>>
        /\ l \in left /\ \A k \in left : l <= k
    BY <1>5 DEF Absorb, workers, Round
  <2>2. Owed' = Owed
    BY <2>1, OwedStays
  <2>3. Stream!NextToRead(l)
    BY <2>1 DEF Stream!NextToRead
  <2>4. CASE Head(ring[l]) = Error
    <3>1. Round' = {} /\ ring' = ring
      BY <1>5, <2>4 DEF Absorb, Round
    <3>2. Stream!GiveUp(l)
      BY <2>1, <2>2, <2>3, <2>4, <3>1 DEF Stream!GiveUp
    <3>. QED
      BY <3>2 DEF Stream!Next, Stream!Lane, Lane
  <2>5. CASE Head(ring[l]) # Error
    <3>1. /\ ring' = [ring EXCEPT ![l] = Tail(@)] /\ left' = left \ {l}
          /\ mpc' = IF left' = {} THEN "absorbed" ELSE "absorb"
      BY <1>5, <2>5 DEF Absorb
    <3>2. Round' = Round \ {l}
      BY <2>1, <3>1 DEF Round
    <3>3. Stream!Read(l)
      BY <2>1, <2>2, <2>3, <2>5, <3>1, <3>2 DEF Stream!Read
    <3>. QED
      BY <3>3 DEF Stream!Next, Stream!Lane, Lane
  <2>. QED
    BY <2>4, <2>5
<1>6. ASSUME UNCHANGED <<box, ring>>, Round = {}, Round' = {}, \A l \in Lane : Owed'[l] <= Owed[l]
      PROVE  Stream!Next
  BY <1>6, OwedOfLane DEF Stream!Next, Stream!Settle, Stream!Lane, Lane
<1>7. ASSUME NEW l \in Lane, Drain(l) PROVE Stream!Next
  <2>1. /\ UNCHANGED <<box, ring, job, wpc>> /\ Round = {} /\ Round' = {}
        /\ \A k \in Lane : pend'[k] \in {pend[k], NoProto}
    BY <1>0, <1>7 DEF Drain, shared, Round, LaneTypes
  <2>2. \A k \in Lane : Owed'[k] <= Owed[k]
    BY <2>1, OwedOfLane DEF Old
  <2>. QED
    BY <1>6, <2>1, <2>2
<1>8. CASE Joined
  <2>1. /\ UNCHANGED <<box, ring, job>> /\ Round = {} /\ Round' = {}
        /\ \A k \in Lane : pend'[k] = NoProto /\ wpc'[k] = "none"
    BY <1>0, <1>8 DEF Joined, shared, Round, LaneTypes
  <2>2. \A k \in Lane : Owed'[k] <= Owed[k]
    BY <2>1, OwedOfLane DEF Old
  <2>. QED
    BY <1>6, <2>1, <2>2
<1>. QED
  BY <1>1, <1>2, <1>3, <1>4, <1>5, <1>7, <1>8 DEF MineStep

\* The engine's lanes are bounded queues read in rounds, for any number of lanes
\* and any ring size: no interleaving of lane_worker_loop, mine_batch and a kick
\* lets a lane deliver a third result of an older request, or empties a ring
\* under a round.
THEOREM LanesStreamInOrder == Spec => ImplementsStream
<1>1. RingInv /\ [Next]_vars => [Stream!Next]_(Stream!stream)
  <2>. SUFFICES ASSUME RingInv, [Next]_vars PROVE UNCHANGED TheStream \/ Stream!Next
    BY DEF TheStream, Stream!stream
  <2>1. CASE UNCHANGED vars
    <3>1. UNCHANGED <<box, ring, pend, job, wpc>> /\ Round' = Round
      BY <2>1 DEF vars, workers, shared, main, Round
    <3>. QED
      BY <3>1, OwedStays DEF TheStream
  <2>. QED
    BY <2>1, WorkerIsStreamStep, MainIsStreamStep DEF Next
<1>. QED
  BY <1>1, InitIsStreamInit, RingInvariant, PTL DEF Spec, ImplementsStream, Stream!Spec

-----------------------------------------------------------------------------
(* No wake-up is lost for good.                                             *)
(* A notify of the ring may fall between a look and a sleep: a lane may     *)
(* sleep with one slot of its ring free, and mine_batch though every lane   *)
(* has had a result since it looked.  That somebody is on its way all the   *)
(* same is not seen from any one lane: the lane whose ring mine_batch has   *)
(* found empty was awake, and has at most one result before it looks for    *)
(* room, which it then finds - in a ring of two slots or more.  In a ring   *)
(* of one it sleeps on that result, and NobodyOversleeps is false.          *)

\* The locks, the flag and the threads' being there.
Order ==
    /\ holder \in 0 .. Lanes + 1 /\ stop \in BOOLEAN
    /\ stop <=> mpc \in {"stopping", "joining"}
    /\ mpc = "waitDoze" <=> holder = Main
    /\ \A l \in Lane : wpc[l] = "spaceDoze" <=> holder = l
    /\ mpc = "off" => \A l \in Lane : wpc[l] = "none"
    /\ mpc # "off" /\ ~stop => \A l \in Lane : wpc[l] \notin {"none", "gone"}
    /\ \A k, l \in Lane : box[k] = box[l]
    /\ mpc \in {"kicked", "wait", "waitDoze", "waitSleep", "absorb", "absorbed", "failed"} =>
           \A l \in Lane : box[l] # NoProto
    /\ mpc = "failed" => Poisoned # {}

\* One lane, awake or asleep, and what it may not have seen.
LaneRests(l) ==
    /\ fresh[l] => /\ box[l] # NoProto
                   /\ Len(ring[l]) = 0 \/ (Len(ring[l]) = 1 /\ wpc[l] # "run")
    /\ wpc[l] \in Streaming => box[l] # NoProto
    /\ ~stop /\ wpc[l] \in {"mail", "mailSleep"} => fresh[l] \/ box[l] = NoProto
    /\ wpc[l] = "mailSleep" /\ fresh[l] => mpc = "kicked"
    /\ wpc[l] = "spaceDoze" => /\ ~stop /\ ~fresh[l] /\ Len(ring[l]) >= Ring - 1
                               /\ mpc = "absorb" /\ l \in left => Len(ring[l]) = Ring
    /\ /\ wpc[l] = "spaceSleep"
       /\ mpc \notin {"absorb", "absorbed"} \/ (mpc = "absorb" /\ l \in left)
       => fresh[l] \/ Len(ring[l]) >= Ring - 1 \/ Poisoned # {}
    /\ mpc = "joining" => wpc[l] \notin {"mailSleep", "spaceSleep"}

\* A kick that met every lane asleep, a failed batch, or somebody is on its way.
Oversleeps(l) == wpc[l] = "spaceSleep" /\ fresh[l]

\* It will have a result before it rests, however often mine_batch misses it.
Eager(l) == /\ wpc[l] \in {"space", "mail", "run", "pushed"}
            /\ Len(ring[l]) = 0 \/ (Len(ring[l]) = 1 /\ wpc[l] # "run")

Somebody ==
    /\ ~stop /\ (\E l \in Lane : Oversleeps(l)) =>
           Poisoned # {} \/ \A l \in Lane : Oversleeps(l) \/ OnItsWay(l)
    /\ mpc = "waitDoze" =>
           Poisoned # {} \/ \E l \in Lane : Eager(l) \/ Oversleeps(l)
    /\ mpc = "waitSleep" =>
           Poisoned # {} \/ (\E l \in Lane : OnItsWay(l)) \/ \A l \in Lane : Oversleeps(l)

\* The second inductive invariant.
SleepInv == Order /\ (\A l \in Lane : LaneRests(l)) /\ Somebody

LEMMA Oldest ==
    ASSUME NEW r \in Seq(Result), Len(r) >= 1
    PROVE  Head(r) = r[1]
OBVIOUS

LEMMA PoisonStays ==
    ASSUME RingInv,
           \/ UNCHANGED ring
           \/ \E l \in Lane, x \in Result : ring' = [ring EXCEPT ![l] = Append(@, x)]
           \/ \E l \in Lane : /\ Len(ring[l]) >= 1 /\ Head(ring[l]) # Error
                              /\ ring' = [ring EXCEPT ![l] = Tail(@)]
    PROVE  Poisoned # {} => Poisoned' # {}
<1>. SUFFICES ASSUME NEW k \in Lane, NEW i \in DOMAIN ring[k], ring[k][i] = Error
              PROVE  \E m \in Lane : \E j \in DOMAIN ring'[m] : ring'[m][j] = Error
  BY DEF Poisoned
<1>0. /\ ring \in [Lane -> Seq(Result)] /\ DOMAIN ring[k] = 1 .. Len(ring[k])
      /\ Len(ring[k]) \in Nat
  BY DEF RingInv, LaneTypes
<1>1. CASE UNCHANGED ring
  BY <1>1
<1>2. ASSUME NEW l \in Lane, NEW x \in Result, ring' = [ring EXCEPT ![l] = Append(@, x)]
      PROVE  \E j \in DOMAIN ring'[k] : ring'[k][j] = Error
  <2>1. CASE k = l
    <3>1. ring'[k] = Append(ring[k], x)
      BY <1>0, <1>2, <2>1
    <3>2. /\ DOMAIN ring'[k] = 1 .. Len(ring[k]) + 1 /\ ring'[k][i] = ring[k][i]
      BY <1>0, <3>1, OneMore
    <3>. QED
      BY <1>0, <3>2
  <2>2. CASE k # l
    BY <1>0, <1>2, <2>2
  <2>. QED
    BY <2>1, <2>2
<1>3. ASSUME NEW l \in Lane, Len(ring[l]) >= 1, Head(ring[l]) # Error,
             ring' = [ring EXCEPT ![l] = Tail(@)]
      PROVE  \E j \in DOMAIN ring'[k] : ring'[k][j] = Error
  <2>1. CASE k = l
    <3>0. ring[k] \in Seq(Result) /\ Len(ring[k]) >= 1 /\ Head(ring[k]) # Error
      BY <1>0, <1>3, <2>1
    <3>1. ring'[k] = Tail(ring[k]) /\ Head(ring[k]) = ring[k][1]
      <4>1. ring'[k] = Tail(ring[k])
        BY <1>0, <1>3, <2>1
      <4>2. Head(ring[k]) = ring[k][1]
        BY <3>0, Oldest
      <4>. QED
        BY <4>1, <4>2
    <3>2. i \in 1 .. Len(ring[k]) /\ i # 1
      BY <1>0, <3>0, <3>1
    <3>3. /\ Tail(ring[k]) \in Seq(Result) /\ Len(Tail(ring[k])) = Len(ring[k]) - 1
          /\ \A j \in 1 .. Len(ring[k]) - 1 : Tail(ring[k])[j] = ring[k][j + 1]
      BY <3>0, OneLess
    <3>4. i - 1 \in 1 .. Len(ring[k]) - 1 /\ (i - 1) + 1 = i
      BY <1>0, <3>2
    <3>5. i - 1 \in DOMAIN ring'[k] /\ ring'[k][i - 1] = Error
      BY <3>1, <3>3, <3>4
    <3>. QED
      BY <3>5
  <2>2. CASE k # l
    BY <1>0, <1>3, <2>2
  <2>. QED
    BY <2>1, <2>2
<1>. QED
  BY <1>1, <1>2, <1>3

LEMMA InitSleepInv == ASSUME Init, Ring > 1 PROVE SleepInv
<1>1. Order
  <2>1. Main # 0 /\ 0 \in 0 .. Lanes + 1 /\ 0 \notin Lane
    BY LaneCount DEF Main, Lane
  <2>. QED
    BY <2>1 DEF Init, Order
<1>2. \A l \in Lane : LaneRests(l)
  BY EmptyRing DEF Init, LaneRests, Streaming
<1>3. Somebody
  BY DEF Init, Somebody, Oversleeps
<1>. QED
  BY <1>1, <1>2, <1>3 DEF SleepInv

\* What the steps below start from.
Rested == RingInv /\ SleepInv /\ Ring > 1

LEMMA RestedFacts ==
    ASSUME Rested
    PROVE  /\ LaneTypes /\ Order /\ Somebody /\ Ring \in Nat /\ Ring > 1
           /\ \A l \in Lane : /\ LaneRests(l) /\ LaneOK(l) /\ Len(ring[l]) \in Nat
                              /\ l \in 0 .. Lanes + 1 /\ l # 0 /\ l # Main
           /\ Main # 0 /\ Main \in 0 .. Lanes + 1 /\ 0 \in 0 .. Lanes + 1
<1>1. /\ Main # 0 /\ Main \in 0 .. Lanes + 1 /\ 0 \in 0 .. Lanes + 1
      /\ \A l \in Lane : l \in 0 .. Lanes + 1 /\ l # 0 /\ l # Main
  BY LaneCount DEF Main, Lane
<1>2. \A l \in Lane : LaneRests(l) /\ LaneOK(l) /\ Len(ring[l]) \in Nat
  BY DEF Rested, RingInv, SleepInv, LaneTypes
<1>. QED
  BY <1>1, <1>2, LaneCount DEF Rested, RingInv, SleepInv

\* A ring of one result at most has room.
LEMMA ShortRing ==
    ASSUME NEW n \in Nat, NEW m \in Nat, m > 1, n = 0 \/ n = 1
    PROVE  n < m
OBVIOUS

\* The mailbox is read: the lane goes on, sleeps or is gone.
LEMMA MailRests ==
    ASSUME Rested, NEW l \in Lane, MailCheck(l)
    PROVE  SleepInv'
<1>0. /\ LaneTypes /\ Order /\ Somebody /\ Ring \in Nat /\ Ring > 1
      /\ \A k \in Lane : /\ LaneRests(k) /\ LaneOK(k) /\ Len(ring[k]) \in Nat
                         /\ k \in 0 .. Lanes + 1 /\ k # 0 /\ k # Main
      /\ Main # 0 /\ Main \in 0 .. Lanes + 1 /\ 0 \in 0 .. Lanes + 1
  BY RestedFacts
<1>1. UNCHANGED <<ring, box, pend, want, mpc, left, got, holder, stop>>
  BY DEF MailCheck, main
<1>2. Poisoned' = Poisoned
  BY <1>1 DEF Poisoned
<1>3. \A k \in Lane \ {l} : wpc'[k] = wpc[k] /\ fresh'[k] = fresh[k]
  BY <1>0 DEF MailCheck, LaneTypes
<1>4. /\ wpc[l] = "mail" /\ holder = 0
      /\ \/ stop /\ wpc'[l] = "gone" /\ fresh'[l] = fresh[l]
         \/ ~stop /\ fresh[l] /\ wpc'[l] = "space" /\ fresh'[l] = FALSE
         \/ ~stop /\ ~fresh[l] /\ wpc'[l] = "mailSleep" /\ fresh'[l] = fresh[l]
  BY <1>0 DEF MailCheck, LaneTypes
<1>5. Order'
  BY <1>0, <1>1, <1>2, <1>3, <1>4 DEF Order
<1>6. \A k \in Lane : LaneRests(k)'
  <2>1. ASSUME NEW k \in Lane \ {l} PROVE LaneRests(k)'
    BY <1>0, <1>1, <1>2, <1>3 DEF LaneRests
  <2>2. LaneRests(l)'
    BY <1>0, <1>1, <1>2, <1>4 DEF LaneRests, Streaming, Order
  <2>. QED
    BY <2>1, <2>2
<1>7. Somebody'
  <2>1. \A k \in Lane : Oversleeps(k)' <=> Oversleeps(k)
    BY <1>3, <1>4 DEF Oversleeps
  <2>2. \A k \in Lane : ~stop /\ OnItsWay(k) /\ (k = l => box[l] # NoProto) => OnItsWay(k)'
    <3>1. fresh[l] => Len(ring[l]) < Ring
      <4>1. (Len(ring[l]) = 0 \/ Len(ring[l]) = 1) => Len(ring[l]) < Ring
        BY <1>0, ShortRing
      <4>. QED
        BY <1>0, <4>1 DEF LaneRests
    <3>2. ~stop /\ box[l] # NoProto => fresh[l]
      <4>1. LaneRests(l) /\ wpc[l] = "mail"
        BY <1>0, <1>4
      <4>. QED
        BY <4>1 DEF LaneRests
    <3>3. \A k \in Lane \ {l} : OnItsWay(k) => OnItsWay(k)'
      BY <1>1, <1>3 DEF OnItsWay, HasSpace
    <3>4. ~stop /\ box[l] # NoProto => OnItsWay(l)'
      <4>. SUFFICES ASSUME ~stop, box[l] # NoProto PROVE OnItsWay(l)'
        OBVIOUS
      <4>1. fresh[l] /\ wpc'[l] = "space"
        BY <1>4, <3>2
      <4>2. Len(ring'[l]) < Ring
        BY <1>1, <3>1, <4>1
      <4>. QED
        BY <4>1, <4>2 DEF OnItsWay, HasSpace
    <3>. QED
      BY <3>3, <3>4
  <2>3. ~stop /\ (\E k \in Lane : Oversleeps(k)) => box[l] # NoProto
    BY <1>0 DEF Oversleeps, Order, LaneRests, Streaming
  <2>4. \A k \in Lane : OnItsWay(k) /\ mpc = "waitSleep" => OnItsWay(k)'
    BY <1>0, <2>2 DEF Order
  <2>5. mpc # "waitDoze"
    BY <1>0, <1>4 DEF Order
  <2>. QED
    BY <1>0, <1>1, <1>2, <2>1, <2>2, <2>3, <2>4, <2>5 DEF Somebody
<1>. QED
  BY <1>5, <1>6, <1>7 DEF SleepInv

\* The lane looks for room: it runs, dozes or goes for a new request.
LEMMA SpaceRests ==
    ASSUME Rested, NEW l \in Lane, SpaceCheck(l)
    PROVE  SleepInv'
<1>0. /\ LaneTypes /\ Order /\ Somebody /\ Ring \in Nat /\ Ring > 1
      /\ \A k \in Lane : /\ LaneRests(k) /\ LaneOK(k) /\ Len(ring[k]) \in Nat
                         /\ k \in 0 .. Lanes + 1 /\ k # 0 /\ k # Main
      /\ Main # 0 /\ Main \in 0 .. Lanes + 1 /\ 0 \in 0 .. Lanes + 1
  BY RestedFacts
<1>1. UNCHANGED <<ring, box, fresh, pend, want, mpc, left, got, stop>>
  BY DEF SpaceCheck, main, shared
<1>2. Poisoned' = Poisoned
  BY <1>1 DEF Poisoned
<1>3. \A k \in Lane \ {l} : wpc'[k] = wpc[k]
  BY <1>0 DEF SpaceCheck, LaneTypes
<1>4. /\ wpc[l] = "space" /\ holder = 0
      /\ \/ (stop \/ fresh[l]) /\ wpc'[l] = "mail" /\ holder' = 0
         \/ ~stop /\ ~fresh[l] /\ Len(ring[l]) < Ring /\ wpc'[l] = "run" /\ holder' = 0
         \/ ~stop /\ ~fresh[l] /\ ~(Len(ring[l]) < Ring) /\ wpc'[l] = "spaceDoze" /\ holder' = l
  BY <1>0 DEF SpaceCheck, LaneTypes, HasSpace
<1>5. Order'
  BY <1>0, <1>1, <1>2, <1>3, <1>4 DEF Order
<1>6. \A k \in Lane : LaneRests(k)'
  <2>1. ASSUME NEW k \in Lane \ {l} PROVE LaneRests(k)'
    BY <1>0, <1>1, <1>2, <1>3 DEF LaneRests
  <2>2. LaneRests(l)'
    BY <1>0, <1>1, <1>2, <1>4 DEF LaneRests, Streaming, LaneOK, Order
  <2>. QED
    BY <2>1, <2>2
<1>7. Somebody'
  <2>1. \A k \in Lane : Oversleeps(k)' <=> Oversleeps(k)
    BY <1>1, <1>3, <1>4 DEF Oversleeps
  <2>2. \A k \in Lane : ~stop /\ OnItsWay(k) => OnItsWay(k)'
    BY <1>0, <1>1, <1>3, <1>4 DEF OnItsWay, HasSpace
  <2>3. mpc # "waitDoze" /\ (mpc = "waitSleep" => ~stop)
    BY <1>0, <1>4 DEF Order
  <2>. QED
    BY <1>0, <1>1, <1>2, <2>1, <2>2, <2>3 DEF Somebody
<1>. QED
  BY <1>5, <1>6, <1>7 DEF SleepInv

LEMMA DozeRests ==
    ASSUME Rested, NEW l \in Lane, SpaceSleep(l)
    PROVE  SleepInv'
<1>0. /\ LaneTypes /\ Order /\ Somebody /\ Ring \in Nat /\ Ring > 1
      /\ \A k \in Lane : /\ LaneRests(k) /\ LaneOK(k) /\ Len(ring[k]) \in Nat
                         /\ k \in 0 .. Lanes + 1 /\ k # 0 /\ k # Main
      /\ Main # 0 /\ Main \in 0 .. Lanes + 1 /\ 0 \in 0 .. Lanes + 1
  BY RestedFacts
<1>1. UNCHANGED <<ring, box, fresh, pend, want, mpc, left, got, stop>>
  BY DEF SpaceSleep, main, shared
<1>2. Poisoned' = Poisoned
  BY <1>1 DEF Poisoned
<1>3. \A k \in Lane \ {l} : wpc'[k] = wpc[k]
  BY <1>0 DEF SpaceSleep, LaneTypes
<1>4. wpc[l] = "spaceDoze" /\ wpc'[l] = "spaceSleep" /\ holder = l /\ holder' = 0
  BY <1>0 DEF SpaceSleep, LaneTypes, Order
<1>5. Order'
  BY <1>0, <1>1, <1>2, <1>3, <1>4 DEF Order
<1>6. \A k \in Lane : LaneRests(k)'
  <2>1. ASSUME NEW k \in Lane \ {l} PROVE LaneRests(k)'
    BY <1>0, <1>1, <1>2, <1>3 DEF LaneRests
  <2>2. LaneRests(l)'
    BY <1>0, <1>1, <1>2, <1>4 DEF LaneRests, Streaming, Order
  <2>. QED
    BY <2>1, <2>2
<1>7. Somebody'
  <2>1. \A k \in Lane : Oversleeps(k)' <=> Oversleeps(k)
    BY <1>0, <1>1, <1>3, <1>4 DEF Oversleeps, LaneRests
  <2>2. \A k \in Lane : OnItsWay(k) => OnItsWay(k)'
    BY <1>1, <1>3, <1>4 DEF OnItsWay, HasSpace
  <2>3. \A k \in Lane : Eager(k) => Eager(k)'
    BY <1>1, <1>3, <1>4 DEF Eager
  <2>. QED
    BY <1>0, <1>1, <1>2, <2>1, <2>2, <2>3 DEF Somebody
<1>. QED
  BY <1>5, <1>6, <1>7 DEF SleepInv

\* A batch ends, well or not: its lane announces it next.
LEMMA BatchRests ==
    ASSUME Rested, NEW l \in Lane, RunBatch(l) \/ BatchFails(l)
    PROVE  SleepInv'
<1>0. /\ LaneTypes /\ Order /\ Somebody /\ Ring \in Nat /\ Ring > 1
      /\ \A k \in Lane : /\ LaneRests(k) /\ LaneOK(k) /\ Len(ring[k]) \in Nat
                         /\ k \in 0 .. Lanes + 1 /\ k # 0 /\ k # Main
      /\ Main # 0 /\ Main \in 0 .. Lanes + 1 /\ 0 \in 0 .. Lanes + 1
  BY RestedFacts
<1>1. UNCHANGED <<box, fresh, mpc, left, holder, stop>>
  BY DEF RunBatch, BatchFails, main
<1>2. PICK x \in Result : ring' = [ring EXCEPT ![l] = Append(@, x)]
  BY <1>0 DEF RunBatch, BatchFails, LaneTypes, Result
<1>3. /\ wpc[l] = "run" /\ wpc'[l] = "pushed"
      /\ \A k \in Lane \ {l} : wpc'[k] = wpc[k] /\ ring'[k] = ring[k]
  BY <1>0 DEF RunBatch, BatchFails, LaneTypes
<1>4. Len(ring'[l]) = Len(ring[l]) + 1
  BY <1>0, <1>2, OneMore DEF LaneTypes
<1>5. Poisoned # {} => Poisoned' # {}
  BY <1>2, PoisonStays DEF Rested
<1>6. Order'
  BY <1>0, <1>1, <1>3, <1>5 DEF Order
<1>7. \A k \in Lane : LaneRests(k)'
  <2>1. ASSUME NEW k \in Lane \ {l} PROVE LaneRests(k)'
    BY <1>0, <1>1, <1>3, <1>5 DEF LaneRests
  <2>2. LaneRests(l)'
    BY <1>0, <1>1, <1>3, <1>4 DEF LaneRests, Streaming
  <2>. QED
    BY <2>1, <2>2
<1>8. Somebody'
  <2>1. \A k \in Lane : Oversleeps(k)' <=> Oversleeps(k)
    BY <1>1, <1>3 DEF Oversleeps
  <2>2. \A k \in Lane : OnItsWay(k) => OnItsWay(k)'
    BY <1>1, <1>3 DEF OnItsWay, HasSpace
  <2>3. \A k \in Lane : Eager(k) => Eager(k)'
    <3>1. \A k \in Lane \ {l} : Eager(k) => Eager(k)'
      BY <1>3 DEF Eager
    <3>2. Eager(l) => Eager(l)'
      BY <1>0, <1>3, <1>4 DEF Eager
    <3>. QED
      BY <3>1, <3>2
  <2>. QED
    BY <1>0, <1>1, <1>5, <2>1, <2>2, <2>3 DEF Somebody
<1>. QED
  BY <1>6, <1>7, <1>8 DEF SleepInv

\* A result is announced: whoever sleeps on worker_done_cv_ is awake.
LEMMA AnnounceRests ==
    ASSUME Rested, NEW l \in Lane, Announce(l)
    PROVE  SleepInv'
<1>0. /\ LaneTypes /\ Order /\ Somebody /\ Ring \in Nat /\ Ring > 1
      /\ \A k \in Lane : /\ LaneRests(k) /\ LaneOK(k) /\ Len(ring[k]) \in Nat
                         /\ k \in 0 .. Lanes + 1 /\ k # 0 /\ k # Main
      /\ Main # 0 /\ Main \in 0 .. Lanes + 1 /\ 0 \in 0 .. Lanes + 1
  BY RestedFacts
<1>1. UNCHANGED <<ring, box, fresh, left, holder, stop>>
  BY DEF Announce, shared
<1>2. Poisoned' = Poisoned
  BY <1>1 DEF Poisoned
<1>3. /\ wpc[l] = "pushed" /\ wpc'[l] = "space"
      /\ \A k \in Lane : \/ wpc'[k] = wpc[k] /\ wpc[k] # "spaceSleep"
                         \/ wpc[k] \in {"spaceSleep", "pushed"} /\ wpc'[k] = "space"
  BY <1>0 DEF Announce, WakeDone, LaneTypes
<1>4. \/ mpc = "waitSleep" /\ mpc' = "wait"
      \/ mpc # "waitSleep" /\ mpc' = mpc
  BY DEF Announce
<1>5. Order'
  BY <1>0, <1>1, <1>2, <1>3, <1>4 DEF Order
<1>6. ASSUME NEW k \in Lane PROVE LaneRests(k)'
  BY <1>0, <1>1, <1>2, <1>3, <1>4 DEF LaneRests, Streaming
<1>7. Somebody'
  <2>1. \A k \in Lane : ~Oversleeps(k)'
    BY <1>3 DEF Oversleeps
  <2>2. ASSUME NEW k \in Lane, Eager(k) \/ Oversleeps(k) PROVE Eager(k)'
    BY <1>0, <1>1, <1>3, <2>2 DEF Eager, Oversleeps, LaneRests
  <2>. QED
    BY <1>0, <1>2, <1>4, <2>1, <2>2 DEF Somebody
<1>. QED
  BY <1>5, <1>6, <1>7 DEF SleepInv

\* start(): mailboxes and rings are new.
LEMMA StartRests == Rested /\ Start => SleepInv'
<1>. SUFFICES ASSUME Rested, Start PROVE SleepInv'
  OBVIOUS
<1>0. /\ LaneTypes /\ Order
      /\ \A k \in Lane : k \in 0 .. Lanes + 1 /\ k # 0 /\ k # Main
  BY RestedFacts
<1>1. /\ mpc = "off" /\ mpc' = "out" /\ UNCHANGED <<holder, stop>>
      /\ \A k \in Lane : /\ box'[k] = NoProto /\ ~fresh'[k] /\ Len(ring'[k]) = 0
                         /\ wpc'[k] = "mail"
  BY EmptyRing DEF Start
<1>2. Order'
  BY <1>0, <1>1 DEF Order
<1>3. ASSUME NEW k \in Lane PROVE LaneRests(k)'
  BY <1>1 DEF LaneRests, Streaming
<1>4. Somebody'
  BY <1>1 DEF Somebody, Oversleeps
<1>. QED
  BY <1>2, <1>3, <1>4 DEF SleepInv

\* Steps of the mining thread that touch no lane, outside of mine_batch.
LEMMA QuietRests ==
    ASSUME Rested, UNCHANGED <<ring, box, fresh, wpc, holder, stop>>,
           \/ mpc \in {"out", "failed", "drain", "drained"} /\ mpc' \in {"out", "drain", "drained"}
           \/ UNCHANGED <<mpc, left>>
    PROVE  SleepInv'
<1>0. LaneTypes /\ Order /\ Somebody /\ \A k \in Lane : LaneRests(k)
  BY RestedFacts
<1>1. Poisoned' = Poisoned
  BY DEF Poisoned
<1>2. Order'
  BY <1>0, <1>1 DEF Order
<1>3. ASSUME NEW k \in Lane PROVE LaneRests(k)'
  <2>1. LaneRests(k)
    BY <1>0
  <2>. QED
    BY <1>1, <2>1 DEF LaneRests
<1>4. Somebody'
  BY <1>0, <1>1 DEF Somebody, Oversleeps, Eager, OnItsWay, HasSpace
<1>. QED
  BY <1>2, <1>3, <1>4 DEF SleepInv

\* stop(): the flag, the notifies and the joins.
LEMMA StopRests == Rested /\ (StopFlag \/ StopNotify \/ Joined) => SleepInv'
<1>. SUFFICES ASSUME Rested, StopFlag \/ StopNotify \/ Joined PROVE SleepInv'
  OBVIOUS
<1>0. /\ LaneTypes /\ Order /\ \A k \in Lane : LaneRests(k)
      /\ \A k \in Lane : k \in 0 .. Lanes + 1 /\ k # 0 /\ k # Main
      /\ Main # 0
  BY RestedFacts
<1>1. UNCHANGED <<ring, box, fresh, holder>>
  BY DEF StopFlag, StopNotify, Joined, shared
<1>2. CASE StopFlag
  <2>1. /\ mpc \in {"out", "failed", "drained"} /\ mpc' = "stopping" /\ holder = 0
        /\ stop' = TRUE /\ UNCHANGED wpc
    BY <1>2 DEF StopFlag, workers
  <2>2. Order'
    BY <1>0, <1>1, <2>1 DEF Order
  <2>3. ASSUME NEW k \in Lane PROVE LaneRests(k)'
    <3>1. LaneRests(k) /\ wpc[k] # "spaceDoze" /\ Poisoned' = Poisoned
      BY <1>0, <1>1, <2>1 DEF Order, Poisoned
    <3>. QED
      BY <1>1, <2>1, <3>1 DEF LaneRests
  <2>4. Somebody'
    BY <2>1 DEF Somebody
  <2>. QED
    BY <2>2, <2>3, <2>4 DEF SleepInv
<1>3. CASE StopNotify
  <2>1. /\ mpc = "stopping" /\ mpc' = "joining" /\ UNCHANGED stop
        /\ \A k \in Lane :
               \/ wpc'[k] = wpc[k] /\ wpc[k] \notin {"mailSleep", "spaceSleep"}
               \/ wpc[k] = "mailSleep" /\ wpc'[k] = "mail"
               \/ wpc[k] = "spaceSleep" /\ wpc'[k] = "space"
    BY <1>0, <1>3 DEF StopNotify, WakeMail, WakeDone, LaneTypes
  <2>2. Order'
    BY <1>0, <1>1, <2>1 DEF Order
  <2>3. ASSUME NEW k \in Lane PROVE LaneRests(k)'
    <3>1. LaneRests(k) /\ stop = TRUE
      BY <1>0, <2>1 DEF Order
    <3>. QED
      BY <1>1, <2>1, <3>1 DEF LaneRests, Streaming
  <2>4. Somebody'
    BY <1>0, <2>1 DEF Somebody, Order
  <2>. QED
    BY <2>2, <2>3, <2>4 DEF SleepInv
<1>4. CASE Joined
  <2>1. /\ mpc = "joining" /\ mpc' = "off" /\ stop' = FALSE
        /\ \A k \in Lane : wpc[k] = "gone" /\ wpc'[k] = "none"
    BY <1>0, <1>4 DEF Joined, LaneTypes
  <2>2. Order'
    BY <1>0, <1>1, <2>1 DEF Order
  <2>3. ASSUME NEW k \in Lane PROVE LaneRests(k)'
    BY <1>0, <1>1, <2>1 DEF LaneRests, Streaming
  <2>4. Somebody'
    BY <2>1 DEF Somebody, Oversleeps
  <2>. QED
    BY <2>2, <2>3, <2>4 DEF SleepInv
<1>. QED
  BY <1>2, <1>3, <1>4

\* A kick: every mailbox changes or none does, as they have always said the same.
LEMMA KickRests == Rested /\ Kick => SleepInv'
<1>. SUFFICES ASSUME Rested, Kick PROVE SleepInv'
  OBVIOUS
<1>0. /\ LaneTypes /\ Order /\ Somebody /\ Ring \in Nat /\ Ring > 1
      /\ \A k \in Lane : /\ LaneRests(k) /\ LaneOK(k) /\ Len(ring[k]) \in Nat
                         /\ k \in 0 .. Lanes + 1 /\ k # 0 /\ k # Main
      /\ Main # 0 /\ Main \in 0 .. Lanes + 1 /\ 0 \in 0 .. Lanes + 1
  BY RestedFacts
<1>1. /\ mpc = "out" /\ holder = 0 /\ UNCHANGED <<wpc, left, holder, stop>>
      /\ \A k \in Lane : /\ box'[k] = want
                         /\ fresh'[k] = (fresh[k] \/ box[k] # want)
                         /\ ring'[k] = IF box[k] # want THEN <<>> ELSE ring[k]
      /\ mpc' = IF \E k \in Lane : box[k] # want THEN "kicked" ELSE "wait"
  BY DEF Kick, workers
<1>2. /\ ~stop /\ want # NoProto
      /\ \A k \in Lane : /\ wpc[k] \notin {"none", "gone", "spaceDoze"}
                         /\ wpc[k] = "mailSleep" => ~fresh[k] /\ box[k] = NoProto
      /\ \A j, k \in Lane : box[j] = box[k]
  BY <1>0, <1>1, Distinct DEF Order, LaneTypes, LaneRests
<1>3. Order'
  BY <1>0, <1>1, <1>2 DEF Order
<1>4. CASE \A k \in Lane : box[k] # want
  <2>1. /\ mpc' = "kicked" \/ Lane = {}
        /\ \A k \in Lane : (fresh'[k] <=> TRUE) /\ Len(ring'[k]) = 0
    BY <1>1, <1>4, EmptyRing
  <2>2. 1 \in Lane
    BY LaneCount DEF Lane
  <2>3. ASSUME NEW k \in Lane PROVE LaneRests(k)'
    BY <1>1, <1>2, <2>1, <2>2 DEF LaneRests
  <2>4. Somebody'
    <3>1. mpc' = "kicked"
      BY <2>1, <2>2
    <3>2. ASSUME NEW j \in Lane, Oversleeps(j)', NEW k \in Lane
          PROVE  Oversleeps(k)' \/ OnItsWay(k)'
      <4>1. wpc[j] = "spaceSleep" /\ box[k] # NoProto
        BY <1>0, <1>1, <1>2, <3>2 DEF Oversleeps, LaneRests, Streaming
      <4>2. wpc[k] \in {"mail", "space", "spaceSleep", "run", "pushed"}
        BY <1>0, <1>2, <4>1 DEF LaneTypes, WorkerPC
      <4>. QED
        BY <1>1, <2>1, <4>2 DEF Oversleeps, OnItsWay
    <3>. QED
      BY <3>1, <3>2 DEF Somebody
  <2>. QED
    BY <1>3, <2>3, <2>4 DEF SleepInv
<1>5. CASE \A k \in Lane : box[k] = want
  <2>1. /\ mpc' = "wait"
        /\ \A k \in Lane : (fresh'[k] <=> fresh[k]) /\ ring'[k] = ring[k] /\ box'[k] = box[k]
    BY <1>0, <1>1, <1>5 DEF LaneTypes
  <2>2. Poisoned' = Poisoned
    BY <2>1 DEF Poisoned
  <2>3. ASSUME NEW k \in Lane PROVE LaneRests(k)'
    <3>1. LaneRests(k) /\ (wpc[k] = "mailSleep" => ~fresh[k]) /\ wpc[k] # "spaceDoze"
      BY <1>0, <1>2
    <3>. QED
      BY <1>1, <2>1, <2>2, <3>1 DEF LaneRests
  <2>4. Somebody'
    BY <1>0, <1>1, <2>1, <2>2 DEF Somebody, Oversleeps, OnItsWay, HasSpace
  <2>. QED
    BY <1>3, <2>3, <2>4 DEF SleepInv
<1>. QED
  BY <1>2, <1>4, <1>5

\* The kick is announced, or the room: who slept for it is awake.
LEMMA NotifyRests == Rested /\ (KickNotify \/ Return) => SleepInv'
<1>. SUFFICES ASSUME Rested, KickNotify \/ Return PROVE SleepInv'
  OBVIOUS
<1>0. LaneTypes /\ Order /\ Somebody /\ \A k \in Lane : LaneRests(k)
  BY RestedFacts
<1>1. UNCHANGED <<ring, box, fresh, left, holder, stop>>
  BY DEF KickNotify, Return, shared
<1>2. Poisoned' = Poisoned
  BY <1>1 DEF Poisoned
<1>3. CASE KickNotify
  <2>1. /\ mpc = "kicked" /\ mpc' = "wait"
        /\ \A k \in Lane : \/ wpc'[k] = wpc[k] /\ wpc[k] # "mailSleep"
                           \/ wpc[k] = "mailSleep" /\ wpc'[k] = "mail"
    BY <1>0, <1>3 DEF KickNotify, WakeMail, LaneTypes
  <2>2. Order'
    BY <1>0, <1>1, <1>2, <2>1 DEF Order
  <2>3. ASSUME NEW k \in Lane PROVE LaneRests(k)'
    <3>1. LaneRests(k)
      BY <1>0
    <3>. QED
      BY <1>1, <1>2, <2>1, <3>1 DEF LaneRests, Streaming
  <2>4. Somebody'
    BY <1>0, <1>1, <1>2, <2>1 DEF Somebody, Oversleeps, OnItsWay, HasSpace
  <2>. QED
    BY <2>2, <2>3, <2>4 DEF SleepInv
<1>4. CASE Return
  <2>1. /\ mpc = "absorbed" /\ mpc' = "out"
        /\ \A k \in Lane : \/ wpc'[k] = wpc[k] /\ wpc[k] # "spaceSleep"
                           \/ wpc[k] = "spaceSleep" /\ wpc'[k] = "space"
    BY <1>0, <1>4 DEF Return, WakeDone, LaneTypes
  <2>2. Order'
    BY <1>0, <1>1, <1>2, <2>1 DEF Order
  <2>3. ASSUME NEW k \in Lane PROVE LaneRests(k)'
    <3>1. LaneRests(k)
      BY <1>0
    <3>. QED
      BY <1>1, <1>2, <2>1, <3>1 DEF LaneRests, Streaming
  <2>4. Somebody'
    BY <2>1 DEF Somebody, Oversleeps
  <2>. QED
    BY <2>2, <2>3, <2>4 DEF SleepInv
<1>. QED
  BY <1>3, <1>4

\* mine_batch looks at the rings, and falls asleep: a lane whose ring it has found
\* empty will not rest on it.
LEMMA WaitRests == Rested /\ (WaitCheck \/ WaitSleep) => SleepInv'
<1>. SUFFICES ASSUME Rested, WaitCheck \/ WaitSleep PROVE SleepInv'
  OBVIOUS
<1>0. /\ LaneTypes /\ Order /\ Somebody /\ Ring \in Nat /\ Ring > 1
      /\ \A k \in Lane : /\ LaneRests(k) /\ LaneOK(k) /\ Len(ring[k]) \in Nat
                         /\ k \in 0 .. Lanes + 1 /\ k # 0 /\ k # Main
      /\ Main # 0 /\ Main \in 0 .. Lanes + 1 /\ 0 \in 0 .. Lanes + 1
  BY RestedFacts
<1>1. UNCHANGED <<ring, box, fresh, wpc, stop>>
  BY DEF WaitCheck, WaitSleep, shared, workers
<1>2. /\ Poisoned' = Poisoned
      /\ \A k \in Lane : (Oversleeps(k)' <=> Oversleeps(k)) /\ (OnItsWay(k)' <=> OnItsWay(k))
                         /\ (Eager(k)' <=> Eager(k))
  BY <1>1 DEF Poisoned, Oversleeps, OnItsWay, HasSpace, Eager
<1>3. CASE WaitCheck
  <2>1. mpc = "wait" /\ holder = 0 /\ ~stop
    BY <1>0, <1>3 DEF WaitCheck, Order
  <2>2. \A k \in Lane : /\ wpc[k] \notin {"none", "gone", "spaceDoze"} /\ box[k] # NoProto
                        /\ wpc[k] = "mailSleep" => ~fresh[k]
    BY <1>0, <2>1 DEF Order, LaneRests
  <2>3. CASE mpc' = "absorb" /\ UNCHANGED holder
    <3>1. Order'
      BY <1>0, <1>1, <1>2, <2>1, <2>3 DEF Order
    <3>2. ASSUME NEW k \in Lane PROVE LaneRests(k)'
      <4>1. LaneRests(k) /\ wpc[k] # "spaceDoze" /\ (wpc[k] = "mailSleep" => ~fresh[k])
        BY <1>0, <2>2
      <4>. QED
        BY <1>1, <1>2, <2>1, <2>3, <4>1 DEF LaneRests
    <3>3. Somebody'
      BY <1>0, <1>1, <1>2, <2>3 DEF Somebody
    <3>. QED
      BY <3>1, <3>2, <3>3 DEF SleepInv
  <2>4. ASSUME NEW l \in Lane, ~(Len(ring[l]) >= 1), mpc' = "waitDoze", holder' = Main
        PROVE  SleepInv'
    <3>1. Order'
      BY <1>0, <1>1, <1>2, <2>1, <2>4 DEF Order
    <3>2. ASSUME NEW k \in Lane PROVE LaneRests(k)'
      <4>1. LaneRests(k) /\ wpc[k] # "spaceDoze" /\ (wpc[k] = "mailSleep" => ~fresh[k])
        BY <1>0, <2>2
      <4>. QED
        BY <1>1, <1>2, <2>1, <2>4, <4>1 DEF LaneRests
    <3>3. Len(ring[l]) = 0
      BY <1>0, <2>4
    <3>4. wpc[l] # "mailSleep"
      BY <1>0, <2>1, <2>2 DEF LaneRests
    <3>5. wpc[l] = "spaceSleep" => Oversleeps(l) \/ Poisoned # {}
      <4>1. LaneRests(l) /\ ~(Len(ring[l]) >= Ring - 1)
        BY <1>0, <3>3
      <4>. QED
        BY <2>1, <4>1 DEF LaneRests, Oversleeps
    <3>6. wpc[l] \in {"space", "mail", "run", "pushed", "spaceSleep"}
      BY <1>0, <2>2, <3>4 DEF LaneTypes, WorkerPC
    <3>7. Eager(l) \/ Oversleeps(l) \/ Poisoned # {}
      BY <3>3, <3>5, <3>6 DEF Eager
    <3>8. Somebody'
      BY <1>0, <1>1, <1>2, <2>4, <3>7 DEF Somebody
    <3>. QED
      BY <3>1, <3>2, <3>8 DEF SleepInv
  <2>. QED
    BY <1>3, <2>3, <2>4 DEF WaitCheck
<1>4. CASE WaitSleep
  <2>1. mpc = "waitDoze" /\ mpc' = "waitSleep" /\ holder' = 0 /\ holder = Main /\ ~stop
    BY <1>0, <1>4 DEF WaitSleep, Order
  <2>2. Order'
    BY <1>0, <1>1, <1>2, <2>1 DEF Order
  <2>3. ASSUME NEW k \in Lane PROVE LaneRests(k)'
    <3>1. LaneRests(k) /\ UNCHANGED left
      BY <1>0, <1>4 DEF WaitSleep
    <3>. QED
      BY <1>1, <1>2, <2>1, <3>1 DEF LaneRests
  <2>4. ASSUME NEW k \in Lane, Eager(k) PROVE OnItsWay(k)
    <3>1. (Len(ring[k]) = 0 \/ Len(ring[k]) = 1) => HasSpace(k)
      BY <1>0, ShortRing DEF HasSpace
    <3>. QED
      BY <2>4, <3>1 DEF Eager, OnItsWay
  <2>5. Somebody'
    <3>1. Poisoned # {} \/ \E k \in Lane : OnItsWay(k) \/ Oversleeps(k)
      BY <1>0, <2>1, <2>4 DEF Somebody
    <3>2. (\E k \in Lane : Oversleeps(k)) =>
              Poisoned # {} \/ \A k \in Lane : Oversleeps(k) \/ OnItsWay(k)
      BY <1>0, <2>1 DEF Somebody
    <3>. QED
      BY <1>1, <1>2, <2>1, <3>1, <3>2 DEF Somebody
  <2>. QED
    BY <2>2, <2>3, <2>5 DEF SleepInv
<1>. QED
  BY <1>3, <1>4

\* A result is absorbed, or found to be an error.
LEMMA AbsorbRests ==
    ASSUME Rested, NEW l \in Lane, Absorb(l)
    PROVE  SleepInv'
<1>0. /\ LaneTypes /\ Order /\ Somebody /\ Ring \in Nat /\ Ring > 1
      /\ \A k \in Lane : /\ LaneRests(k) /\ LaneOK(k) /\ Len(ring[k]) \in Nat
                         /\ k \in 0 .. Lanes + 1 /\ k # 0 /\ k # Main
      /\ Main # 0 /\ Main \in 0 .. Lanes + 1 /\ 0 \in 0 .. Lanes + 1
  BY RestedFacts
<1>1. /\ mpc = "absorb" /\ l \in left /\ UNCHANGED <<wpc, box, fresh, holder, stop>>
      /\ ring[l] \in Seq(Result) /\ Len(ring[l]) >= 1
  BY <1>0 DEF Absorb, workers, Rested, RingInv, LaneTypes
<1>2. CASE Head(ring[l]) = Error /\ mpc' = "failed" /\ UNCHANGED <<ring, left>>
  <2>1. l \in Poisoned /\ Poisoned' = Poisoned
    <3>1. 1 \in DOMAIN ring[l] /\ ring[l][1] = Error
      BY <1>1, <1>2, Oldest
    <3>. QED
      BY <1>2, <3>1 DEF Poisoned
  <2>2. Order'
    BY <1>0, <1>1, <1>2, <2>1 DEF Order
  <2>3. ASSUME NEW k \in Lane PROVE LaneRests(k)'
    <3>1. LaneRests(k)
      BY <1>0
    <3>. QED
      BY <1>1, <1>2, <2>1, <3>1 DEF LaneRests
  <2>4. Somebody'
    BY <1>1, <1>2, <2>1 DEF Somebody
  <2>. QED
    BY <2>2, <2>3, <2>4 DEF SleepInv
<1>3. CASE /\ Head(ring[l]) # Error /\ ring' = [ring EXCEPT ![l] = Tail(@)]
           /\ left' = left \ {l} /\ mpc' \in {"absorbed", "absorb"}
  <2>1. /\ Len(ring'[l]) = Len(ring[l]) - 1
        /\ \A k \in Lane \ {l} : ring'[k] = ring[k]
    BY <1>0, <1>1, <1>3, OneLess DEF LaneTypes
  <2>2. Poisoned # {} => Poisoned' # {}
    BY <1>1, <1>3, PoisonStays DEF Rested
  <2>3. Order'
    BY <1>0, <1>1, <1>3, <2>2 DEF Order
  <2>4. ASSUME NEW k \in Lane \ {l} PROVE LaneRests(k)'
    <3>1. LaneRests(k) /\ ring'[k] = ring[k] /\ (k \in left' => k \in left)
      BY <1>0, <1>3, <2>1
    <3>2. mpc' = "absorbed" => left' = {}
      BY <1>3 DEF Absorb
    <3>. QED
      BY <1>1, <1>3, <2>2, <3>1, <3>2 DEF LaneRests
  <2>5. LaneRests(l)'
    <3>1. LaneRests(l) /\ Len(ring'[l]) = Len(ring[l]) - 1 /\ Len(ring[l]) \in Nat
      BY <1>0, <2>1
    <3>. QED
      BY <1>0, <1>1, <1>3, <3>1 DEF LaneRests
  <2>6. \A k \in Lane : OnItsWay(k) => OnItsWay(k)'
    <3>1. \A k \in Lane : HasSpace(k) => HasSpace(k)'
      BY <1>0, <1>1, <2>1 DEF HasSpace
    <3>. QED
      BY <1>1, <3>1 DEF OnItsWay
  <2>7. Somebody'
    BY <1>0, <1>1, <1>3, <2>2, <2>6 DEF Somebody, Oversleeps
  <2>. QED
    BY <2>3, <2>4, <2>5, <2>7 DEF SleepInv
<1>. QED
  BY <1>2, <1>3 DEF Absorb

LEMMA NextSleepInv == Rested /\ [Next]_vars => SleepInv'
<1>. SUFFICES ASSUME Rested, [Next]_vars PROVE SleepInv'
  OBVIOUS
<1>1. CASE UNCHANGED vars \/ NewProto \/ Retry \/ DrainBegins \/ \E l \in Lane : Drain(l)
  BY <1>1, QuietRests DEF vars, workers, shared, main, NewProto, Retry, DrainBegins, Drain
<1>2. ASSUME NEW l \in Lane, WorkerStep(l) PROVE SleepInv'
  BY <1>2, MailRests, SpaceRests, DozeRests, BatchRests, AnnounceRests DEF WorkerStep
<1>3. CASE MineStep
  BY <1>1, <1>3, StartRests, KickRests, NotifyRests, WaitRests, AbsorbRests, StopRests
     DEF MineStep
<1>. QED
  BY <1>1, <1>2, <1>3, StopRests DEF Next

LEMMA SleepInvariant ==
    ASSUME Ring > 1
    PROVE  Spec => [](RingInv /\ SleepInv)
<1>1. Init => RingInv /\ SleepInv
  BY InitRingInv, InitSleepInv
<1>2. RingInv /\ SleepInv /\ [Next]_vars => (RingInv /\ SleepInv)'
  BY NextRingInv, NextSleepInv DEF Rested
<1>. QED
  BY <1>1, <1>2, PTL DEF Spec

\* No wake-up of the engine is lost for good, whatever falls between a look and a
\* sleep: with more than one slot in the ring, as LaneMailbox has.
THEOREM NoWakeUpIsLost ==
    ASSUME Ring > 1
    PROVE  Spec => []NobodyOversleeps
<1>1. SleepInv => NobodyOversleeps
  BY DEF SleepInv, Somebody, LaneRests, Oversleeps, NobodyOversleeps
<1>. QED
  BY <1>1, SleepInvariant, PTL
=============================================================================
