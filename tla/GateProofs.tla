----------------------------- MODULE GateProofs -----------------------------
(***************************************************************************)
(* What is POSTed and when, and what is hunted: which batch hunts XUNI,    *)
(* when a bag at the network's m= may go, and which rows of it a wave has. *)
(***************************************************************************)
EXTENDS PartsProofs

-----------------------------------------------------------------------------
(* XuniHunt                                                                *)

\* The batches since the last that hunted are at least as many as the counter is
\* beyond a multiple of EveryN.
Place(n, k, r) == n = k * Xuni!Every + r
Placed == \E k \in 0..5 : \E r \in 0..(Xuni!Every - 1) : Place(seq, k, r) /\ r <= sparse

\* A count since which the queue has not been seen at the resume mark is still
\* the loop's own, or the engine has paused for it, or the window has been shut.
XuniInv ==
    /\ minute \in {"closed", "submit", "mine", "taper"}
    /\ settled \in BOOLEAN /\ looped \in BOOLEAN /\ paused \in BOOLEAN /\ full \in BOOLEAN
    /\ hunts \in BOOLEAN
    /\ rows \in Nat /\ counted \in Nat /\ sparse \in Nat /\ sparse <= Xuni!Round
    /\ seq \in Nat /\ seq < Xuni!Round /\ Placed
    /\ looped /\ counted > 0 => Xuni!InXuniWindow \/ (minute = "closed" /\ ~settled)
    /\ looped /\ full => counted >= Xuni!Soft \/ (paused /\ counted > Xuni!Resume)
    /\ ~looped /\ full => \/ paused \/ Xuni!Soft = 0
                          \/ minute = "closed"
                          \/ minute = "submit" /\ ~settled

LEMMA Cadence ==
    /\ Xuni!Every \in Nat \ {0} /\ Xuni!Round \in Nat \ {0}
    /\ Xuni!Every <= Xuni!Round
    /\ \E c \in 2..6 : Xuni!Round = c * Xuni!Every
    /\ Xuni!Soft \in Nat /\ Xuni!Resume \in Nat
    /\ \/ Xuni!OneIn = Xuni!Every
       \/ Xuni!OneIn = Xuni!Round
<1>0. EveryN \in Int /\ SoftCap \in Int /\ ResumeAt \in Int
  BY XuniParameters DEF Xuni!Parameters
<1>1. Xuni!Every \in Nat \ {0}
  BY <1>0 DEF Xuni!Every, Xuni!MaxOf
<1>2. Xuni!Soft \in Nat /\ Xuni!Resume \in Nat
  BY <1>0 DEF Xuni!Soft, Xuni!Resume, Xuni!MaxOf
<1>3. Xuni!Round = IF Xuni!Every = 1 THEN 6 ELSE 3 * Xuni!Every
  BY <1>1 DEF Xuni!Round, Xuni!MaxOf
<1>4. \E c \in 2..6 : Xuni!Round = c * Xuni!Every
  <2>1. CASE Xuni!Every = 1
    BY <1>3, <2>1
  <2>2. CASE Xuni!Every # 1
    BY <1>1, <1>3, <2>2
  <2> QED
    BY <2>1, <2>2
<1>5. Xuni!OneIn = Xuni!Every \/ Xuni!OneIn = Xuni!Round
  BY DEF Xuni!OneIn, Xuni!Round
<1> QED
  BY <1>1, <1>2, <1>3, <1>4, <1>5

\* The next place of a counter that goes round, and what it is a multiple of.
LEMMA NextPlace ==
    ASSUME NEW e \in Nat \ {0}, NEW c \in 2..6, NEW k \in 0..5, NEW r \in 0..(e - 1),
           k * e + r < c * e, NEW one \in {e, c * e}
    PROVE  LET n == (k * e + r + 1) % (c * e)
           IN /\ n \in Nat /\ n < c * e
              /\ \/ r + 1 = e /\ \E j \in 0..5 : n = j * e
                 \/ r + 1 < e /\ n = k * e + (r + 1) /\ n % one # 0
<1> DEFINE m == k * e + r + 1
           round == c * e
<1>1. round \in Nat \ {0} /\ m \in Nat /\ m <= round
  BY DEF round
<1>2. m % round = IF m = round THEN 0 ELSE m
  <2> HIDE DEF m, round
  <2> QED
    BY <1>1
<1>3. CASE r + 1 = e
  <2>1. m = (k + 1) * e
    BY <1>3
  <2>2. CASE m = round
    BY <1>1, <1>2, <1>3, <2>2
  <2>3. CASE m # round
    <3>1. (k + 1) * e < c * e
      BY <1>1, <2>1, <2>3
    <3>2. k + 1 \in 0..5
      <4>1. CASE k = 5
        BY <3>1, <4>1
      <4>2. CASE k \in 0..4
        BY <4>2
      <4> QED
        BY <4>1, <4>2
    <3>3. \E j \in 0..5 : m = j * e
      BY <2>1, <3>2
    <3> QED
      BY <1>1, <1>2, <1>3, <2>3, <3>3
  <2> QED
    BY <2>2, <2>3
<1>4. CASE r + 1 < e
  <2>1. r + 1 \in 0..(e - 1) /\ m = k * e + (r + 1)
    BY <1>4
  <2>2. m # round
    <3>1. SUFFICES ASSUME m = round PROVE FALSE
      OBVIOUS
    <3>2. (c - k) * e = r + 1
      BY <2>1, <3>1
    <3>3. c - k \in Int /\ (c - k <= 0 \/ c - k >= 1)
      OBVIOUS
    <3>4. CASE c - k <= 0
      BY <3>2, <3>4
    <3>5. CASE c - k >= 1
      BY <1>4, <3>2, <3>5
    <3> QED
      BY <3>3, <3>4, <3>5
  <2>3. m % e = r + 1
    <3>1. (k * e + (r + 1)) % e = r + 1
      BY <2>1
    <3> QED
      BY <2>1, <3>1
  <2>4. m % round = m /\ m % e # 0 /\ m # 0
    BY <1>1, <1>2, <2>2, <2>3
  <2>5. m % one # 0
    BY <2>4
  <2> HIDE DEF m
  <2> QED
    BY <1>1, <1>2, <1>4, <2>1, <2>2, <2>4, <2>5 DEF round
<1> QED
  BY <1>3, <1>4

LEMMA XuniInitInv == Init => XuniInv
<1> SUFFICES ASSUME Init PROVE XuniInv
  OBVIOUS
<1>1. /\ minute = "closed" /\ settled = FALSE /\ rows \in 0..MaxXuni
      /\ looped = FALSE /\ counted = 0 /\ paused = FALSE /\ seq = 0
      /\ hunts = FALSE /\ full = FALSE /\ sparse = Xuni!Round
  BY DEF Init, XuniInit, Xuni!Init
<1>2. rows \in Nat
  BY <1>1, XuniParameters DEF Xuni!Parameters
<1>3. Placed
  <2>1. 0 \in 0..5 /\ 0 \in 0..(Xuni!Every - 1) /\ 0 = 0 * Xuni!Every + 0 /\ 0 <= Xuni!Round
    BY Cadence
  <2> QED
    BY <1>1, <2>1 DEF Placed, Place
<1>4. /\ settled \in BOOLEAN /\ looped \in BOOLEAN /\ paused \in BOOLEAN /\ full \in BOOLEAN
      /\ hunts \in BOOLEAN /\ ~looped /\ ~full
  BY <1>1
<1>5. /\ sparse \in Nat /\ sparse <= Xuni!Round /\ seq \in Nat /\ seq < Xuni!Round
      /\ counted \in Nat
  BY <1>1, Cadence
<1> QED
  BY <1>1, <1>2, <1>3, <1>4, <1>5 DEF XuniInv

XuniStepIsSparse == Xuni!MineBatch /\ hunts' => ~full /\ sparse + 1 >= Xuni!Every

LEMMA MineBatchIsSparse ==
    ASSUME XuniInv, Xuni!MineBatch
    PROVE  XuniInv' /\ XuniStepIsSparse
<1> DEFINE asks == Xuni!InXuniWindow /\ ~paused' /\ Xuni!Lanes > 0
<1>0. /\ looped /\ minute \in {"closed", "submit", "mine", "taper"}
      /\ counted \in Nat /\ full \in BOOLEAN /\ paused \in BOOLEAN
      /\ Xuni!Soft \in Nat /\ Xuni!Resume \in Nat
  BY Cadence DEF Xuni!MineBatch, XuniInv
<1>1. /\ looped' = FALSE /\ settled' = TRUE /\ paused' = Xuni!PausedNow
      /\ seq' = (IF asks THEN (seq + 1) % Xuni!Round ELSE seq)
      /\ hunts' = (asks /\ seq' % Xuni!OneIn = 0)
      /\ sparse' = (IF hunts' THEN 0 ELSE Xuni!MinOf(sparse + 1, Xuni!Round))
      /\ UNCHANGED <<minute, rows, counted, full>>
  BY DEF Xuni!MineBatch
<1>2. Xuni!PausedNow \in BOOLEAN /\ (asks /\ seq' % Xuni!OneIn = 0) \in BOOLEAN
  BY DEF Xuni!PausedNow
<1>3. /\ paused' \in BOOLEAN /\ (paused' <=> Xuni!PausedNow)
      /\ hunts' \in BOOLEAN /\ (hunts' <=> asks /\ seq' % Xuni!OneIn = 0)
  BY <1>1, <1>2, Zenon
<1>4. full => Xuni!PausedNow \/ Xuni!Soft = 0 \/ minute = "closed"
  <2> SUFFICES ASSUME full PROVE Xuni!PausedNow \/ Xuni!Soft = 0 \/ minute = "closed"
    OBVIOUS
  <2>1. counted >= Xuni!Soft \/ (paused /\ counted > Xuni!Resume)
    BY <1>0 DEF XuniInv
  <2>2. counted > 0 => Xuni!InXuniWindow \/ minute = "closed"
    BY <1>0 DEF XuniInv
  <2>3. counted > 0 \/ Xuni!Soft = 0
    BY <1>0, <2>1
  <2> QED
    BY <2>1, <2>2, <2>3 DEF Xuni!PausedNow
<1>5. full /\ Xuni!Soft = 0 /\ Xuni!InXuniWindow => Xuni!PausedNow
  BY <1>0 DEF Xuni!PausedNow
<1>6. hunts' => ~full
  BY <1>3, <1>4, <1>5 DEF Xuni!InXuniWindow
<1>7. PICK c \in 2..6, k \in 0..5, r \in 0..(Xuni!Every - 1) :
          Xuni!Round = c * Xuni!Every /\ seq = k * Xuni!Every + r /\ r <= sparse
  BY Cadence DEF XuniInv, Placed, Place
<1> DEFINE e == Xuni!Every
           round == Xuni!Round
           one == Xuni!OneIn
<1>8. /\ e \in Nat \ {0} /\ round \in Nat \ {0} /\ e <= round /\ round = c * e
      /\ one \in {e, c * e} /\ sparse \in Nat /\ sparse <= round
      /\ seq \in Nat /\ seq < round
  BY <1>7, Cadence DEF XuniInv
<1>9. sparse' \in Nat /\ sparse' <= round
      /\ (hunts' => sparse' = 0) /\ (~hunts' => sparse' = Xuni!MinOf(sparse + 1, round))
  BY <1>1, <1>8 DEF Xuni!MinOf
\* Without a XUNI batch the counter stays, and the batches since grow.
<1>10. CASE ~asks
  <2>1. ~hunts' /\ seq' = seq /\ r <= sparse'
    BY <1>1, <1>3, <1>7, <1>8, <1>9, <1>10 DEF Xuni!MinOf
  <2>2. Placed'
    <3>1. k \in 0..5 /\ r \in 0..(e - 1) /\ seq' = k * e + r /\ r <= sparse'
      BY <1>7, <2>1
    <3> QED
      BY <3>1 DEF Placed, Place, Xuni!Every
  <2>3. seq' \in Nat /\ seq' < round
    BY <1>8, <2>1
  <2> QED
    BY <1>0, <1>1, <1>3, <1>4, <1>9, <2>1, <2>2, <2>3 DEF XuniInv, XuniStepIsSparse,
       Xuni!Round, Xuni!Every, Xuni!InXuniWindow
<1>11. CASE asks
  <2>1. seq' = (k * e + r + 1) % (c * e) /\ k * e + r < c * e
    BY <1>1, <1>7, <1>8, <1>11
  <2> DEFINE Whole  == \E j \in 0..5 : seq' = j * e
             Beyond == seq' = k * e + (r + 1)
             Due    == seq' % one = 0
  <2>2. /\ seq' \in Nat /\ seq' < c * e
        /\ (r + 1 = e /\ Whole) \/ (r + 1 < e /\ Beyond /\ ~Due)
    <3> DEFINE n == (k * e + r + 1) % (c * e)
    <3>0. e \in Nat \ {0} /\ r \in 0..(e - 1) /\ k * e + r < c * e /\ one \in {e, c * e}
      BY <1>7, <1>8, <2>1
    <3> HIDE DEF e, one
    <3>1. /\ n \in Nat /\ n < c * e
          /\ \/ r + 1 = e /\ \E j \in 0..5 : n = j * e
             \/ r + 1 < e /\ n = k * e + (r + 1) /\ n % one # 0
      BY <3>0, NextPlace, Zenon
    <3>2. seq' = n
      BY <2>1
    <3> HIDE DEF n
    <3> QED
      BY <3>1, <3>2
  <2>3. hunts' => Due
    BY <1>3
  <2> HIDE DEF Whole, Beyond, Due
  <2>4. (r + 1 = e => Whole) /\ (r + 1 < e => Beyond /\ ~Due) /\ (r + 1 = e \/ r + 1 < e)
    BY <1>8, <2>2
  <2>5. hunts' => r + 1 = e /\ sparse + 1 >= e
    BY <1>7, <1>8, <2>3, <2>4
  <2>6. Placed'
    <3>1. CASE r + 1 = e
      <4>1. PICK j \in 0..5 : seq' = j * e
        BY <2>4, <3>1 DEF Whole
      <4>2. 0 \in 0..(e - 1) /\ seq' = j * e + 0 /\ 0 <= sparse'
        BY <1>8, <1>9, <4>1
      <4> QED
        BY <4>1, <4>2 DEF Placed, Place, Xuni!Every
    <3>2. CASE r + 1 < e
      <4>1. ~hunts' /\ r + 1 \in 0..(e - 1) /\ r + 1 <= sparse'
        BY <1>7, <1>8, <1>9, <2>5, <3>2 DEF Xuni!MinOf
      <4>2. seq' = k * e + (r + 1)
        BY <2>4, <3>2 DEF Beyond
      <4> QED
        BY <4>1, <4>2 DEF Placed, Place, Xuni!Every
    <3> QED
      BY <2>4, <3>1, <3>2
  <2> QED
    BY <1>0, <1>1, <1>3, <1>4, <1>6, <1>8, <1>9, <2>2, <2>5, <2>6
       DEF XuniInv, XuniStepIsSparse, Xuni!Round, Xuni!Every, Xuni!InXuniWindow
<1> QED
  BY <1>10, <1>11

LEMMA XuniKeepsInv ==
    ASSUME XuniInv, [Xuni!Next]_X
    PROVE  XuniInv' /\ [XuniStepIsSparse]_X
<1>0. Xuni!Soft \in Nat /\ Xuni!Resume \in Nat
  BY Cadence
<1> USE DEF Xuni!InXuniWindow
<1>1. CASE Xuni!Tick
  <2>1. /\ settled /\ settled' = FALSE
        /\ UNCHANGED <<rows, looped, counted, paused, seq, hunts, lanes, full, sparse>>
    BY <1>1 DEF Xuni!Tick
  <2>2. \/ minute = "closed" /\ minute' = "submit"
        \/ minute = "submit" /\ minute' = "mine"
        \/ minute = "mine" /\ minute' = "taper"
        \/ minute = "taper" /\ minute' = "closed"
    <3>1. PICK i \in 1..4 : minute = Xuni!Minute[i] /\ minute' = Xuni!Minute[(i % 4) + 1]
      BY <1>1 DEF Xuni!Tick
    <3>2. i = 1 \/ i = 2 \/ i = 3 \/ i = 4
      OBVIOUS
    <3> QED
      BY <3>1, <3>2 DEF Xuni!Minute
  <2>3. settled' \in BOOLEAN /\ ~settled'
    BY <2>1
  <2>4. Placed'
    BY <2>1 DEF XuniInv, Placed, Place, Xuni!Every
  <2>5. XuniInv'
    BY <1>0, <2>1, <2>2, <2>3, <2>4 DEF XuniInv, Xuni!Soft, Xuni!Resume, Xuni!Round, Xuni!Every
  <2> QED
    BY <2>1, <2>5 DEF XuniStepIsSparse, Xuni!MineBatch
<1>2. CASE Xuni!QueueMoves
  <2>1. /\ rows' \in Nat
        /\ UNCHANGED <<minute, settled, looped, counted, paused, seq, hunts, lanes, full, sparse>>
    BY <1>2 DEF Xuni!QueueMoves, XuniInv
  <2>2. Placed'
    BY <2>1 DEF XuniInv, Placed, Place, Xuni!Every
  <2>3. XuniInv'
    BY <2>1, <2>2 DEF XuniInv, Xuni!Soft, Xuni!Resume, Xuni!Round, Xuni!Every
  <2>4. ~Xuni!MineBatch
    BY <2>1 DEF Xuni!MineBatch, XuniInv
  <2> QED
    BY <2>3, <2>4 DEF XuniStepIsSparse
<1>3. CASE Xuni!CountQueue
  <2>1. /\ ~looped /\ looped' = TRUE
        /\ counted' = (IF minute \in {"mine", "taper"} THEN rows ELSE 0)
        /\ full' = (counted' >= Xuni!Soft \/ (full /\ counted' > Xuni!Resume))
        /\ UNCHANGED <<minute, settled, rows, paused, seq, hunts, lanes, sparse>>
    BY <1>3 DEF Xuni!CountQueue
  <2>2. counted' \in Nat /\ (minute \notin {"mine", "taper"} => counted' = 0)
    BY <2>1 DEF XuniInv
  <2>3. (counted' >= Xuni!Soft \/ (full /\ counted' > Xuni!Resume)) \in BOOLEAN
    OBVIOUS
  <2>4. /\ full' \in BOOLEAN /\ looped' \in BOOLEAN /\ looped'
        /\ full' <=> counted' >= Xuni!Soft \/ (full /\ counted' > Xuni!Resume)
    BY <2>1, <2>3, Zenon
  <2>5. full' => counted' >= Xuni!Soft \/ (paused /\ counted' > Xuni!Resume)
    <3>1. full /\ counted' > Xuni!Resume => paused \/ Xuni!Soft = 0
      BY <1>0, <2>1, <2>2 DEF XuniInv
    <3> QED
      BY <1>0, <2>2, <2>4, <3>1
  <2>6. Placed'
    BY <2>1 DEF XuniInv, Placed, Place, Xuni!Every
  <2>7. XuniInv'
    BY <2>1, <2>2, <2>4, <2>5, <2>6
       DEF XuniInv, Xuni!Soft, Xuni!Resume, Xuni!Round, Xuni!Every
  <2>8. ~Xuni!MineBatch
    BY <2>1 DEF Xuni!MineBatch
  <2> QED
    BY <2>7, <2>8 DEF XuniStepIsSparse
<1>4. CASE Xuni!MineBatch
  BY <1>4, MineBatchIsSparse
<1>5. CASE UNCHANGED X
  <2>1. UNCHANGED <<minute, settled, rows, looped, counted, paused, seq, hunts, full, sparse>>
    BY <1>5 DEF X
  <2>2. Placed'
    BY <2>1 DEF XuniInv, Placed, Place, Xuni!Every
  <2> QED
    BY <1>5, <2>1, <2>2 DEF XuniInv, Xuni!Soft, Xuni!Resume, Xuni!Round, Xuni!Every
<1> QED
  BY <1>1, <1>2, <1>3, <1>4, <1>5 DEF Xuni!Next

\* Hunting XUNI does not outrun the flush, and no two batches hunt within fewer
\* than xuni_every_n_batches, for any caps, marks and cadence of the settings
\* (compute_allow_xuni_base in cuda_engine.cpp, and the count of the queue in the
\* loop of supervisor.cpp).
THEOREM HuntingIsSparse == FairSpec => HuntsSparsely
<1>1. XuniInv /\ [Next]_vars => XuniInv'
  BY PartsApart, XuniKeepsInv
<1>2. XuniInv /\ [Next]_vars => [XuniStepIsSparse]_(Xuni!vars)
  BY PartsApart, XuniKeepsInv DEF X, Xuni!vars
<1> QED
  BY <1>1, <1>2, XuniInitInv, PTL
     DEF FairSpec, HuntsSparsely, Xuni!HuntsSparsely, XuniStepIsSparse

-----------------------------------------------------------------------------
(* VerifyGate                                                              *)

Slack == Verify!Longest(ProbeTtl, DeferPause)

\* The bag is kept waiting only while /verify is up: a probe that says otherwise
\* is at least as old as the wait, and what is left of the pause after a change of
\* m= and the wait together are no longer than that pause was.  Once the worker has
\* had its turn in a second, one of the two is what it waits for.
VerifyInv ==
    /\ probe_age \in Nat /\ probe_age <= ProbeTtl
    /\ defer \in Nat /\ defer <= DeferPause /\ frozen \in Nat
    /\ net_ok \in BOOLEAN /\ alive \in BOOLEAN /\ turned \in BOOLEAN
    /\ frozen > 0 => Verify!Up /\ matches
    /\ Verify!Up /\ ~alive => probe_age >= ProbeTtl \/ probe_age >= frozen
    /\ defer > 0 => frozen + defer <= DeferPause
    /\ turned => frozen < Slack \/ frozen = 0
    /\ FlushNotFrozen

\* What the proofs need of the two pauses.
LEMMA SlackIsLonger ==
    /\ ProbeTtl \in Nat /\ DeferPause \in Nat /\ Slack \in Nat
    /\ ProbeTtl <= Slack /\ DeferPause <= Slack
    /\ \A n \in Nat : n <= Verify!Longest(1, Slack) <=> n <= 1 \/ n <= Slack
    /\ Verify!Up \in BOOLEAN
<1>1. ProbeTtl \in Nat /\ DeferPause \in Nat
  BY VerifyParameters DEF Verify!Parameters
<1>2. Verify!Up \in BOOLEAN
  BY DEF Verify!Up, Verify!A!ProbeAnswered
<1> QED
  BY <1>1, <1>2 DEF Slack, Verify!Longest

LEMMA VerifyInitInv == Init => VerifyInv
<1> SUFFICES ASSUME Init PROVE VerifyInv
  OBVIOUS
<1>1. /\ net_ok = FALSE /\ alive = TRUE /\ probe_age = ProbeTtl
      /\ defer = 0 /\ turned = FALSE /\ frozen = 0
  BY DEF Init, VerifyInit, Verify!Init
<1>2. /\ net_ok \in BOOLEAN /\ alive \in BOOLEAN /\ turned \in BOOLEAN /\ alive
  BY <1>1
<1>3. FlushNotFrozen
  BY <1>1, SlackIsLonger DEF FlushNotFrozen, Verify!FlushNotFrozen, Slack
<1> QED
  BY <1>1, <1>2, <1>3, SlackIsLonger DEF VerifyInv

\* verify_ready_to_push: what it keeps, and what it may refuse.
LEMMA ReadyKeeps ==
    ASSUME VerifyInv, verify' = verify, NEW ready \in BOOLEAN, Verify!VerifyReady(ready)
    PROVE  /\ Verify!Up' = Verify!Up
           /\ probe_age' \in Nat /\ probe_age' <= ProbeTtl /\ alive' \in BOOLEAN
           /\ Verify!Up /\ ~alive' => probe_age' >= ProbeTtl \/ probe_age' >= frozen
           /\ ~ready => ~Verify!Up \/ frozen < ProbeTtl
<1>1. Verify!Up' = Verify!Up
  BY DEF Verify!Up, Verify!A!ProbeAnswered
<1>2. CASE net_ok \/ probe_age < ProbeTtl
  <2>1. UNCHANGED <<alive, probe_age>> /\ ready = (net_ok \/ alive)
    BY <1>2 DEF Verify!VerifyReady
  <2>2. ~ready => ~net_ok /\ ~alive
    BY <2>1 DEF VerifyInv
  <2> QED
    BY <1>1, <1>2, <2>1, <2>2, SlackIsLonger DEF VerifyInv
<1>3. CASE ~(net_ok \/ probe_age < ProbeTtl)
  <2>1. ready = Verify!Up /\ alive' = Verify!Up /\ probe_age' = 0
    BY <1>3 DEF Verify!VerifyReady
  <2>2. alive' \in BOOLEAN /\ (alive' <=> Verify!Up) /\ (ready <=> Verify!Up)
    BY <2>1, SlackIsLonger
  <2> QED
    BY <1>1, <2>1, <2>2, SlackIsLonger
<1> QED
  BY <1>2, <1>3

LEMMA VerifyKeepsInv ==
    ASSUME VerifyInv, [Verify!Next]_Y
    PROVE  VerifyInv'
<1>0. ProbeTtl \in Nat /\ DeferPause \in Nat /\ Slack \in Nat /\ ProbeTtl <= Slack
      /\ DeferPause <= Slack /\ Slack' = Slack
  BY SlackIsLonger DEF Slack
<1>b. /\ FlushNotFrozen <=> frozen <= Verify!Longest(1, Slack)
      /\ FlushNotFrozen' <=> frozen' <= Verify!Longest(1, Slack)
  BY DEF FlushNotFrozen, Verify!FlushNotFrozen, Slack
<1>u. verify' = verify => Verify!Up' = Verify!Up
  BY DEF Verify!Up, Verify!A!ProbeAnswered
<1>1. CASE Verify!LiveSubmit
  <2>1. PICK ready \in BOOLEAN :
            /\ Verify!VerifyReady(ready)
            /\ \/ UNCHANGED <<net_ok, backoff>>
               \/ ready /\ Verify!Up /\ Verify!Accepted
               \/ ready /\ \E status \in {0, 500} : Verify!TransportFailure(status)
    BY <1>1 DEF Verify!LiveSubmit
  <2>2. UNCHANGED <<hyb, verify, matches, draining, defer, turned, frozen>>
    BY <1>1 DEF Verify!LiveSubmit
  <2>3. net_ok' \in BOOLEAN
    BY <2>1 DEF Verify!Accepted, Verify!TransportFailure, VerifyInv
  <2>4. /\ Verify!Up' = Verify!Up
        /\ probe_age' \in Nat /\ probe_age' <= ProbeTtl /\ alive' \in BOOLEAN
        /\ Verify!Up /\ ~alive' => probe_age' >= ProbeTtl \/ probe_age' >= frozen
    BY <2>1, <2>2, ReadyKeeps
  <2> QED
    BY <1>0, <1>b, <2>2, <2>3, <2>4 DEF VerifyInv
<1>2. CASE Verify!FlushTurn
  <2>1. PICK ready \in BOOLEAN :
            /\ Verify!VerifyReady(ready)
            /\ IF ready /\ (draining \/ matches \/ Verify!FlushAllowed) /\ (hyb \/ defer = 0)
               THEN /\ frozen' = IF matches THEN 0 ELSE frozen
                    /\ net_ok' = TRUE \/ UNCHANGED net_ok
               ELSE UNCHANGED <<net_ok, backoff, frozen>>
    BY <1>2 DEF Verify!FlushTurn, Verify!Accepted
  <2>2. turned' = TRUE /\ UNCHANGED <<hyb, verify, matches, draining, defer>>
    BY <1>2 DEF Verify!FlushTurn
  <2>3. /\ Verify!Up' = Verify!Up
        /\ probe_age' \in Nat /\ probe_age' <= ProbeTtl /\ alive' \in BOOLEAN
        /\ Verify!Up /\ ~alive' => probe_age' >= ProbeTtl \/ probe_age' >= frozen
        /\ ~ready => ~Verify!Up \/ frozen < ProbeTtl
    BY <2>1, <2>2, ReadyKeeps
  <2>4. net_ok' \in BOOLEAN /\ turned' \in BOOLEAN /\ frozen' \in {0, frozen}
    BY <2>1, <2>2 DEF VerifyInv
  <2>5. frozen' = 0 \/ frozen' < Slack
    <3>1. CASE frozen = 0 \/ frozen' = 0
      BY <2>4, <3>1
    <3>2. CASE frozen > 0 /\ frozen' = frozen
      <4>1. Verify!Up /\ matches /\ frozen \in Nat /\ defer \in Nat
        BY <3>2 DEF VerifyInv
      <4>2. ~ready \/ defer > 0
        BY <2>1, <3>2, <4>1
      <4>3. defer > 0 => frozen < DeferPause
        BY <1>0, <4>1 DEF VerifyInv
      <4> QED
        BY <1>0, <2>3, <3>2, <4>1, <4>2, <4>3
    <3> QED
      BY <2>4, <3>1, <3>2 DEF VerifyInv
  <2> QED
    <3>1. FlushNotFrozen'
      BY <1>b, <2>4, SlackIsLonger DEF VerifyInv
    <3>2. frozen' \in Nat /\ frozen' <= frozen /\ frozen \in Nat
      BY <2>4 DEF VerifyInv
    <3>3. Verify!Up' /\ ~alive' => probe_age' >= ProbeTtl \/ probe_age' >= frozen'
      BY <1>0, <2>3, <3>2
    <3>4. frozen' > 0 => Verify!Up' /\ matches'
      <4>1. frozen' > 0 => frozen > 0
        BY <3>2
      <4> QED
        BY <2>2, <2>3, <4>1 DEF VerifyInv
    <3>5. defer' \in Nat /\ defer' <= DeferPause /\ (defer' > 0 => frozen' + defer' <= DeferPause)
      <4>1. defer' = defer
        BY <2>2
      <4>2. defer \in Nat /\ defer <= DeferPause /\ (defer > 0 => frozen + defer <= DeferPause)
        BY DEF VerifyInv
      <4>3. CASE frozen' = frozen
        BY <4>1, <4>2, <4>3
      <4>4. CASE frozen' = 0
        BY <1>0, <4>1, <4>2, <4>4
      <4> QED
        BY <2>4, <4>3, <4>4
    <3>6. turned' => frozen' < Slack' \/ frozen' = 0
      BY <1>0, <2>5
    <3> QED
      BY <2>3, <2>4, <3>1, <3>2, <3>3, <3>4, <3>5, <3>6 DEF VerifyInv
<1>3. CASE Verify!PollFolded
  <2>1. /\ net_ok' \in {TRUE, FALSE}
        /\ UNCHANGED <<hyb, verify, draining, alive, probe_age, turned>>
        /\ \/ UNCHANGED <<matches, defer, frozen>>
           \/ defer' = DeferPause /\ frozen' = 0
    BY <1>3 DEF Verify!PollFolded
  <2>2. FlushNotFrozen' /\ Verify!Up' = Verify!Up
    BY <1>b, <1>u, <2>1, SlackIsLonger DEF VerifyInv
  <2>3. CASE UNCHANGED <<matches, defer, frozen>>
    BY <1>0, <2>1, <2>2, <2>3 DEF VerifyInv
  <2>4. CASE defer' = DeferPause /\ frozen' = 0
    <3>1. /\ net_ok' \in BOOLEAN /\ alive' \in BOOLEAN /\ turned' \in BOOLEAN
          /\ probe_age' \in Nat /\ probe_age' <= ProbeTtl
      BY <2>1 DEF VerifyInv
    <3>2. /\ defer' \in Nat /\ defer' <= DeferPause /\ frozen' \in Nat
          /\ frozen' + defer' <= DeferPause /\ probe_age' >= frozen' /\ ~(frozen' > 0)
      BY <1>0, <2>4, <3>1
    <3> QED
      BY <2>2, <2>4, <3>1, <3>2 DEF VerifyInv
  <2> QED
    BY <2>1, <2>3, <2>4
<1>4. CASE Verify!DrainMoves
  <2>1. UNCHANGED <<verify, matches, net_ok, alive, probe_age, defer, turned, frozen>>
    BY <1>4 DEF Verify!DrainMoves, Verify!gate
  <2> QED
    BY <1>0, <1>b, <1>u, <2>1 DEF VerifyInv
<1>5. CASE Verify!VerifyMoves
  <2>1. frozen' = 0 /\ UNCHANGED <<matches, net_ok, alive, probe_age, defer, turned>>
    BY <1>5 DEF Verify!VerifyMoves, Verify!gate
  <2> QED
    BY <1>0, <1>b, <2>1, SlackIsLonger DEF VerifyInv
<1>6. CASE Verify!Second
  <2>1. /\ turned /\ turned' = FALSE /\ UNCHANGED <<verify, matches, net_ok, alive>>
        /\ probe_age' = (IF probe_age < ProbeTtl THEN probe_age + 1 ELSE ProbeTtl)
        /\ defer' = (IF defer > 0 THEN defer - 1 ELSE 0)
        /\ frozen' = (IF Verify!Up /\ matches THEN frozen + 1 ELSE 0)
    BY <1>6 DEF Verify!Second, Verify!Fewer
  <2>2. turned' \in BOOLEAN /\ ~turned'
    BY <2>1
  <2>3. FlushNotFrozen'
    BY <1>0, <1>b, <2>1, SlackIsLonger DEF VerifyInv
  <2> QED
    BY <1>0, <1>u, <2>1, <2>2, <2>3 DEF VerifyInv
<1>7. CASE UNCHANGED Y
  BY <1>0, <1>b, <1>u, <1>7 DEF Y, VerifyInv
<1> QED
  BY <1>1, <1>2, <1>3, <1>4, <1>5, <1>6, <1>7 DEF Verify!Next

\* "GET /difficulty DOWN/STALE must not freeze POST /verify unless the /verify
\* probe just said the worker is down" (supervisor.cpp:216), with any pauses: a bag
\* at the network's m= waits for a live /verify no longer than the life of a probe
\* or the pause after a change of m=.
THEOREM FlushIsNotFrozen == FairSpec => []FlushNotFrozen
<1>1. VerifyInv => FlushNotFrozen
  BY DEF VerifyInv
<1>2. VerifyInv /\ [Next]_vars => VerifyInv'
  BY PartsApart, VerifyKeepsInv
<1> QED
  BY <1>1, <1>2, VerifyInitInv, PTL DEF FairSpec

-----------------------------------------------------------------------------
(* FlushRotation                                                           *)

\* The queue is a finite set of rows with ids of their own.
Rows(U) == /\ U \subseteq Rotation!Row /\ IsFiniteSet(U)
           /\ \A r, p \in U : r.id = p.id => r = p

RotationInv == Rows(pending) /\ skip \in Nat /\ window \in BOOLEAN

\* The first n in the order of some key: as many as can be, before all others.
LEMMA FirstOfAll ==
    ASSUME NEW U, IsFiniteSet(U), NEW key \in [U -> Int],
           \A x, y \in U : key[x] = key[y] => x = y, NEW n \in Nat
    PROVE  LET Earlier(x) == Cardinality({y \in U : key[y] < key[x]})
               Chosen == {x \in U : Earlier(x) < n}
           IN /\ Chosen \subseteq U /\ IsFiniteSet(Chosen)
              /\ Cardinality(Chosen) = IF n < Cardinality(U) THEN n ELSE Cardinality(U)
              /\ \A x \in Chosen, y \in U \ Chosen : key[x] < key[y]
              /\ U # {} => \E x \in U : \A y \in U \ {x} : key[y] < key[x]
<1> DEFINE c == Cardinality(U)
           Before(x) == {y \in U : key[y] < key[x]}
           place == [x \in U |-> Cardinality(Before(x))]
           Places == {place[x] : x \in U}
           Chosen == {x \in U : place[x] < n}
           m == IF n < c THEN n ELSE c
<1>1. c \in Nat
  BY FS_CardinalityType
<1>0. /\ \A x \in U : place[x] = Cardinality(Before(x))
      /\ place \in [U -> {place[x] : x \in U}]
  OBVIOUS
<1> HIDE DEF c, place
<1>2. \A x \in U : IsFiniteSet(Before(x)) /\ place[x] \in Nat /\ place[x] < c
  <2> TAKE x \in U
  <2>1. Before(x) \in SUBSET U /\ x \notin Before(x)
    OBVIOUS
  <2>2. /\ IsFiniteSet(Before(x)) /\ Cardinality(Before(x)) <= c
        /\ c = Cardinality(Before(x)) => U = Before(x)
    BY <2>1, FS_Subset DEF c
  <2>3. Cardinality(Before(x)) \in Nat
    BY <2>2, FS_CardinalityType
  <2> QED
    BY <1>0, <1>1, <2>1, <2>2, <2>3
<1>11. place \in [U -> Nat] /\ \A x \in U : place[x] < c
  BY <1>0, <1>2
<1>3. \A x, y \in U : key[x] < key[y] => place[x] < place[y]
  <2> SUFFICES ASSUME NEW x \in U, NEW y \in U, key[x] < key[y] PROVE place[x] < place[y]
    OBVIOUS
  <2>1. Before(x) \in SUBSET Before(y) /\ x \in Before(y) /\ x \notin Before(x)
    OBVIOUS
  <2>2. /\ Cardinality(Before(x)) <= Cardinality(Before(y))
        /\ Cardinality(Before(y)) = Cardinality(Before(x)) => Before(y) = Before(x)
    BY <1>2, <2>1, FS_Subset
  <2>3. place[x] = Cardinality(Before(x)) /\ place[y] = Cardinality(Before(y))
    BY <1>0
  <2> HIDE DEF Before
  <2> QED
    BY <1>2, <2>1, <2>2, <2>3
<1>4. \A x, y \in U : place[x] = place[y] => x = y
  <2> SUFFICES ASSUME NEW x \in U, NEW y \in U, x # y PROVE place[x] # place[y]
    OBVIOUS
  <2>1. key[x] < key[y] \/ key[y] < key[x]
    OBVIOUS
  <2>2. place[x] \in Nat /\ place[y] \in Nat
    BY <1>11
  <2>3. place[x] < place[y] \/ place[y] < place[x]
    BY <1>3, <2>1
  <2> QED
    BY <2>2, <2>3
<1>5. Places = 0..(c - 1)
  <2>1. place \in Bijection(U, Places)
    BY <1>0, <1>4 DEF Bijection, Injection, Surjection, IsInjective
  <2>2. IsFiniteSet(Places) /\ Cardinality(Places) = c
    BY <2>1, FS_Bijection DEF ExistsBijection, c
  <2>3. Places \in SUBSET (0..(c - 1))
    BY <1>1, <1>11
  <2>4. IsFiniteSet(0..(c - 1)) /\ Cardinality(0..(c - 1)) = c
    BY <1>1, FS_Interval
  <2> QED
    BY <2>2, <2>3, <2>4, FS_Subset
<1>6. IsFiniteSet(Chosen) /\ Cardinality(Chosen) = m
  <2> DEFINE Numbers == 0..(m - 1)
             f == [x \in Chosen |-> place[x]]
  <2>1. Chosen \in SUBSET U /\ IsFiniteSet(Chosen)
    BY FS_Subset
  <2>2. m \in Nat
    BY <1>1
  <2>3. f \in [Chosen -> Numbers]
    BY <1>1, <1>11
  <2>4. \A j \in Numbers : \E x \in Chosen : f[x] = j
    <3> TAKE j \in Numbers
    <3>1. j \in 0..(c - 1) /\ j < n
      BY <1>1
    <3>2. j \in Places
      BY <3>1, <1>5
    <3> QED
      BY <3>1, <3>2
  <2>5. f \in Bijection(Chosen, Numbers)
    <3>1. \A x, y \in Chosen : f[x] = f[y] => x = y
      BY <1>4
    <3> HIDE DEF f, Chosen, Numbers
    <3> QED
      BY <2>3, <2>4, <3>1 DEF Bijection, Injection, Surjection, IsInjective
  <2>6. Cardinality(Numbers) = Cardinality(Chosen)
    <3> HIDE DEF f, Chosen, Numbers
    <3> QED BY <2>1, <2>5, FS_Bijection DEF ExistsBijection
  <2>7. Cardinality(Numbers) = m
    <3>1. 0 \in Int /\ m - 1 \in Int /\ (0 > m - 1 <=> m = 0) /\ (m - 1) - 0 + 1 = m
      BY <2>2
    <3> HIDE DEF m
    <3> QED BY <3>1, FS_Interval
  <2> QED
    BY <2>1, <2>6, <2>7
<1>7. \A x \in Chosen, y \in U \ Chosen : key[x] < key[y]
  <2> SUFFICES ASSUME NEW x \in Chosen, NEW y \in U \ Chosen PROVE key[x] < key[y]
    OBVIOUS
  <2>1. place[x] < place[y] /\ place[x] \in Nat /\ place[y] \in Nat
    BY <1>11
  <2>2. key[x] \in Int /\ key[y] \in Int /\ x # y
    OBVIOUS
  <2> QED
    BY <1>3, <2>1, <2>2
<1>8. U # {} => \E x \in U : \A y \in U \ {x} : key[y] < key[x]
  <2> SUFFICES ASSUME U # {} PROVE \E x \in U : \A y \in U \ {x} : key[y] < key[x]
    OBVIOUS
  <2>1. PICK x \in U : place[x] = c - 1
    <3>1. PICK z \in U : TRUE
      OBVIOUS
    <3>2. place[z] \in Nat /\ place[z] < c
      BY <1>11
    <3>3. c - 1 \in 0..(c - 1)
      BY <1>1, <3>2
    <3>4. c - 1 \in Places
      BY <1>5, <3>3
    <3> QED
      BY <3>4
  <2>2. \A y \in U \ {x} : key[y] < key[x]
    <3> TAKE y \in U \ {x}
    <3>1. ~(key[x] < key[y])
      BY <1>1, <1>11, <1>3, <2>1
    <3> QED
      BY <3>1
  <2> QED
    BY <2>2
<1>9. Chosen = {x \in U : Cardinality({y \in U : key[y] < key[x]}) < n}
  BY <1>0
<1>10. Chosen \subseteq U
  OBVIOUS
<1> HIDE DEF Chosen
<1> QED
  BY <1>6, <1>7, <1>8, <1>9, <1>10 DEF c

LEMMA FirstByAge ==
    ASSUME NEW U, Rows(U), NEW n \in Nat
    PROVE  LET Chosen == Rotation!First(U, n, Rotation!Older)
           IN /\ Chosen \subseteq U /\ IsFiniteSet(Chosen)
              /\ Cardinality(Chosen) = IF n < Cardinality(U) THEN n ELSE Cardinality(U)
              /\ \A r \in Chosen, p \in U \ Chosen : r.id < p.id
<1> DEFINE key == [r \in U |-> r.id]
           Chosen == {r \in U : Cardinality({p \in U : key[p] < key[r]}) < n}
<1>1. \A r \in U : r.id \in Nat
  BY RotationParameters DEF Rows, Rotation!Row, Rotation!Parameters
<1>2. key \in [U -> Int] /\ \A r, p \in U : key[r] = key[p] => r = p
  BY <1>1 DEF Rows
<1>3. \A r \in U : {p \in U : key[p] < key[r]} = {p \in U : p.id < r.id}
  OBVIOUS
<1>4. Rotation!First(U, n, Rotation!Older) = Chosen
  BY <1>3 DEF Rotation!First, Rotation!Older, Rotation!Cardinality, Cardinality
<1>5. \A r, p \in U : key[r] < key[p] <=> r.id < p.id
  OBVIOUS
<1>6. /\ Chosen \subseteq U /\ IsFiniteSet(Chosen)
      /\ Cardinality(Chosen) = IF n < Cardinality(U) THEN n ELSE Cardinality(U)
      /\ \A r \in Chosen, p \in U \ Chosen : key[r] < key[p]
  <2>1. IsFiniteSet(U)
    BY DEF Rows
  <2> HIDE DEF key
  <2> QED
    BY <1>2, <2>1, FirstOfAll
<1> HIDE DEF key, Chosen
<1> QED
  BY <1>4, <1>5, <1>6

LEMMA FirstByFlush ==
    ASSUME NEW U, Rows(U), NEW n \in Nat
    PROVE  LET Chosen == Rotation!First(U, n, Rotation!FlushesBefore)
           IN /\ Chosen \subseteq U /\ IsFiniteSet(Chosen)
              /\ Cardinality(Chosen) = IF n < Cardinality(U) THEN n ELSE Cardinality(U)
              /\ \A r \in Chosen, p \in U \ Chosen : Rotation!FlushesBefore(r, p)
              /\ U # {} => \E r \in U : \A p \in U \ {r} : Rotation!FlushesBefore(p, r)
<1> DEFINE Prio(r) == Rotation!FlushPriority[r.kind]
           key == [r \in U |-> Prio(r) * (N + 1) + r.id]
           Chosen == {r \in U : Cardinality({p \in U : key[p] < key[r]}) < n}
<1>0. N \in Nat /\ Kinds \subseteq {"XNM", "XBLK", "XUNI"}
  BY RotationParameters DEF Rotation!Parameters
<1>1. \A r \in U : r.id \in 1..N /\ Prio(r) \in {0, 1, 2}
  <2> TAKE r \in U
  <2>1. r.id \in 1..N /\ (r.kind = "XNM" \/ r.kind = "XBLK" \/ r.kind = "XUNI")
    BY <1>0 DEF Rows, Rotation!Row
  <2> QED
    BY <2>1 DEF Rotation!FlushPriority
<1>2. \A r, p \in U : key[r] < key[p] <=> Rotation!FlushesBefore(r, p)
  <2> SUFFICES ASSUME NEW r \in U, NEW p \in U
               PROVE key[r] < key[p] <=> Rotation!FlushesBefore(r, p)
    OBVIOUS
  <2>1. key[r] = Prio(r) * (N + 1) + r.id /\ key[p] = Prio(p) * (N + 1) + p.id
    OBVIOUS
  <2>2. /\ Prio(r) = 0 \/ Prio(r) = 1 \/ Prio(r) = 2
        /\ Prio(p) = 0 \/ Prio(p) = 1 \/ Prio(p) = 2
        /\ r.id \in 1..N /\ p.id \in 1..N
    BY <1>1
  <2>3. Rotation!FlushesBefore(r, p) <=> Prio(r) < Prio(p) \/ (Prio(r) = Prio(p) /\ r.id < p.id)
    BY DEF Rotation!FlushesBefore, Rotation!Older
  <2> HIDE DEF Prio, key
  <2> QED
    BY <1>0, <2>1, <2>2, <2>3
<1>3. key \in [U -> Int] /\ \A r, p \in U : key[r] = key[p] => r = p
  <2>1. \A r \in U : Prio(r) * (N + 1) + r.id \in Int
    BY <1>0, <1>1
  <2>2. ASSUME NEW r \in U, NEW p \in U, key[r] = key[p] PROVE r = p
    <3>1. Prio(r) * (N + 1) + r.id = Prio(p) * (N + 1) + p.id
      BY <2>2
    <3>2. /\ Prio(r) = 0 \/ Prio(r) = 1 \/ Prio(r) = 2
          /\ Prio(p) = 0 \/ Prio(p) = 1 \/ Prio(p) = 2
          /\ r.id \in 1..N /\ p.id \in 1..N
      BY <1>1
    <3>3. r.id = p.id
      <4> HIDE DEF Prio
      <4> QED BY <1>0, <3>1, <3>2
    <3> QED
      BY <3>3 DEF Rows
  <2> QED
    BY <2>1, <2>2
<1>4. Rotation!First(U, n, Rotation!FlushesBefore) = Chosen
  <2>1. \A r \in U : {p \in U : key[p] < key[r]} = {p \in U : Rotation!FlushesBefore(p, r)}
    <3> HIDE DEF key
    <3> QED BY <1>2
  <2> HIDE DEF key
  <2> QED
    BY <2>1 DEF Rotation!First, Rotation!Cardinality, Cardinality
<1>5. /\ Chosen \subseteq U /\ IsFiniteSet(Chosen)
      /\ Cardinality(Chosen) = IF n < Cardinality(U) THEN n ELSE Cardinality(U)
      /\ \A r \in Chosen, p \in U \ Chosen : key[r] < key[p]
      /\ U # {} => \E r \in U : \A p \in U \ {r} : key[p] < key[r]
  <2> HIDE DEF key
  <2> QED
    BY <1>3, FirstOfAll DEF Rows
<1> HIDE DEF key, Chosen
<1> QED
  BY <1>2, <1>4, <1>5

\* Two finite sets with nothing in common are counted one after the other.
LEMMA Apart ==
    ASSUME NEW U, IsFiniteSet(U), NEW D, IsFiniteSet(D), U \cap D = {}
    PROVE  Cardinality(U \cup D) = Cardinality(U) + Cardinality(D)
<1>1. Cardinality(U) \in Nat /\ Cardinality(D) \in Nat
  BY FS_CardinalityType
<1>2. Cardinality(U \cap D) = 0
  BY FS_EmptySet
<1>3. Cardinality(U \cup D) = Cardinality(U) + Cardinality(D) - Cardinality(U \cap D)
  BY FS_Union
<1> QED
  BY <1>1, <1>2, <1>3

LEMMA RowsOfRows ==
    ASSUME NEW U, Rows(U), NEW D, D \subseteq U
    PROVE  Rows(D)
<1>1. IsFiniteSet(D)
  BY FS_Subset DEF Rows
<1> QED
  BY <1>1 DEF Rows

\* The two runs over the vector together: preferred and wrapped are the two parts
\* of what is eligible, and the second gives only what the first has left room for.
LEMMA BatchOfAnyLimit ==
    ASSUME RotationInv, NEW n \in Nat
    PROVE  LET batch == Rotation!ListFlushBatch(n)
           IN /\ batch \subseteq Rotation!Eligible /\ Rows(batch)
              /\ Cardinality(batch) = Rotation!Wanted(n)
              /\ \A r \in batch, p \in Rotation!Eligible \ batch : Rotation!RotatesBefore(r, p)
<1> DEFINE Fore == Rotation!Ahead
           Back == Rotation!Behind
           room == Rotation!Room(n)
           some == Rotation!First(Fore, room, Rotation!Older)
           more == Rotation!First(Back, room - Cardinality(some), Rotation!Older)
           E == Rotation!Eligible
<1>1. \A r \in pending : r.id \in Nat
  BY RotationParameters DEF RotationInv, Rows, Rotation!Row, Rotation!Parameters
<1>2. /\ E = Fore \cup Back /\ E \subseteq pending
      /\ \A r \in Fore : r.id \in Nat /\ r.id >= skip
      /\ \A r \in Back : r.id \in Nat /\ r.id < skip
  BY <1>1 DEF RotationInv, Rotation!Ahead, Rotation!Behind, Rotation!Eligible
<1>3. Rows(E) /\ Rows(Fore) /\ Rows(Back)
  BY <1>2, RowsOfRows DEF RotationInv
<1>4. /\ Cardinality(E) \in Nat /\ Cardinality(Fore) \in Nat /\ Cardinality(Back) \in Nat
      /\ Cardinality(pending) \in Nat /\ Cardinality(E) <= Cardinality(pending)
      /\ IsFiniteSet(Fore) /\ IsFiniteSet(Back)
  BY <1>2, <1>3, FS_CardinalityType, FS_Subset DEF RotationInv, Rows
<1>5. Fore \cap Back = {}
  BY <1>2 DEF RotationInv
<1>6. Cardinality(E) = Cardinality(Fore) + Cardinality(Back)
  <2>1. Cardinality(Fore \cup Back) = Cardinality(Fore) + Cardinality(Back)
    <3> HIDE DEF Fore, Back
    <3> QED
      BY <1>4, <1>5, Apart
  <2> QED
    BY <1>2, <2>1
<1>7. /\ room \in Nat
      /\ n > 0 => room = n
      /\ n = 0 => room = Cardinality(pending)
  BY <1>4 DEF Rotation!Room, Rotation!Cardinality, Cardinality
<1>8. /\ some \subseteq Fore /\ IsFiniteSet(some)
      /\ Cardinality(some) = IF room < Cardinality(Fore) THEN room ELSE Cardinality(Fore)
      /\ \A r \in some, p \in Fore \ some : r.id < p.id
  BY <1>3, <1>7, FirstByAge
<1>9. Cardinality(some) \in Nat /\ room - Cardinality(some) \in Nat
  <2> HIDE DEF room, some, Fore
  <2> QED
    BY <1>4, <1>7, <1>8
<1>10. /\ more \subseteq Back /\ IsFiniteSet(more)
       /\ Cardinality(more) = IF room - Cardinality(some) < Cardinality(Back)
                              THEN room - Cardinality(some) ELSE Cardinality(Back)
       /\ \A r \in more, p \in Back \ more : r.id < p.id
  <2> HIDE DEF room, some
  <2> QED
    BY <1>3, <1>9, FirstByAge
<1>11. Rotation!ListFlushBatch(n) = some \cup more
  BY DEF Rotation!ListFlushBatch, Rotation!Cardinality, Cardinality
<1>12. Rotation!Wanted(n) = IF n > 0 /\ n < Cardinality(E) THEN n ELSE Cardinality(E)
  BY DEF Rotation!Wanted, Rotation!Cardinality, Cardinality
<1>13. some \cap more = {}
  BY <1>5, <1>8, <1>10
<1>14. Cardinality(some \cup more) = Cardinality(some) + Cardinality(more)
  <2> HIDE DEF some, more
  <2> QED
    BY <1>8, <1>10, <1>13, Apart
<1>15. more # {} => some = Fore
  <2> SUFFICES ASSUME some # Fore PROVE more = {}
    OBVIOUS
  <2>1. Cardinality(some) # Cardinality(Fore)
    <3> HIDE DEF some, Fore
    <3> QED
      BY <1>4, <1>8, FS_Subset
  <2>2. Cardinality(more) = 0
    <3> HIDE DEF some, Fore, more, room
    <3> QED
      BY <1>4, <1>7, <1>8, <1>9, <1>10, <2>1
  <2> QED
    BY <1>10, <2>2, FS_EmptySet
<1> HIDE DEF Fore, Back, room, some, more, E
<1>16. Cardinality(some \cup more) = Rotation!Wanted(n)
  BY <1>4, <1>6, <1>7, <1>8, <1>9, <1>10, <1>12, <1>14
<1>17. \A r \in some \cup more, p \in E \ (some \cup more) : Rotation!RotatesBefore(r, p)
  <2> SUFFICES ASSUME NEW r \in some \cup more, NEW p \in E \ (some \cup more)
               PROVE Rotation!RotatesBefore(r, p)
    OBVIOUS
  <2>1. CASE r \in some /\ p \in Fore
    BY <1>2, <1>8, <2>1 DEF Rotation!RotatesBefore, Rotation!Older, RotationInv
  <2>2. CASE r \in some /\ p \in Back
    BY <1>2, <1>8, <2>2 DEF Rotation!RotatesBefore, Rotation!Older, RotationInv
  <2>3. CASE r \in more
    BY <1>2, <1>10, <1>15, <2>3 DEF Rotation!RotatesBefore, Rotation!Older, RotationInv
  <2> QED
    BY <1>2, <2>1, <2>2, <2>3
<1>18. some \cup more \subseteq E
  BY <1>2, <1>8, <1>10
<1>19. Rows(some \cup more)
  BY <1>3, <1>18, RowsOfRows
<1> QED
  BY <1>11, <1>16, <1>17, <1>18, <1>19 DEF E

\* What a wave sends: the whole batch, or the first of it in flush order.
LEMMA WorkIsRight ==
    ASSUME RotationInv
    PROVE  /\ Rows(Rotation!Work) /\ Rotation!Work \subseteq pending
           /\ Rotation!Work \subseteq Rotation!ListFlushBatch(Wave * 2)
           /\ Cardinality(Rotation!Work) = Rotation!Wanted(Wave)
           /\ \A r \in Rotation!Work, p \in Rotation!ListFlushBatch(Wave * 2) \ Rotation!Work :
                  Rotation!FlushesBefore(r, p)
<1> DEFINE batch == Rotation!ListFlushBatch(Wave * 2)
           e == Cardinality(Rotation!Eligible)
<1>0. Wave \in Nat /\ Wave * 2 \in Nat
  BY RotationParameters DEF Rotation!Parameters
<1>1. /\ batch \subseteq Rotation!Eligible /\ Rows(batch)
      /\ Cardinality(batch) = Rotation!Wanted(Wave * 2)
  BY <1>0, BatchOfAnyLimit
<1>2. Rotation!Eligible \subseteq pending /\ e \in Nat
  <2>1. Rotation!Eligible \subseteq pending
    BY DEF Rotation!Eligible
  <2> QED
    BY <2>1, FS_Subset, FS_CardinalityType DEF RotationInv, Rows
<1>3. \A n \in Nat : Rotation!Wanted(n) = IF n > 0 /\ n < e THEN n ELSE e
  BY DEF Rotation!Wanted, Rotation!Cardinality, Cardinality
<1> HIDE DEF batch, e
<1>4. CASE Wave = 0
  <2>1. Rotation!Work = batch
    BY <1>4 DEF Rotation!Work, batch
  <2>2. Wave * 2 = Wave
    BY <1>4
  <2> QED
    BY <1>1, <1>2, <2>1, <2>2 DEF batch
<1>5. CASE Wave # 0
  <2>1. Rotation!Work = Rotation!First(batch, Wave, Rotation!FlushesBefore)
    BY <1>5 DEF Rotation!Work, batch
  <2>2. /\ Rotation!Work \subseteq batch
        /\ Cardinality(Rotation!Work) =
               IF Wave < Cardinality(batch) THEN Wave ELSE Cardinality(batch)
        /\ \A r \in Rotation!Work, p \in batch \ Rotation!Work : Rotation!FlushesBefore(r, p)
    BY <1>0, <1>1, <2>1, FirstByFlush
  <2>3. Cardinality(Rotation!Work) = Rotation!Wanted(Wave)
    BY <1>0, <1>1, <1>2, <1>3, <1>5, <2>2
  <2>4. Rows(Rotation!Work)
    BY <1>1, <2>2, RowsOfRows
  <2> QED
    BY <1>1, <1>2, <2>2, <2>3, <2>4 DEF batch
<1> QED
  BY <1>4, <1>5

LEMMA RotationInitInv == Init => RotationInv
<1> SUFFICES ASSUME Init PROVE RotationInv
  OBVIOUS
<1>0. N \in Nat
  BY RotationParameters DEF Rotation!Parameters
<1>1. RotationInit
  BY DEF Init
<1>2. CASE part = "rotation"
  <2>1. PICK kind \in [1..N -> Kinds], match \in [1..N -> BOOLEAN], fate \in [1..N -> Fates] :
            pending = {[id |-> i, kind |-> kind[i], match |-> match[i], fate |-> fate[i]] :
                          i \in 1..N}
    BY <1>1, <1>2 DEF RotationInit, Rotation!Init
  <2> DEFINE row == [i \in 1..N |->
                        [id |-> i, kind |-> kind[i], match |-> match[i], fate |-> fate[i]]]
  <2>2. pending = {row[i] : i \in 1..N}
    BY <2>1
  <2>3. pending \subseteq Rotation!Row /\ \A r, p \in pending : r.id = p.id => r = p
    BY <2>1 DEF Rotation!Row
  <2>4. IsFiniteSet(pending)
    <3>1. row \in Surjection(1..N, pending)
      BY <2>2 DEF Surjection
    <3>2. IsFiniteSet(1..N)
      BY <1>0, FS_Interval
    <3> HIDE DEF row
    <3> QED
      BY <3>1, <3>2, FS_Surjection DEF ExistsSurjection
  <2> QED
    BY <1>1, <1>2, <2>3, <2>4 DEF RotationInit, Rotation!Init, RotationInv, Rows
<1>3. CASE part # "rotation"
  <2>1. pending = {} /\ skip = 0 /\ window = FALSE
    BY <1>1, <1>3 DEF RotationInit
  <2>2. Rows({})
    BY FS_EmptySet DEF Rows
  <2> QED
    BY <2>1, <2>2 DEF RotationInv, Rows
<1> QED
  BY <1>2, <1>3

LEMMA RotationKeepsInv == RotationInv /\ [Rotation!Next]_R => RotationInv'
<1> SUFFICES ASSUME RotationInv, [Rotation!Next]_R PROVE RotationInv'
  OBVIOUS
<1>1. CASE Rotation!FlushWave
  <2>1. Rows(pending')
    <3>1. pending' \subseteq pending
      BY <1>1 DEF Rotation!FlushWave
    <3> QED
      BY <3>1, RowsOfRows DEF RotationInv
  <2>2. skip' \in Nat
    <3>1. Rotation!LastOfWork \in Rotation!Work
      <4>1. \E r \in Rotation!Work : \A p \in Rotation!Work \ {r} : Rotation!FlushesBefore(p, r)
        BY <1>1, WorkIsRight, FirstByFlush DEF Rotation!FlushWave
      <4> QED
        BY <4>1 DEF Rotation!LastOfWork
    <3>2. Rotation!LastOfWork.id \in Nat
      BY <3>1, WorkIsRight, RotationParameters DEF Rows, Rotation!Row, Rotation!Parameters
    <3> QED
      BY <1>1, <3>2 DEF Rotation!FlushWave, RotationInv
  <2>3. window' \in BOOLEAN
    BY <1>1 DEF Rotation!FlushWave, RotationInv
  <2> QED
    BY <2>1, <2>2, <2>3 DEF RotationInv, Rows
<1>2. CASE Rotation!DrainStarts
  BY <1>2 DEF Rotation!DrainStarts, RotationInv, Rows
<1>3. CASE Rotation!WindowMoves
  BY <1>3 DEF Rotation!WindowMoves, RotationInv, Rows
<1>4. CASE UNCHANGED R
  BY <1>4 DEF R, RotationInv, Rows
<1> QED
  BY <1>1, <1>2, <1>3, <1>4 DEF Rotation!Next

\* For any queue and any limit, a flush asks the disk queue for as many rows as
\* it may and gets those the rotation comes to first, and a wave POSTs the first
\* of them in flush order (store.cpp: list_flush_batch; supervisor.cpp: work).
THEOREM BatchesAreRight == FairSpec => []BatchIsRight
<1>1. RotationInv => BatchIsRight
  <2> SUFFICES ASSUME RotationInv PROVE Rotation!BatchIsRight
    BY DEF BatchIsRight
  <2>1. 0..N \subseteq Nat
    BY RotationParameters DEF Rotation!Parameters
  <2> QED
    BY <2>1, BatchOfAnyLimit, WorkIsRight
       DEF Rotation!BatchIsRight, Rotation!Cardinality, Cardinality
<1>2. RotationInv /\ [Next]_vars => RotationInv'
  BY PartsApart, RotationKeepsInv
<1> QED
  BY <1>1, <1>2, RotationInitInv, PTL DEF FairSpec
=============================================================================
