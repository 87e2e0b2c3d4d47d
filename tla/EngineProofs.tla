---------------------------- MODULE EngineProofs ----------------------------
(***************************************************************************)
(* What the engine's parts keep on any card and with any settings: lanes   *)
(* and lane threads through starts, resizes, stops and faults; the hunt    *)
(* for the batch the card can cool; the power limit; the key generator.    *)
(***************************************************************************)
EXTENDS PartsProofs, SequenceTheorems

-----------------------------------------------------------------------------
(* MiningSession                                                           *)

\* An engine that is up has the lanes of the fixed VRAM table, at every m=, and
\* a thread for each unless it is being stopped; one that is down has neither.
\* The mining thread is inside set_difficulty only while the engine is up.
SessionInv ==
    /\ cap \in Nat \ {0} /\ up \in BOOLEAN
    /\ lane_count \in Nat /\ objects \in Nat /\ threads \in Nat
    /\ spc \in Session!SessionPC
    /\ spc \in {"bootSet", "bootEnsure", "coolSet", "coolEnsure", "refreshEnsure"} => up
    /\ spc \in {"faultClear", "parkClear"} => threads = 0
    /\ up => objects = cap /\ lane_count = cap
    /\ up /\ spc \notin {"faultClear", "parkClear"} => threads = Session!ThreadsFor(cap)
    /\ ~up => objects = 0 /\ threads = 0

LEMMA SessionInitInv == Init => SessionInv
<1> SUFFICES ASSUME Init PROVE SessionInv
  OBVIOUS
<1>1. /\ up = FALSE /\ lane_count = 1 /\ objects = 0 /\ threads = 0
      /\ spc \in {"boot", "ended"} /\ (cap = 1 \/ cap \in LaneCaps)
  BY DEF Init, SessionInit, Session!Init
<1>2. cap \in Nat \ {0}
  <2>1. LaneCaps \subseteq Nat \ {0}
    BY SessionParameters DEF Session!Parameters
  <2>2. 1 \in Nat \ {0}
    OBVIOUS
  <2> QED
    BY <1>1, <2>1, <2>2, Zenon
<1>3. up \in BOOLEAN /\ ~up
  BY <1>1
<1> QED
  BY <1>1, <1>2, <1>3 DEF SessionInv, Session!SessionPC

LEMMA SessionKeepsInv ==
    ASSUME SessionInv, [Session!Next]_S
    PROVE  SessionInv'
<1> USE DEF Session!LanesFor, Session!ThreadsFor
<1>0. /\ cap \in Nat \ {0} /\ up \in BOOLEAN /\ spc \in Session!SessionPC
      /\ lane_count \in Nat /\ objects \in Nat /\ threads \in Nat
  BY DEF SessionInv
\* What the engine's operations do to it, wherever they are called from.
<1>s. ASSUME Session!Starts, cap' = cap, spc' \in {"bootSet", "coolSet", "mine"}
      PROVE  SessionInv'
  <2>1. /\ up' = TRUE /\ lane_count' = cap /\ objects' = cap
        /\ threads' = IF cap > 1 THEN cap ELSE 0
    BY <1>s DEF Session!Starts
  <2>2. up' \in BOOLEAN /\ up'
    BY <2>1
  <2> QED
    BY <1>0, <1>s, <2>1, <2>2 DEF SessionInv, Session!SessionPC
<1>u. ASSUME Session!StartThrows \/ UNCHANGED <<up, lane_count, objects, threads>>,
             cap' = cap, spc' \in {"ended", "top", "gate", "mine", "mined", "asleep"},
             spc \notin {"faultClear", "parkClear"}
      PROVE  SessionInv'
  <2>1. UNCHANGED <<up, lane_count, objects, threads>>
    BY <1>u DEF Session!StartThrows, Session!engine
  <2> QED
    BY <1>u, <2>1 DEF SessionInv, Session!SessionPC
<1>r. ASSUME NEW m, Session!Resizes(m), up, cap' = cap,
             spc \notin {"faultClear", "parkClear"},
             spc' \in {"bootEnsure", "coolEnsure", "refreshEnsure"}
      PROVE  SessionInv'
  <2>1. lane_count' = cap /\ objects' = cap /\ up' = up /\ threads' = threads
    BY <1>r DEF Session!Resizes
  <2> QED
    BY <1>r, <2>1 DEF SessionInv, Session!SessionPC
<1>j. ASSUME Session!StopJoins, cap' = cap, spc' \in {"faultClear", "parkClear"}
      PROVE  SessionInv'
  <2>1. threads' = 0 /\ UNCHANGED <<up, lane_count, objects>>
    BY <1>j DEF Session!StopJoins
  <2> QED
    BY <1>j, <2>1 DEF SessionInv, Session!SessionPC
<1>1. CASE Session!Boot
  BY <1>s, <1>u, <1>1 DEF Session!Boot, Session!GoTo
<1>2. CASE Session!SetAfterStart
  <2>0. up /\ spc \notin {"faultClear", "parkClear"}
    BY <1>2 DEF Session!SetAfterStart, SessionInv
  <2>1. CASE UNCHANGED Session!engine /\ Session!GoTo("top")
    BY <1>u, <2>0, <2>1 DEF Session!GoTo, Session!engine
  <2>2. CASE \E m \in {Session!Wanted}, pc \in {"bootEnsure", "coolEnsure"} :
                 Session!Resizes(m) /\ Session!GoTo(pc)
    BY <1>r, <2>0, <2>2 DEF Session!GoTo
  <2>3. CASE \E m \in {Session!Wanted}, pc \in {"ended", "top"} :
                 Session!ResizeThrows(m) /\ Session!GoTo(pc)
    BY <1>u, <2>0, <2>3 DEF Session!GoTo, Session!ResizeThrows
  <2> QED
    BY <1>2, <2>1, <2>2, <2>3 DEF Session!SetAfterStart
<1>3. CASE Session!Ensure
  <2>1. /\ up /\ threads' = (IF lane_count > 1 THEN lane_count ELSE 0)
        /\ UNCHANGED <<cap, up, lane_count, objects>> /\ spc' \in {"gate", "top"}
    BY <1>3 DEF Session!Ensure, Session!EnsureThreads, Session!GoTo, SessionInv
  <2> QED
    BY <2>1 DEF SessionInv, Session!SessionPC
<1>4. ASSUME NEW changed \in BOOLEAN, Session!Refresh(changed) PROVE SessionInv'
  <2>0. spc = "top" /\ cap' = cap
    BY <1>4 DEF Session!Refresh
  <2>1. CASE up /\ Session!Resizes(net_m) /\ spc' = "refreshEnsure"
    BY <1>r, <2>0, <2>1
  <2>2. CASE Session!ResizeThrows(net_m) /\ spc' = "gate"
    BY <1>u, <2>0, <2>2 DEF Session!ResizeThrows
  <2>3. CASE spc' = "gate" /\ UNCHANGED Session!engine
    BY <1>u, <2>0, <2>3 DEF Session!engine
  <2> QED
    BY <1>4, <2>1, <2>2, <2>3 DEF Session!Refresh
<1>5. CASE Session!CoolTurn
  BY <1>s, <1>u, <1>5 DEF Session!CoolTurn, Session!GoTo, Session!engine
<1>6. CASE Session!SafetyTick
  BY <1>j, <1>u, <1>6 DEF Session!SafetyTick, Session!GoTo, Session!engine
<1>7. CASE Session!StopEnds
  <2>1. /\ objects' = 0 /\ up' = FALSE /\ UNCHANGED <<lane_count, threads, cap>>
        /\ spc' = "top" /\ threads = 0
    BY <1>7 DEF Session!StopEnds, Session!StopClears, Session!GoTo, SessionInv
  <2>2. up' \in BOOLEAN /\ ~up'
    BY <2>1
  <2> QED
    BY <1>0, <2>1, <2>2 DEF SessionInv, Session!SessionPC
<1>8. CASE Session!Park
  BY <1>j, <1>u, <1>8 DEF Session!Park, Session!GoTo, Session!engine
<1>9. CASE Session!StartToMine
  BY <1>s, <1>u, <1>9 DEF Session!StartToMine, Session!GoTo
<1>10. CASE Session!MineBatch \/ Session!MineThrowsAgain \/ Session!MineSleeps \/ Session!TurnEnds
  BY <1>u, <1>10 DEF Session!MineBatch, Session!MineThrowsAgain, Session!MineSleeps,
                     Session!TurnEnds, Session!GoTo, Session!engine
<1>11. CASE Session!MineThrows
  <2>1. CASE Session!StopJoins /\ Session!GoTo("faultClear")
    BY <1>j, <2>1 DEF Session!GoTo
  <2>2. CASE /\ Session!GoTo("top") /\ spc = "mine"
             /\ UNCHANGED <<up, lane_count, objects, threads>>
    BY <1>u, <2>2 DEF Session!GoTo
  <2> QED
    BY <1>11, <2>1, <2>2 DEF Session!MineThrows
<1>12. CASE Session!World \/ Session!Ended \/ UNCHANGED S
  <2>1. UNCHANGED <<cap, up, lane_count, objects, threads, spc>>
    BY <1>12 DEF Session!World, Session!Ended, Session!vars, Session!engine, S
  <2> QED
    BY <2>1 DEF SessionInv
<1> QED
  BY <1>1, <1>2, <1>3, <1>4, <1>5, <1>6, <1>7, <1>8, <1>9, <1>10, <1>11, <1>12
     DEF Session!Next, Session!MiningThread

\* No lane thread is ever without its lane, through every order of emergency,
\* device error, park, failed start and resize, and mine_batch finds the lanes
\* and threads it asks for (cuda_engine.cpp: start, sync_lanes,
\* ensure_lane_workers and stop, under the loop of supervisor.cpp).
THEOREM LaneThreadsHaveLanes == FairSpec => []ThreadsHaveLanes
<1>1. SessionInv => ThreadsHaveLanes
  BY DEF SessionInv, ThreadsHaveLanes, Session!ThreadsHaveLanes, Session!ThreadsFor
<1>2. SessionInv /\ [Next]_vars => SessionInv'
  BY PartsApart, SessionKeepsInv
<1> QED
  BY <1>1, <1>2, SessionInitInv, PTL DEF FairSpec

-----------------------------------------------------------------------------
(* ThermalHunt                                                             *)

Hunt == [batch : Nat, floor : Nat, last_ok : Nat, last_temp : Nat,
         adjusted : BOOLEAN, settled : BOOLEAN, idle : Nat]

\* A hunt that has begun is inside the plan and on or above its low watermark;
\* one that has not is the empty one.
ThermalInv ==
    /\ planned \in Nat \ {0} /\ hunt \in Hunt
    /\ ~hunt.adjusted => hunt = Thermal!NoHunt
    /\ hunt.adjusted => hunt.floor <= hunt.batch /\ hunt.batch <= planned /\ hunt.batch > 0

\* A part of a batch, up to the whole, is between one hash and the batch.
LEMMA ScaledBatch ==
    ASSUME NEW n \in Nat \ {0}, NEW pct \in 0..100
    PROVE  Thermal!ApplyBatchScale(n, pct, 100) \in 1..n
<1>1. n * pct \in Nat /\ n * pct <= n * 100
  OBVIOUS
<1>2. 2 * n * pct = 2 * (n * pct)
  OBVIOUS
<1> DEFINE k == n * pct
<1>3. (2 * k + 100) \div 200 \in 0..n
  <2>1. k \in Nat /\ k <= n * 100
    BY <1>1
  <2> HIDE DEF k
  <2> QED
    BY <2>1
<1> QED
  BY <1>2, <1>3 DEF Thermal!ApplyBatchScale, Thermal!Larger

\* What a sample makes of a hunt before anything moves: it is pushed into the
\* plan, and the batch is not made smaller by that.
LEMMA SampledHunt ==
    ASSUME ThermalInv, NEW temp \in Nat, NEW quiet \in BOOLEAN
    PROVE  LET h == Thermal!Sampled(temp, quiet)
           IN /\ h \in Hunt /\ h.adjusted /\ h.settled = quiet
              /\ Thermal!MinBatch \in 1..planned
              /\ Thermal!MinBatch <= h.batch /\ h.batch <= planned
              /\ hunt.adjusted => /\ hunt.batch <= h.batch /\ hunt.floor <= h.floor
                                  /\ h.floor <= h.batch /\ h.last_ok = hunt.last_ok
              /\ ~hunt.adjusted => Thermal!Seeded.floor <= h.batch
              /\ Thermal!Seeded \in Hunt
<1> DEFINE h == Thermal!Sampled(temp, quiet)
           s == Thermal!Seeded
           least == Thermal!MinBatch
           start == Thermal!ApplyBatchScale(planned, StartPct, 100)
<1> USE ThermalParameters DEF Thermal!Parameters
<1> USE DEF Thermal!Smaller, Thermal!Larger
<1>0. planned \in Nat \ {0} /\ hunt \in Hunt
  BY DEF ThermalInv
<1>1. start \in 1..planned
  BY <1>0, ScaledBatch
<1>2. Thermal!MinBatch \in 1..planned
  <2>1. Thermal!ApplyBatchScale(planned, MinPct, 100) \in 1..planned
    BY <1>0, ScaledBatch
  <2> QED
    BY <1>0, <2>1 DEF Thermal!MinBatch
<1>3. /\ Thermal!Seeded \in Hunt
      /\ hunt.adjusted => Thermal!Seeded = hunt
      /\ ~hunt.adjusted => /\ Thermal!Seeded.batch = start /\ Thermal!Seeded.floor = start
  <2>1. CASE hunt.adjusted
    <3>1. hunt.batch > 0
      BY <2>1 DEF ThermalInv
    <3> QED
      BY <1>0, <2>1, <3>1 DEF Thermal!Seeded
  <2>2. CASE ~hunt.adjusted
    <3>1. hunt = Thermal!NoHunt /\ hunt.batch = 0
      BY <2>2 DEF ThermalInv, Thermal!NoHunt
    <3>2. s = [hunt EXCEPT !.batch = start, !.floor = start, !.last_ok = start]
      BY <3>1 DEF Thermal!Seeded
    <3> HIDE DEF start
    <3>3. start \in Nat
      BY <1>0, <1>1
    <3> QED
      BY <1>0, <2>2, <3>2, <3>3 DEF Hunt
  <2> QED
    BY <2>1, <2>2
<1>4. Thermal!IdleFor(temp) \in Nat
  BY DEF Thermal!IdleFor
<1>5. \A b \in Nat : Thermal!InPlan(b) =
          IF planned < b THEN planned ELSE IF b < Thermal!MinBatch THEN Thermal!MinBatch ELSE b
  BY <1>0, <1>2 DEF Thermal!InPlan
<1>6. h = [s EXCEPT !.batch = Thermal!InPlan(s.batch), !.floor = Thermal!Larger(least, s.floor),
                    !.adjusted = TRUE, !.settled = quiet, !.last_temp = temp,
                    !.idle = Thermal!IdleFor(temp)]
  BY DEF Thermal!Sampled
<1>7. /\ h \in Hunt /\ h.adjusted /\ h.settled = quiet /\ h.last_ok = s.last_ok
      /\ h.batch = Thermal!InPlan(s.batch) /\ h.floor = Thermal!Larger(least, s.floor)
  <2>1. Thermal!InPlan(s.batch) \in Nat /\ Thermal!Larger(least, s.floor) \in Nat
    BY <1>0, <1>2, <1>3, <1>5 DEF Hunt
  <2> HIDE DEF s, h
  <2>2. s \in Hunt
    BY <1>3 DEF s
  <2> QED
    BY <1>4, <1>6, <2>1, <2>2 DEF Hunt
<1>8. s.batch \in Nat /\ s.floor \in Nat
  BY <1>3 DEF Hunt
<1> QED
  BY <1>0, <1>1, <1>2, <1>3, <1>5, <1>7, <1>8 DEF ThermalInv

LEMMA ReadTemp ==
    ASSUME ThermalInv, NEW reading \in Readings
    PROVE  Thermal!ControlTemp(reading) \in Nat
<1>1. reading[1] \in Nat /\ reading[2] \in Nat
  BY ThermalParameters DEF Thermal!Parameters
<1>2. hunt.last_temp \in Nat
  BY DEF ThermalInv, Hunt
<1> QED
  BY <1>1, <1>2 DEF Thermal!ControlTemp

\* A move inside the plan.
LEMMA Applied ==
    ASSUME NEW h \in Hunt, NEW next \in Nat
    PROVE  LET new == Thermal!Apply(h, next)
           IN /\ new \in Hunt /\ new.adjusted = h.adjusted /\ new.floor = h.floor
              /\ new.batch \in {h.batch, next}
<1> QED
  BY DEF Thermal!Apply, Hunt

\* A cut goes above the floor, or the batch stays where it is.
LEMMA CutAboveFloor ==
    ASSUME NEW h \in Hunt, h.floor <= h.batch, Thermal!MinBatch \in Nat,
           Thermal!MinBatch <= h.batch
    PROVE  /\ Thermal!CutTarget(h) \in Nat /\ Thermal!CutTarget(h) <= h.batch
           /\ Thermal!CutTarget(h) < h.batch => h.floor < Thermal!CutTarget(h)
<1> USE ThermalParameters DEF Thermal!Parameters
<1>1. h.batch \in Nat /\ h.floor \in Nat /\ h.last_ok \in Nat
  BY DEF Hunt
<1> DEFINE Above(b) == IF b <= h.floor THEN h.floor + Step ELSE b
           first    == Above(h.last_ok)
           second   == IF first >= h.batch THEN h.batch - Step ELSE first
           cut      == Above(second)
<1>2. cut \in Int /\ cut > h.floor
  BY <1>1
<1>3. Thermal!CutTarget(h) = Thermal!Smaller(h.batch, Thermal!Larger(Thermal!MinBatch, cut))
  BY DEF Thermal!CutTarget
<1> HIDE DEF cut
<1> QED
  BY <1>1, <1>2, <1>3 DEF Thermal!Smaller, Thermal!Larger

ThermalStepIsSound ==
    hunt'.adjusted =>
        /\ hunt.floor <= hunt'.floor /\ hunt'.floor <= hunt'.batch
        /\ hunt'.batch <= planned'
        /\ hunt.adjusted /\ hunt'.batch < hunt.batch => hunt.floor < hunt'.batch

LEMMA ThermalKeepsInv ==
    ASSUME ThermalInv, Thermal!Next
    PROVE  ThermalInv' /\ ThermalStepIsSound
<1> USE ThermalParameters DEF Thermal!Parameters
<1>0. /\ planned \in Nat \ {0} /\ hunt \in Hunt /\ hunt.floor \in Nat /\ hunt.batch \in Nat
      /\ hunt.last_ok \in Nat
  BY DEF ThermalInv, Hunt
<1>1. ASSUME NEW size \in PlannedSizes, Thermal!Replan(size)
      PROVE  ThermalInv' /\ ThermalStepIsSound
  <2>1. planned' = size /\ hunt' = Thermal!NoHunt
    BY <1>1 DEF Thermal!Replan
  <2>2. Thermal!NoHunt \in Hunt /\ ~Thermal!NoHunt.adjusted
    BY DEF Thermal!NoHunt, Hunt
  <2> QED
    BY <2>1, <2>2 DEF ThermalInv, ThermalStepIsSound
<1>2. ASSUME NEW reading \in Readings, NEW settled_ \in BOOLEAN, Thermal!Tick(reading, settled_)
      PROVE  ThermalInv' /\ ThermalStepIsSound
  <2> DEFINE temp == Thermal!ControlTemp(reading)
             h    == Thermal!Sampled(temp, settled_)
  <2>1. temp \in Nat /\ planned' = planned
    BY <1>2, ReadTemp DEF Thermal!Tick
  <2> HIDE DEF temp
  <2>2. /\ h \in Hunt /\ h.adjusted /\ h.settled = settled_
        /\ Thermal!MinBatch \in 1..planned
        /\ Thermal!MinBatch <= h.batch /\ h.batch <= planned
        /\ hunt.adjusted => /\ hunt.batch <= h.batch /\ hunt.floor <= h.floor
                            /\ h.floor <= h.batch /\ h.last_ok = hunt.last_ok
    BY <2>1, SampledHunt
  <2> HIDE DEF h
  <2>3. h.batch \in Nat /\ h.floor \in Nat
    BY <2>2 DEF Hunt
  \* It is enough to look at the batch and the floor of the new state.
  <2>4. ASSUME hunt' \in Hunt, hunt'.adjusted, hunt'.floor <= hunt'.batch,
               hunt'.batch <= planned, hunt'.batch > 0, hunt.floor <= hunt'.floor,
               hunt.adjusted /\ hunt'.batch < hunt.batch => hunt.floor < hunt'.batch
        PROVE  ThermalInv' /\ ThermalStepIsSound
    BY <1>0, <2>1, <2>4 DEF ThermalInv, ThermalStepIsSound
  <2>5. CASE Thermal!Observe(temp)
    <3> DEFINE o == Thermal!Sampled(temp, FALSE)
    <3>1. ~hunt.adjusted /\ hunt' = [o EXCEPT !.floor = Thermal!Seeded.floor, !.idle = 0]
      BY <2>5 DEF Thermal!Observe
    <3>2. /\ o \in Hunt /\ o.adjusted /\ Thermal!MinBatch \in 1..planned
          /\ Thermal!MinBatch <= o.batch /\ o.batch <= planned
          /\ Thermal!Seeded.floor <= o.batch /\ Thermal!Seeded \in Hunt
      BY <2>1, <3>1, SampledHunt
    <3> HIDE DEF o
    <3>3. Thermal!Seeded.floor \in Nat /\ o.batch \in Nat
      BY <3>2 DEF Hunt
    <3>4. /\ hunt' \in Hunt /\ hunt'.adjusted /\ hunt'.batch = o.batch
          /\ hunt'.floor = Thermal!Seeded.floor
      BY <3>1, <3>2, <3>3 DEF Hunt
    <3>5. hunt.floor = 0
      BY <3>1 DEF ThermalInv, Thermal!NoHunt
    <3> QED
      BY <1>0, <2>4, <3>1, <3>2, <3>3, <3>4, <3>5
  <2>6. CASE Thermal!RaiseWhenCool(temp, settled_)
    <3> DEFINE g == [h EXCEPT !.last_ok = Thermal!InPlan(hunt.batch)]
               next == Thermal!InPlan(g.batch + Step)
    <3>1. hunt.adjusted /\ hunt' = Thermal!Apply(g, next)
      BY <2>6 DEF Thermal!RaiseWhenCool, h
    <3>2. \A b \in Nat : /\ Thermal!InPlan(b) \in Nat
                         /\ Thermal!InPlan(b) <= planned /\ Thermal!InPlan(b) > 0
                         /\ b <= planned => b <= Thermal!InPlan(b)
                         /\ planned <= b => Thermal!InPlan(b) = planned
      BY <1>0, <2>2 DEF Thermal!InPlan, Thermal!Smaller, Thermal!Larger
    <3>3. g \in Hunt /\ g.batch = h.batch /\ g.floor = h.floor /\ g.adjusted
      <4>1. Thermal!InPlan(hunt.batch) \in Nat
        BY <1>0, <3>2
      <4> QED
        BY <2>2, <4>1 DEF Hunt
    <3> HIDE DEF g
    <3>4. /\ g.batch + Step \in Nat
          /\ next \in Nat /\ next <= planned /\ next > 0 /\ h.batch <= next
      BY <1>0, <2>2, <2>3, <3>2, <3>3
    <3> HIDE DEF next
    <3>5. /\ hunt' \in Hunt /\ hunt'.adjusted /\ hunt'.floor = h.floor
          /\ hunt'.batch \in {h.batch, next}
      BY <3>1, <3>3, <3>4, Applied
    <3> QED
      BY <1>0, <2>2, <2>3, <2>4, <3>1, <3>4, <3>5
  <2>7. CASE Thermal!CutWhenHot(temp, settled_)
    <3>1. hunt.adjusted /\ hunt' = Thermal!Cut(h)
      BY <2>7 DEF Thermal!CutWhenHot, h
    <3>2. /\ Thermal!CutTarget(h) \in Nat /\ Thermal!CutTarget(h) <= h.batch
          /\ Thermal!CutTarget(h) < h.batch => h.floor < Thermal!CutTarget(h)
      BY <1>0, <2>2, <2>3, <3>1, CutAboveFloor
    <3>3. CASE Thermal!CutTarget(h) = h.batch
      <4>1. hunt' = h
        BY <3>1, <3>3 DEF Thermal!Cut
      <4> QED
        BY <1>0, <2>2, <2>3, <2>4, <3>1, <4>1
    <3>4. CASE Thermal!CutTarget(h) # h.batch
      <4> DEFINE cut == Thermal!Apply(h, Thermal!CutTarget(h))
      <4>1. hunt' = [cut EXCEPT !.floor = Thermal!Larger(cut.floor, cut.batch)]
        BY <3>1, <3>4 DEF Thermal!Cut
      <4>2. /\ cut \in Hunt /\ cut.adjusted /\ cut.floor = h.floor
            /\ cut.batch \in {h.batch, Thermal!CutTarget(h)}
        BY <2>2, <3>2, Applied
      <4> HIDE DEF cut
      <4>3. cut.batch \in Nat /\ cut.floor \in Nat
        BY <4>2 DEF Hunt
      <4>4. /\ hunt' \in Hunt /\ hunt'.adjusted /\ hunt'.batch = cut.batch
            /\ hunt'.floor = Thermal!Larger(cut.floor, cut.batch)
        <5>1. Thermal!Larger(cut.floor, cut.batch) \in Nat
          BY <4>3 DEF Thermal!Larger
        <5> QED
          BY <4>1, <4>2, <5>1 DEF Hunt
      <4>5. /\ h.floor <= cut.batch /\ cut.batch <= h.batch
            /\ cut.batch < h.batch => h.floor < cut.batch
        BY <2>2, <2>3, <3>1, <3>2, <4>2
      <4>6. hunt'.floor = cut.batch
        BY <2>3, <4>2, <4>3, <4>4, <4>5 DEF Thermal!Larger
      <4> QED
        BY <1>0, <2>2, <2>3, <2>4, <3>1, <4>3, <4>4, <4>5, <4>6
    <3> QED
      BY <3>3, <3>4
  <2>8. CASE Thermal!HoldWhenWarm(temp, settled_)
    <3>1. hunt.adjusted /\ hunt' = h
      BY <2>8 DEF Thermal!HoldWhenWarm, h
    <3> QED
      BY <1>0, <2>2, <2>3, <2>4, <3>1
  <2> QED
    BY <1>2, <2>5, <2>6, <2>7, <2>8 DEF Thermal!Tick, temp
<1> QED
  BY <1>1, <1>2 DEF Thermal!Next

LEMMA ThermalInitInv == Init => ThermalInv
<1> SUFFICES ASSUME Init PROVE ThermalInv
  OBVIOUS
<1>1. planned \in PlannedSizes /\ hunt = Thermal!NoHunt
  BY DEF Init, ThermalInit, Thermal!Init
<1>2. hunt \in Hunt /\ ~hunt.adjusted
  BY <1>1 DEF Thermal!NoHunt, Hunt
<1> QED
  BY <1>1, <1>2, ThermalParameters DEF ThermalInv, Thermal!Parameters

\* "Rising low watermark. Cuts never go to or below this": within a hunt the floor
\* only rises, the batch stays on or above it and inside the plan, and a cut ends
\* above the floor it began with (hunt_thermal_scale in thermal_policy.cpp).
THEOREM CutsKeepAboveFloor == FairSpec => CutsStayAboveFloor
<1>1. ThermalInv /\ [Next]_vars => ThermalInv'
  <2> SUFFICES ASSUME ThermalInv, [Next]_vars PROVE ThermalInv'
    OBVIOUS
  <2>1. CASE Thermal!Next
    BY <2>1, ThermalKeepsInv
  <2>2. CASE UNCHANGED T
    BY <2>2 DEF T, ThermalInv
  <2> QED
    BY <2>1, <2>2, PartsApart
<1>2. ThermalInv /\ [Next]_vars => [ThermalStepIsSound]_(Thermal!vars)
  <2> SUFFICES ASSUME ThermalInv, [Next]_vars PROVE [ThermalStepIsSound]_(Thermal!vars)
    OBVIOUS
  <2>1. CASE Thermal!Next
    BY <2>1, ThermalKeepsInv
  <2>2. CASE UNCHANGED T
    BY <2>2 DEF T, Thermal!vars
  <2> QED
    BY <2>1, <2>2, PartsApart
<1> QED
  BY <1>1, <1>2, ThermalInitInv, PTL
     DEF FairSpec, CutsStayAboveFloor, Thermal!CutsStayAboveFloor, ThermalStepIsSound

-----------------------------------------------------------------------------
(* GpuPower                                                                *)

\* A limit of the miner's own is there in a mining session only, which then
\* knows the one it found; without one the card still has that, once it is
\* ended too, unless the call that puts it back was refused.
PowerInv ==
    /\ limit \in Lowest..Highest /\ found_at \in Lowest..Highest
    /\ original \in {0, found_at} /\ current \in Int /\ effective \in Int
    /\ applied \in BOOLEAN /\ refused \in BOOLEAN /\ phase \in {"up", "mining", "ended"}
    /\ applied => phase = "mining" /\ original = found_at
    /\ ~applied /\ phase # "ended" => limit = found_at
    /\ phase = "ended" /\ ~refused => limit = found_at

Allowed == Lowest..Highest
Booster == [original : Int, current : Int, applied : BOOLEAN, limit : Allowed]

\* What apply and tick keep of the record they work on.
Sound(b) == /\ b \in Booster /\ b.original \in {0, found_at}
            /\ b.applied => b.original = found_at
            /\ ~b.applied => b.limit = found_at

LEMMA RoundedIsInteger ==
    ASSUME NEW n \in Int, NEW d \in Nat \ {0}
    PROVE  Power!Rounded(n, d) \in Int
<1>1. 2 * n + d \in Int /\ 2 * d \in Nat \ {0}
  OBVIOUS
<1> QED
  BY <1>1 DEF Power!Rounded

LEMMA PowerPercents == Power!TargetPct \in 50..100 /\ Power!LeastPct \in 50..100
<1>1. Power!TargetPct \in 50..100
  BY PowerParameters DEF Power!Parameters, Power!TargetPct, Power!Bounded
<1>2. PowerMin \in Int
  BY PowerParameters DEF Power!Parameters
<1> QED
  BY <1>1, <1>2 DEF Power!LeastPct, Power!Bounded

LEMMA DesiredIsAllowed ==
    ASSUME NEW pct \in Int
    PROVE  Power!Desired(pct) \in Lowest..Highest
<1> DEFINE n == Power!Rounded(Highest * pct, 100)
<1>0. Lowest \in Nat /\ Highest \in Nat /\ Lowest <= Highest
  BY PowerParameters DEF Power!Parameters
<1>1. Highest * pct \in Int
  BY <1>0
<1>2. n \in Int
  BY <1>1, RoundedIsInteger
<1> HIDE DEF n
<1>3. Power!Bounded(n, Lowest, Highest) \in Lowest..Highest
  BY <1>0, <1>2 DEF Power!Bounded
<1> QED
  BY <1>3 DEF Power!Desired, n

LEMMA DifficultyTargetIsInteger ==
    ASSUME NEW m \in Loads
    PROVE  Power!DifficultyTarget(m) \in Int
<1> DEFINE over == Power!Bounded(m - Reference, 0, Reference)
           n == Power!TargetPct * Reference - over * (Power!TargetPct - Power!LeastPct)
<1>1. Reference \in Nat \ {0} /\ m \in Nat
  BY PowerParameters DEF Power!Parameters
<1>2. over \in Nat
  BY <1>1 DEF Power!Bounded
<1> HIDE DEF over
<1>3. n \in Int
  BY <1>1, <1>2, PowerPercents
<1> HIDE DEF n
<1>4. Power!Rounded(n, Reference) \in Int
  BY <1>1, <1>3, RoundedIsInteger
<1> QED
  BY <1>4 DEF Power!DifficultyTarget, n, over

LEMMA SensorIsInteger ==
    ASSUME NEW temp \in Int, NEW warn \in Int, NEW most \in Int, effective \in Int
    PROVE  Power!SensorPct(temp, warn, most) \in Int
<1> DEFINE span == Power!Greater(1, most - warn)
           n == effective * span - (temp - warn) * (effective - Power!LeastPct)
<1>1. span \in Nat \ {0} /\ Power!LeastPct \in Int
  BY PowerPercents DEF Power!Greater
<1> HIDE DEF span
<1>2. n \in Int
  BY <1>1
<1> HIDE DEF n
<1>3. Power!Rounded(n, span) \in Int
  BY <1>1, <1>2, RoundedIsInteger
<1> QED
  BY <1>1, <1>3 DEF Power!SensorPct, n, span

LEMMA HeatedIsInteger ==
    ASSUME NEW reading \in Heats, effective \in Int
    PROVE  Power!HeatedPct(reading) \in Int
<1>1. /\ reading[1] \in Int /\ reading[2] \in Int
      /\ WarnGpu \in Int /\ MaxGpu \in Int /\ WarnMem \in Int /\ MaxMem \in Int
  BY PowerParameters DEF Power!Parameters
<1>2. /\ Power!SensorPct(reading[1], WarnGpu, MaxGpu) \in Int
      /\ Power!SensorPct(reading[2], WarnMem, MaxMem) \in Int
  BY <1>1, SensorIsInteger
<1> QED
  BY <1>2 DEF Power!HeatedPct

LEMMA StateIsBooster ==
    ASSUME PowerInv
    PROVE  /\ Power!State \in Booster
           /\ Power!State.original = original /\ Power!State.applied = applied
           /\ Power!State.limit = limit
<1>1. /\ Allowed \subseteq Int /\ limit \in Allowed /\ found_at \in Allowed /\ current \in Int
      /\ applied \in BOOLEAN /\ original \in {0, found_at}
  BY PowerParameters DEF Power!Parameters, PowerInv, Allowed
<1>2. original \in Int
  BY <1>1
<1>3. [original |-> original, current |-> current, applied |-> applied, limit |-> limit]
          \in Booster
  BY <1>1, <1>2, Zenon DEF Booster
<1> QED
  BY <1>3 DEF Power!State

\* apply, on a booster without a limit of its own.
LEMMA AppliedIsSound ==
    ASSUME PowerInv, ~applied, phase # "ended", NEW nvml \in BOOLEAN, NEW smi \in BOOLEAN
    PROVE  Sound(Power!AppliedTo(Power!State, nvml, smi))
<1> DEFINE desired == Power!Desired(effective)
           whole   == (desired \div 1000) * 1000
           b       == Power!State
           read    == [b EXCEPT !.original = b.limit]
           set     == [read EXCEPT !.current = desired, !.applied = TRUE]
<1>0. Lowest \in Nat /\ Highest \in Nat /\ Allowed \subseteq Int
  BY PowerParameters DEF Power!Parameters, Allowed
<1>1. desired \in Lowest..Highest
  BY DesiredIsAllowed DEF PowerInv
<1> HIDE DEF desired
<1>2. whole \in Int /\ whole <= desired
  BY <1>0, <1>1
<1>3. whole >= Lowest => whole \in Allowed
  BY <1>0, <1>1, <1>2 DEF Allowed
<1> HIDE DEF whole
<1>4. limit = found_at /\ limit \in Allowed /\ original \in {0, found_at} /\ current \in Int
  BY DEF PowerInv, Allowed
<1>5. b \in Booster /\ ~b.applied /\ b.limit = found_at /\ found_at \in Int
  BY <1>0, <1>4, StateIsBooster
<1> HIDE DEF b
<1>6. read \in Booster /\ ~read.applied /\ read.limit = found_at /\ read.original = found_at
  BY <1>5 DEF Booster
<1> HIDE DEF read
<1>7. /\ set \in Booster /\ set.applied /\ set.original = found_at
      /\ desired \in Allowed
  <2>1. desired \in Int /\ desired \in Allowed
    BY <1>0, <1>1 DEF Allowed
  <2> QED
    BY <1>6, <2>1 DEF Booster
<1> HIDE DEF set
<1>8. Sound(read)
  BY <1>6 DEF Sound
<1>9. ASSUME NEW to \in Allowed PROVE Sound([set EXCEPT !.limit = to])
  BY <1>7, <1>9 DEF Sound, Booster
<1>10. Power!AppliedTo(b, nvml, smi) =
           IF nvml THEN [set EXCEPT !.limit = desired]
           ELSE IF posix /\ smi /\ whole >= Lowest THEN [set EXCEPT !.limit = whole] ELSE read
  BY DEF Power!AppliedTo, desired, whole, read, set
<1> QED
  BY <1>3, <1>7, <1>8, <1>9, <1>10 DEF b

\* tick, on the booster that has or has not got one.
LEMMA HeatedIsSound ==
    ASSUME PowerInv, NEW b, Sound(b), NEW reading \in Heats, NEW nvml \in BOOLEAN
    PROVE  Sound(Power!HeatedTo(b, reading, nvml))
<1> DEFINE desired == Power!Desired(Power!HeatedPct(reading))
<1>1. Lowest \in Nat /\ Highest \in Nat
  BY PowerParameters DEF Power!Parameters
<1>2. desired \in Int /\ desired \in Allowed
  <2>1. desired \in Lowest..Highest
    BY HeatedIsInteger, DesiredIsAllowed DEF PowerInv
  <2> HIDE DEF desired
  <2> QED
    BY <1>1, <2>1 DEF Allowed
<1>3. Power!HeatedTo(b, reading, nvml) =
          IF b.applied /\ b.current # desired /\ nvml
          THEN [b EXCEPT !.current = desired, !.limit = desired] ELSE b
  BY DEF Power!HeatedTo
<1> HIDE DEF desired
<1>4. b.applied => Sound([b EXCEPT !.current = desired, !.limit = desired])
  BY <1>2 DEF Sound, Booster
<1> QED
  BY <1>3, <1>4

LEMMA PowerInitInv == Init => PowerInv
<1> SUFFICES ASSUME Init PROVE PowerInv
  OBVIOUS
<1>1. /\ phase = "up" /\ limit = Highest /\ found_at = Highest /\ original = 0 /\ current = 0
      /\ applied = FALSE /\ refused = FALSE /\ effective = Power!TargetPct
  BY DEF Init, PowerInit, Power!Init
<1>2. Highest \in Lowest..Highest
  BY PowerParameters DEF Power!Parameters
<1>3. effective \in Int
  BY <1>1, PowerPercents
<1>4. applied \in BOOLEAN /\ refused \in BOOLEAN /\ ~applied
  BY <1>1
<1> QED
  BY <1>1, <1>2, <1>3, <1>4 DEF PowerInv

LEMMA PowerKeepsInv ==
    ASSUME PowerInv, [Power!Next]_Z
    PROVE  PowerInv'
<1>0. Lowest \in Nat /\ Highest \in Nat /\ Lowest <= Highest
  BY PowerParameters DEF Power!Parameters
\* A step that leaves a sound record in a mining session.
<1>m. ASSUME NEW b, Sound(b), Power!Become(b), phase' = "mining",
             UNCHANGED <<effective, found_at, refused>>
      PROVE  PowerInv'
  <2>1. original' = b.original /\ current' = b.current /\ applied' = b.applied /\ limit' = b.limit
    BY <1>m DEF Power!Become
  <2>2. /\ b.current \in Int /\ b.applied \in BOOLEAN /\ b.limit \in Lowest..Highest
        /\ b.original \in {0, found_at} /\ (b.applied => b.original = found_at)
        /\ (~b.applied => b.limit = found_at)
    BY <1>m DEF Sound, Booster, Allowed
  <2> QED
    BY <1>m, <2>1, <2>2 DEF PowerInv
<1>1. CASE Power!Apply
  <2>1. PICK nvml \in BOOLEAN, smi \in BOOLEAN :
            Power!Become(Power!AppliedTo(Power!State, nvml, smi))
    BY <1>1 DEF Power!Apply
  <2>2. ~applied /\ phase = "up" /\ phase' = "mining" /\ UNCHANGED <<effective, found_at, refused>>
    BY <1>1 DEF Power!Apply, PowerInv
  <2> QED
    BY <1>m, <2>1, <2>2, AppliedIsSound
<1>2. ASSUME NEW reading \in Heats, Power!Tick(reading) PROVE PowerInv'
  <2>1. PICK nvml \in BOOLEAN, smi \in BOOLEAN, then \in BOOLEAN :
            Power!Become(Power!HeatedTo(IF applied THEN Power!State
                                        ELSE Power!AppliedTo(Power!State, nvml, smi),
                                        reading, then))
    BY <1>2 DEF Power!Tick
  <2>2. phase = "mining" /\ phase' = "mining" /\ UNCHANGED <<effective, found_at, refused>>
    BY <1>2 DEF Power!Tick
  <2>3. applied => Sound(Power!State)
    BY <2>2, StateIsBooster DEF PowerInv, Sound
  <2>4. Sound(IF applied THEN Power!State ELSE Power!AppliedTo(Power!State, nvml, smi))
    BY <2>2, <2>3, AppliedIsSound
  <2> QED
    BY <1>m, <2>1, <2>2, <2>4, HeatedIsSound
<1>3. ASSUME NEW m \in Loads, Power!SetDifficulty(m) PROVE PowerInv'
  <2>1. effective' \in Int
    BY <1>3, DifficultyTargetIsInteger DEF Power!SetDifficulty
  <2> QED
    BY <1>3, <2>1 DEF Power!SetDifficulty, Power!booster, PowerInv
<1>4. CASE Power!Restore
  <2>1. PICK nvml \in BOOLEAN : /\ limit' = IF original # 0 /\ nvml THEN original ELSE limit
                                /\ refused' = (original # 0 /\ ~nvml)
    BY <1>4 DEF Power!Restore
  <2>2. /\ phase # "ended" /\ phase' = "ended" /\ applied' = FALSE
        /\ UNCHANGED <<effective, original, current, found_at>>
    BY <1>4 DEF Power!Restore
  <2>3. (original # 0 /\ ~nvml) \in BOOLEAN
    OBVIOUS
  <2>4. refused' \in BOOLEAN /\ (refused' <=> original # 0 /\ ~nvml)
    BY <2>1, <2>3
  <2>5. limit' \in Lowest..Highest /\ (~refused' => limit' = found_at)
    <3>1. /\ original \in {0, found_at} /\ limit \in Lowest..Highest
          /\ found_at \in Lowest..Highest /\ found_at # 0
          /\ applied => original = found_at
          /\ ~applied => limit = found_at
      BY <1>0, <2>2, PowerParameters DEF PowerInv, Power!Parameters
    <3>2. CASE original # 0 /\ nvml
      BY <2>1, <3>1, <3>2
    <3>3. CASE ~(original # 0 /\ nvml)
      BY <2>1, <2>4, <3>1, <3>3
    <3> QED
      BY <3>2, <3>3
  <2> QED
    <3>1. applied' \in BOOLEAN /\ ~applied'
      BY <2>2
    <3> QED
      BY <2>2, <2>4, <2>5, <3>1 DEF PowerInv
<1>5. CASE Power!StartAgain
  <2>1. effective' \in Int
    BY <1>5, PowerPercents DEF Power!StartAgain
  <2>2. /\ phase' = "up" /\ found_at' = limit /\ limit' = limit
        /\ original' = 0 /\ current' = 0 /\ applied' = FALSE /\ refused' = FALSE
    BY <1>5 DEF Power!StartAgain
  <2>3. applied' \in BOOLEAN /\ refused' \in BOOLEAN /\ ~applied'
    BY <2>2
  <2> QED
    BY <2>1, <2>2, <2>3 DEF PowerInv
<1>6. CASE UNCHANGED Z
  BY <1>6 DEF Z, PowerInv
<1> QED
  BY <1>1, <1>2, <1>3, <1>4, <1>5, <1>6 DEF Power!Next

\* A session that ends leaves the power limit it found, whatever NVML and
\* nvidia-smi took or refused on the way, if the call that puts it back is taken;
\* and no limit is beyond the card's own (GpuPowerBooster of gpu_power.cpp).
THEOREM PowerLimitRestored == FairSpec => []LimitRestored
<1>1. PowerInv => LimitRestored
  BY DEF PowerInv, LimitRestored, Power!LimitRestored
<1>2. PowerInv /\ [Next]_vars => PowerInv'
  BY PartsApart, PowerKeepsInv
<1> QED
  BY <1>1, <1>2, PowerInitInv, PTL DEF FairSpec

-----------------------------------------------------------------------------
(* KeygenPool                                                              *)

\* Chunks of h keys, c of them, cut n keys: the last is not empty and not short.
LEMMA ChunksCover ==
    ASSUME NEW n \in Nat \ {0}, NEW u \in 1..n
    PROVE  LET h == (n + u - 1) \div u
               c == (n - 1) \div h + 1
           IN h \in Nat \ {0} /\ c \in 1..u /\ (c - 1) * h < n /\ n <= c * h
<1> DEFINE h == (n + u - 1) \div u
           c == (n - 1) \div h + 1
<1>1. h \in Nat /\ n <= u * h /\ h # 0
  <2>1. h \in Nat /\ n + u - 1 < (h + 1) * u
    OBVIOUS
  <2>2. (h + 1) * u = u * h + u
    BY <2>1
  <2> HIDE DEF h
  <2> QED
    BY <2>1, <2>2
<1> HIDE DEF h
<1>2. c \in Nat \ {0} /\ (c - 1) * h <= n - 1 /\ n - 1 < c * h
  BY <1>1
<1> HIDE DEF c
<1>3. c <= u
  <2> SUFFICES ASSUME u <= c - 1 PROVE FALSE
    BY <1>2
  <2>1. u * h <= (c - 1) * h
    BY <1>1, <1>2
  <2> QED
    BY <1>1, <1>2, <2>1
<1> QED
  BY <1>1, <1>2, <1>3 DEF c, h

KJob == [lane : Lane, call : Nat, keys : SUBSET Nat]

\* What fill queues: different jobs of its own lane and call, that have all the
\* keys.
LEMMA JobsCoverBatch ==
    ASSUME NEW l \in Lane, NEW n \in Counts, fills \in Nat
    PROVE  LET J == Keygen!Jobs(l, n)
           IN /\ J \in Seq(KJob)
              /\ \A i \in 1..Len(J) : J[i].lane = l /\ J[i].call = fills + 1
              /\ \A i, j \in 1..Len(J) : J[i] = J[j] => i = j
              /\ UNION {J[i].keys : i \in 1..Len(J)} = 1..n
<1> DEFINE u == Keygen!Use(n)
           h == Keygen!Chunk(n)
           c == (n - 1) \div h + 1
           keys(t) == {k \in 1..n : (t - 1) * h < k /\ k <= t * h}
           J == Keygen!Jobs(l, n)
<1>0. n \in Nat \ {0}
  BY KeygenParameters DEF Keygen!Parameters
<1>1. Keygen!Cardinality(KeyWorker) \in Nat \ {0}
  <2>1. IsFiniteSet(KeyWorker) /\ KeyWorker # {}
    BY KeygenParameters DEF Keygen!Parameters, Keygen!IsFiniteSet, IsFiniteSet
  <2>2. Cardinality(KeyWorker) \in Nat /\ Cardinality(KeyWorker) # 0
    BY <2>1, FS_CardinalityType, FS_EmptySet
  <2> QED
    BY <2>2 DEF Keygen!Cardinality, Cardinality
<1>2. u \in 1..n
  BY <1>0, <1>1 DEF Keygen!Use
<1> HIDE DEF u
<1>3. h \in Nat \ {0} /\ c \in 1..u /\ (c - 1) * h < n /\ n <= c * h
  <2>1. h = (n + u - 1) \div u
    BY DEF Keygen!Chunk, u
  <2> HIDE DEF h
  <2> QED
    BY <1>0, <1>2, <2>1, ChunksCover
<1> HIDE DEF h, c
<1>4. Keygen!Begins(n) = {(t - 1) * h : t \in 1..c}
  <2>1. Keygen!Begins(n) = {(t - 1) * h : t \in 1..u} \cap 0..(n - 1)
    BY DEF Keygen!Begins, h, u
  <2>2. ASSUME NEW t \in 1..u, (t - 1) * h \in 0..(n - 1) PROVE t \in 1..c
    <3> SUFFICES ASSUME c <= t - 1 PROVE FALSE
      BY <1>2, <1>3
    <3>1. c * h <= (t - 1) * h
      BY <1>2, <1>3
    <3> QED
      BY <1>0, <1>3, <2>2, <3>1
  <2>3. ASSUME NEW t \in 1..c PROVE t \in 1..u /\ (t - 1) * h \in 0..(n - 1)
    <3>1. (t - 1) * h <= (c - 1) * h /\ 0 <= (t - 1) * h
      BY <1>2, <1>3
    <3> QED
      BY <1>0, <1>2, <1>3, <3>1
  <2> QED
    BY <2>1, <2>2, <2>3
<1>5. Keygen!Cardinality(Keygen!Begins(n)) = c
  <2> DEFINE f == [t \in 1..c |-> (t - 1) * h]
  <2>1. \A t, v \in 1..c : f[t] = f[v] => t = v
    <3> TAKE t \in 1..c, v \in 1..c
    <3> HAVE f[t] = f[v]
    <3>1. (t - v) * h = 0
      BY <1>3
    <3> QED
      BY <1>3, <3>1
  <2>2. f \in Bijection(1..c, Keygen!Begins(n))
    <3>1. f \in [1..c -> Keygen!Begins(n)]
      BY <1>4
    <3>2. \A x \in Keygen!Begins(n) : \E t \in 1..c : f[t] = x
      BY <1>4
    <3> HIDE DEF f
    <3> QED
      BY <2>1, <3>1, <3>2 DEF Bijection, Injection, Surjection, IsInjective
  <2>3. Cardinality(Keygen!Begins(n)) = c
    BY <1>3, <2>2, FS_CountingElements DEF ExistsBijection
  <2> QED
    BY <2>3 DEF Keygen!Cardinality, Cardinality
<1>6. J = [t \in 1..c |-> [lane |-> l, call |-> fills + 1, keys |-> keys(t)]]
  BY <1>5 DEF Keygen!Jobs, h
<1> HIDE DEF J
<1>7. /\ J \in Seq(KJob) /\ Len(J) = c
      /\ \A i \in 1..c : J[i].lane = l /\ J[i].call = fills + 1 /\ J[i].keys = keys(i)
  <2>1. \A i \in 1..c : J[i] \in KJob
    BY <1>6 DEF KJob
  <2>2. J \in [1..c -> KJob] /\ c \in Nat
    <3> HIDE DEF keys
    <3> QED
      BY <1>3, <1>6, <2>1
  <2>3. J \in Seq(KJob) /\ Len(J) = c
    BY <2>2
  <2> QED
    BY <1>6, <2>3
<1>8. \A i, j \in 1..c : i < j => keys(i) # keys(j)
  <2> SUFFICES ASSUME NEW i \in 1..c, NEW j \in 1..c, i < j
               PROVE  (i - 1) * h + 1 \in keys(i) /\ (i - 1) * h + 1 \notin keys(j)
    OBVIOUS
  <2>1. (i - 1) * h <= (c - 1) * h /\ (i - 1) * h + h = i * h /\ i * h <= (j - 1) * h
    BY <1>3
  <2>2. (i - 1) * h \in Nat /\ (j - 1) * h \in Nat /\ (c - 1) * h \in Nat
    BY <1>3
  <2> QED
    BY <1>0, <1>3, <2>1, <2>2
<1>9. ASSUME NEW k \in 1..n PROVE \E i \in 1..c : k \in keys(i)
  <2> DEFINE i == (k - 1) \div h + 1
  <2>1. i \in Nat \ {0} /\ (i - 1) * h <= k - 1 /\ k - 1 < i * h
    BY <1>3
  <2> HIDE DEF i
  <2>2. i <= c
    <3> SUFFICES ASSUME c <= i - 1 PROVE FALSE
      BY <1>3, <2>1
    <3>1. c * h <= (i - 1) * h
      BY <1>3, <2>1
    <3> QED
      BY <1>0, <1>3, <2>1, <3>1
  <2>3. (i - 1) * h < k /\ k <= i * h
    BY <1>3, <2>1
  <2> QED
    BY <1>0, <1>3, <2>1, <2>2, <2>3
<1>10. UNION {J[i].keys : i \in 1..Len(J)} = 1..n
  <2>1. \A i \in 1..c : keys(i) \subseteq 1..n
    OBVIOUS
  <2> HIDE DEF keys
  <2> QED
    BY <1>7, <1>9, <2>1
<1>11. \A i, j \in 1..Len(J) : J[i] = J[j] => i = j
  <2> HIDE DEF keys
  <2> QED
    BY <1>3, <1>7, <1>8
<1> QED
  BY <1>7, <1>10, <1>11 DEF J

Busy(w) == kpc[w] \in {"fill", "countdown"}

Queued == {q[i] : i \in 1..Len(q)}
Held   == {job[w] : w \in {v \in KeyWorker : Busy(v)}}
Todo   == Queued \cup {job[w] : w \in {v \in KeyWorker : kpc[v] = "fill"}}

\* The jobs of a lane that are not counted down, and those not even written.
Out(l)    == {j \in Queued \cup Held : j.lane = l}
ToFill(l) == {j \in Todo : j.lane = l}

\* No job is there twice, so a set of jobs can be counted.
Distinct ==
    /\ \A i, j \in 1..Len(q) : q[i] = q[j] => i = j
    /\ \A v, w \in KeyWorker : Busy(v) /\ Busy(w) /\ job[v] = job[w] => v = w
    /\ \A i \in 1..Len(q) : \A w \in KeyWorker : Busy(w) => q[i] # job[w]

KeygenTypes ==
    /\ q \in Seq(KJob) /\ fills \in Nat
    /\ count \in [Lane -> Nat] /\ remaining \in [Lane -> Nat]
    /\ written \in [Lane -> SUBSET Nat]
    /\ fpc \in [Lane -> {"idle", "look", "asleep"}]
    /\ kpc \in [KeyWorker -> Keygen!KeyWorkerPC]
    /\ job \in [KeyWorker -> KJob \cup {Keygen!NoJob}]
    /\ \A w \in KeyWorker : Busy(w) => job[w] \in KJob

Counted == \A l \in Lane : IsFiniteSet(Out(l)) /\ Cardinality(Out(l)) = remaining[l]

\* The counter of a fill is the number of its jobs that have not been counted
\* down, whatever threads have them, and what is not in the arena is in a job that
\* has not been written; a fill that has returned saw zero.
KeygenInv ==
    /\ KeygenTypes /\ Distinct /\ Counted
    /\ \A l \in Lane : written[l] \cup UNION {j.keys : j \in ToFill(l)} = 1..count[l]
    /\ \A l \in Lane : fpc[l] = "idle" => remaining[l] = 0

LEMMA KeygenInitInv == Init => KeygenInv
<1> SUFFICES ASSUME Init PROVE KeygenInv
  OBVIOUS
<1>1. /\ q = <<>> /\ fills = 0 /\ count = [l \in Lane |-> 0]
      /\ fpc = [l \in Lane |-> "idle"] /\ remaining = [l \in Lane |-> 0]
      /\ written = [l \in Lane |-> {}]
      /\ kpc = [w \in KeyWorker |-> "wait"] /\ job = [w \in KeyWorker |-> Keygen!NoJob]
  BY DEF Init, KeygenInit, Keygen!Init
<1>2. \A w \in KeyWorker : ~Busy(w) /\ kpc[w] # "fill"
  BY <1>1 DEF Busy
<1>3. q \in Seq(KJob) /\ Len(q) = 0
  BY <1>1
<1>4. Queued = {} /\ Held = {} /\ Todo = {}
  BY <1>2, <1>3 DEF Queued, Held, Todo
<1>5. \A l \in Lane : Out(l) = {} /\ ToFill(l) = {}
  BY <1>4 DEF Out, ToFill
<1>6. KeygenTypes
  BY <1>1, <1>2, <1>3 DEF KeygenTypes, Keygen!KeyWorkerPC
<1>7. Distinct
  BY <1>2, <1>3 DEF Distinct
<1>8. Counted
  BY <1>1, <1>5, FS_EmptySet DEF Counted
<1>9. \A l \in Lane : written[l] \cup UNION {j.keys : j \in ToFill(l)} = 1..count[l]
  BY <1>1, <1>5
<1> QED
  BY <1>1, <1>6, <1>7, <1>8, <1>9 DEF KeygenInv

\* A lane that is idle has no job anywhere.
LEMMA IdleHasNoJob ==
    ASSUME KeygenInv, NEW l \in Lane, fpc[l] = "idle"
    PROVE  Out(l) = {} /\ ToFill(l) = {} /\ written[l] = 1..count[l]
<1>1. Out(l) = {}
  BY FS_EmptySet DEF KeygenInv, Counted
<1>2. ToFill(l) = {}
  BY <1>1 DEF Out, ToFill, Todo, Held, Busy
<1> QED
  BY <1>1, <1>2 DEF KeygenInv

LEMMA FillKeepsInv ==
    ASSUME KeygenInv, NEW l \in Lane, NEW n \in Counts, Keygen!Fill(l, n)
    PROVE  KeygenInv'
<1> DEFINE J == Keygen!Jobs(l, n)
           js == {J[i] : i \in 1..Len(J)}
<1>0. /\ fpc[l] = "idle" /\ q' = q \o J /\ remaining' = [remaining EXCEPT ![l] = Len(J)]
      /\ fills' = fills + 1 /\ count' = [count EXCEPT ![l] = n]
      /\ written' = [written EXCEPT ![l] = {}] /\ fpc' = [fpc EXCEPT ![l] = "look"]
      /\ kpc' = kpc /\ job' = job
  BY DEF Keygen!Fill, Keygen!workers
<1>1. /\ J \in Seq(KJob) /\ \A i \in 1..Len(J) : J[i].lane = l
      /\ \A i, j \in 1..Len(J) : J[i] = J[j] => i = j
      /\ UNION {J[i].keys : i \in 1..Len(J)} = 1..n
  BY JobsCoverBatch DEF KeygenInv, KeygenTypes
<1> HIDE DEF J
<1>2. n \in Nat /\ KeygenTypes /\ Distinct /\ Counted
  BY KeygenParameters DEF Keygen!Parameters, KeygenInv
<1>3. Out(l) = {} /\ ToFill(l) = {}
  BY <1>0, IdleHasNoJob
<1>4. /\ q' \in Seq(KJob) /\ Len(q') = Len(q) + Len(J)
      /\ \A i \in 1..(Len(q) + Len(J)) : q'[i] = IF i <= Len(q) THEN q[i] ELSE J[i - Len(q)]
  <2>1. q \in Seq(KJob)
    BY <1>2 DEF KeygenTypes
  <2> QED
    BY <1>0, <1>1, <2>1, ConcatProperties
<1>5. Len(q) \in Nat /\ Len(J) \in Nat
  BY <1>1, <1>2, LenProperties DEF KeygenTypes
<1>6. /\ \A i \in 1..Len(q) : q'[i] = q[i] /\ i \in 1..Len(q')
      /\ \A i \in 1..Len(J) : q'[Len(q) + i] = J[i] /\ Len(q) + i \in 1..Len(q')
      /\ \A i \in 1..Len(q') : \/ i \in 1..Len(q) /\ q'[i] = q[i]
                               \/ i - Len(q) \in 1..Len(J) /\ q'[i] = J[i - Len(q)]
  BY <1>4, <1>5
<1>7. Queued' = Queued \cup js /\ Held' = Held /\ Todo' = Todo \cup js
  <2>1. Queued' = Queued \cup js
    <3>1. ASSUME NEW i \in 1..Len(q') PROVE q'[i] \in Queued \cup js
      BY <1>6 DEF Queued
    <3>2. ASSUME NEW i \in 1..Len(q) PROVE q[i] \in Queued'
      BY <1>6 DEF Queued
    <3>3. ASSUME NEW i \in 1..Len(J) PROVE J[i] \in Queued'
      BY <1>6 DEF Queued
    <3>4. Queued' \subseteq Queued \cup js
      BY <3>1 DEF Queued
    <3>5. Queued \subseteq Queued'
      BY <3>2 DEF Queued
    <3>6. js \subseteq Queued'
      BY <3>3
    <3> QED
      BY <3>4, <3>5, <3>6
  <2>2. Held' = Held /\ \A w : Busy(w)' = Busy(w)
    BY <1>0 DEF Held, Busy
  <2> QED
    BY <1>0, <2>1, <2>2 DEF Todo
<1>8. /\ Out(l)' = js /\ ToFill(l)' = js
      /\ \A m \in Lane \ {l} : Out(m)' = Out(m) /\ ToFill(m)' = ToFill(m)
  BY <1>1, <1>3, <1>7 DEF Out, ToFill
<1>9. KeygenTypes'
  BY <1>0, <1>2, <1>4, <1>5 DEF KeygenTypes, Busy
<1>10. Distinct'
  <2>1. \A i \in 1..Len(q) : q[i].lane # l
    BY <1>3 DEF Out, Queued
  <2>2. \A w \in KeyWorker : Busy(w) => job[w].lane # l
    BY <1>3 DEF Out, Held
  <2>3. \A i, j \in 1..Len(q') : q'[i] = q'[j] => i = j
    <3> TAKE i \in 1..Len(q'), j \in 1..Len(q')
    <3> HAVE q'[i] = q'[j]
    <3>1. CASE i \in 1..Len(q) /\ j \in 1..Len(q)
      BY <1>2, <1>6, <3>1 DEF Distinct
    <3>2. CASE i - Len(q) \in 1..Len(J) /\ j - Len(q) \in 1..Len(J) /\ q'[i] = J[i - Len(q)]
               /\ q'[j] = J[j - Len(q)]
      <4>1. i - Len(q) = j - Len(q)
        BY <1>1, <3>2
      <4> QED
        BY <1>5, <4>1
    <3>3. CASE i \in 1..Len(q) /\ q'[i] = q[i] /\ j - Len(q) \in 1..Len(J)
               /\ q'[j] = J[j - Len(q)]
      BY <1>1, <2>1, <3>3
    <3>4. CASE j \in 1..Len(q) /\ q'[j] = q[j] /\ i - Len(q) \in 1..Len(J)
               /\ q'[i] = J[i - Len(q)]
      BY <1>1, <2>1, <3>4
    <3> QED
      BY <1>6, <3>1, <3>2, <3>3, <3>4
  <2>4. \A i \in 1..Len(q') : \A w \in KeyWorker : Busy(w) => q'[i] # job[w]
    <3> TAKE i \in 1..Len(q')
    <3> TAKE w \in KeyWorker
    <3> HAVE Busy(w)
    <3>1. CASE i \in 1..Len(q) /\ q'[i] = q[i]
      BY <1>2, <3>1 DEF Distinct
    <3>2. CASE i - Len(q) \in 1..Len(J) /\ q'[i] = J[i - Len(q)]
      BY <1>1, <2>2, <3>2
    <3> QED
      BY <1>6, <3>1, <3>2
  <2>5. \A w \in KeyWorker : Busy(w)' = Busy(w)
    BY <1>0 DEF Busy
  <2> QED
    BY <1>0, <1>2, <2>3, <2>4, <2>5 DEF Distinct
<1>11. Counted'
  <2>1. IsFiniteSet(js) /\ Cardinality(js) = Len(J)
    <3> DEFINE f == [i \in 1..Len(J) |-> J[i]]
    <3>1. f \in [1..Len(J) -> js] /\ \A x \in js : \E i \in 1..Len(J) : f[i] = x
      OBVIOUS
    <3>2. \A i, j \in 1..Len(J) : f[i] = f[j] => i = j
      BY <1>1
    <3> HIDE DEF f, js
    <3>3. f \in Bijection(1..Len(J), js)
      BY <3>1, <3>2 DEF Bijection, Injection, Surjection, IsInjective
    <3>4. ExistsBijection(1..Len(J), js)
      BY <3>3 DEF ExistsBijection
    <3> QED
      BY <1>5, <3>4, FS_CountingElements, FS_NatBijection
  <2> HIDE DEF js
  <2> QED
    BY <1>0, <1>2, <1>8, <2>1 DEF Counted, KeygenTypes
<1>12. \A m \in Lane : written'[m] \cup UNION {j.keys : j \in ToFill(m)'} = 1..count'[m]
  <2> TAKE m \in Lane
  <2>1. CASE m = l
    <3>1. UNION {j.keys : j \in js} = 1..n
      BY <1>1
    <3>2. written'[l] = {} /\ count'[l] = n /\ ToFill(l)' = js
      BY <1>0, <1>2, <1>8 DEF KeygenTypes
    <3> HIDE DEF js
    <3> QED
      BY <2>1, <3>1, <3>2
  <2>2. CASE m # l
    <3>1. written'[m] = written[m] /\ count'[m] = count[m] /\ ToFill(m)' = ToFill(m)
      BY <1>0, <1>2, <1>8, <2>2 DEF KeygenTypes
    <3> QED
      BY <3>1 DEF KeygenInv
  <2> QED
    BY <2>1, <2>2
<1>13. \A m \in Lane : fpc'[m] = "idle" => remaining'[m] = 0
  BY <1>0, <1>2 DEF KeygenTypes, KeygenInv
<1> QED
  BY <1>9, <1>10, <1>11, <1>12, <1>13 DEF KeygenInv

LEMMA TakeJobKeepsInv ==
    ASSUME KeygenInv, NEW w \in KeyWorker, Keygen!TakeJob(w)
    PROVE  KeygenInv'
<1>0. /\ kpc[w] = "wait" /\ q # <<>> /\ q' = Tail(q)
      /\ job' = [job EXCEPT ![w] = Head(q)] /\ kpc' = [kpc EXCEPT ![w] = "fill"]
      /\ fills' = fills /\ count' = count /\ fpc' = fpc /\ remaining' = remaining
      /\ written' = written
  BY DEF Keygen!TakeJob, Keygen!lanes
<1>1. KeygenTypes /\ Distinct /\ Counted
  BY DEF KeygenInv
<1>2. /\ q' \in Seq(KJob) /\ Len(q) \in Nat \ {0} /\ Len(q') = Len(q) - 1
      /\ \A i \in 1..Len(q') : q'[i] = q[i + 1]
      /\ Head(q) = q[1] /\ q[1] \in KJob
  <2>1. q \in Seq(KJob)
    BY <1>1 DEF KeygenTypes
  <2> QED
    BY <1>0, <2>1, HeadTailProperties, EmptySeq
<1>3. /\ \A v \in KeyWorker \ {w} : kpc'[v] = kpc[v] /\ job'[v] = job[v]
      /\ kpc'[w] = "fill" /\ job'[w] = q[1]
  BY <1>0, <1>1, <1>2 DEF KeygenTypes
<1>4. Busy(w)' /\ ~Busy(w) /\ \A v \in KeyWorker \ {w} : Busy(v)' <=> Busy(v)
  BY <1>0, <1>3 DEF Busy
<1>5. Queued = Queued' \cup {q[1]}
  <2>1. ASSUME NEW i \in 1..Len(q) PROVE q[i] \in Queued' \cup {q[1]}
    <3>1. CASE i = 1
      BY <3>1
    <3>2. CASE i # 1
      <4>1. i - 1 \in 1..Len(q') /\ q'[i - 1] = q[i]
        BY <1>2, <3>2
      <4> QED
        BY <4>1 DEF Queued
    <3> QED
      BY <3>1, <3>2
  <2>2. ASSUME NEW i \in 1..Len(q') PROVE q'[i] \in Queued
    <3>1. i + 1 \in 1..Len(q) /\ q'[i] = q[i + 1]
      BY <1>2
    <3> QED
      BY <3>1 DEF Queued
  <2>3. Queued \subseteq Queued' \cup {q[1]}
    BY <2>1 DEF Queued
  <2>4. Queued' \subseteq Queued
    BY <2>2 DEF Queued
  <2>5. q[1] \in Queued
    BY <1>2 DEF Queued
  <2> QED
    BY <2>3, <2>4, <2>5
<1>6. Held' = Held \cup {q[1]}
  <2>1. Held' = {job'[v] : v \in {u \in KeyWorker : Busy(u)'}}
    BY DEF Held
  <2>2. {job'[v] : v \in {u \in KeyWorker : Busy(u)'}} = Held \cup {q[1]}
    BY <1>3, <1>4 DEF Held
  <2> QED
    BY <2>1, <2>2
<1>7. Todo' = Todo
  <2>1. {job'[v] : v \in {u \in KeyWorker : kpc'[u] = "fill"}}
           = {job[v] : v \in {u \in KeyWorker : kpc[u] = "fill"}} \cup {q[1]}
    BY <1>0, <1>3
  <2> QED
    BY <1>5, <2>1 DEF Todo
<1>8. \A l \in Lane : Out(l)' = Out(l) /\ ToFill(l)' = ToFill(l)
  BY <1>5, <1>6, <1>7 DEF Out, ToFill
<1>9. KeygenTypes'
  <2>1. kpc' \in [KeyWorker -> Keygen!KeyWorkerPC]
    BY <1>0, <1>1 DEF KeygenTypes, Keygen!KeyWorkerPC
  <2>2. job' \in [KeyWorker -> KJob \cup {Keygen!NoJob}]
    BY <1>0, <1>1, <1>2 DEF KeygenTypes
  <2>3. \A v \in KeyWorker : Busy(v)' => job'[v] \in KJob
    BY <1>1, <1>2, <1>3, <1>4 DEF KeygenTypes
  <2> QED
    BY <1>0, <1>1, <1>2, <2>1, <2>2, <2>3 DEF KeygenTypes
<1>10. Distinct'
  <2>1. \A i, j \in 1..Len(q') : q'[i] = q'[j] => i = j
    <3> TAKE i \in 1..Len(q'), j \in 1..Len(q')
    <3> HAVE q'[i] = q'[j]
    <3>1. i + 1 \in 1..Len(q) /\ j + 1 \in 1..Len(q) /\ q[i + 1] = q[j + 1]
      BY <1>2
    <3>2. i + 1 = j + 1
      BY <1>1, <3>1 DEF Distinct
    <3> QED
      BY <3>2
  <2>2. \A v, u \in KeyWorker : Busy(v)' /\ Busy(u)' /\ job'[v] = job'[u] => v = u
    <3>1. ASSUME NEW v \in KeyWorker, Busy(v) PROVE job[v] # q[1]
      BY <1>1, <1>2, <3>1 DEF Distinct
    <3> QED
      BY <1>1, <1>3, <1>4, <3>1 DEF Distinct
  <2>3. ASSUME NEW i \in 1..Len(q'), NEW v \in KeyWorker, Busy(v)' PROVE q'[i] # job'[v]
    <3>1. i + 1 \in 1..Len(q) /\ q'[i] = q[i + 1] /\ i + 1 # 1
      BY <1>2
    <3>2. CASE v = w
      <4>1. q[i + 1] # q[1]
        BY <1>1, <1>2, <3>1 DEF Distinct
      <4> QED
        BY <1>3, <3>1, <3>2, <4>1
    <3>3. CASE v # w
      <4>1. Busy(v) /\ job'[v] = job[v]
        BY <1>3, <1>4, <2>3, <3>3
      <4> QED
        BY <1>1, <3>1, <4>1 DEF Distinct
    <3> QED
      BY <3>2, <3>3
  <2> QED
    BY <2>1, <2>2, <2>3 DEF Distinct
<1>11. Counted'
  BY <1>0, <1>1, <1>8 DEF Counted
<1> QED
  BY <1>0, <1>8, <1>9, <1>10, <1>11 DEF KeygenInv

LEMMA WriteKeysKeepsInv ==
    ASSUME KeygenInv, NEW w \in KeyWorker, Keygen!WriteKeys(w)
    PROVE  KeygenInv'
<1>0. /\ kpc[w] = "fill" /\ kpc' = [kpc EXCEPT ![w] = "countdown"]
      /\ written' = [written EXCEPT ![job[w].lane] = @ \cup job[w].keys]
      /\ q' = q /\ job' = job /\ fills' = fills /\ count' = count /\ fpc' = fpc
      /\ remaining' = remaining
  BY DEF Keygen!WriteKeys
<1>1. KeygenTypes /\ Distinct /\ Counted
  BY DEF KeygenInv
<1>2. /\ \A v \in KeyWorker \ {w} : kpc'[v] = kpc[v]
      /\ kpc'[w] = "countdown" /\ \A v \in KeyWorker : Busy(v)' <=> Busy(v)
  BY <1>0, <1>1 DEF KeygenTypes, Busy
<1>3. job[w] \in KJob /\ job[w].lane \in Lane /\ job[w].keys \in SUBSET Nat
  BY <1>0, <1>1 DEF KeygenTypes, Busy, KJob
<1>4. Queued' = Queued /\ Held' = Held
  <2>1. {v \in KeyWorker : Busy(v)'} = {v \in KeyWorker : Busy(v)}
    BY <1>2
  <2> QED
    BY <1>0, <2>1 DEF Queued, Held
<1>5. Todo' = Todo \ {job[w]}
  <2>1. job[w] \notin Queued
    BY <1>0, <1>1 DEF Queued, Distinct, Busy
  <2>2. \A v \in KeyWorker : kpc[v] = "fill" /\ v # w => job[v] # job[w]
    BY <1>0, <1>1 DEF Distinct, Busy
  <2>3. {job'[v] : v \in {u \in KeyWorker : kpc'[u] = "fill"}}
           = {job[v] : v \in {u \in KeyWorker : kpc[u] = "fill"}} \ {job[w]}
    BY <1>0, <1>2, <2>2
  <2> QED
    BY <1>4, <2>1, <2>3 DEF Todo
<1>6. \A l \in Lane : Out(l)' = Out(l) /\ ToFill(l)' = ToFill(l) \ {job[w]}
  BY <1>4, <1>5 DEF Out, ToFill
<1>7. KeygenTypes'
  <2>1. kpc' \in [KeyWorker -> Keygen!KeyWorkerPC]
    BY <1>0, <1>1 DEF KeygenTypes, Keygen!KeyWorkerPC
  <2>2. written' \in [Lane -> SUBSET Nat]
    BY <1>0, <1>1, <1>3 DEF KeygenTypes
  <2> QED
    BY <1>0, <1>1, <1>2, <2>1, <2>2 DEF KeygenTypes
<1>8. Distinct'
  BY <1>0, <1>1, <1>2 DEF Distinct
<1>9. Counted'
  BY <1>0, <1>1, <1>6 DEF Counted
<1>10. \A l \in Lane : written'[l] \cup UNION {j.keys : j \in ToFill(l)'} = 1..count'[l]
  <2> TAKE l \in Lane
  <2>1. written[l] \cup UNION {j.keys : j \in ToFill(l)} = 1..count[l]
    BY DEF KeygenInv
  <2>2. ToFill(l)' = ToFill(l) \ {job[w]}
    BY <1>6
  <2>3. CASE l = job[w].lane
    <3>1. written'[l] = written[l] \cup job[w].keys
      BY <1>0, <1>1, <1>3, <2>3 DEF KeygenTypes
    <3>2. job[w] \in ToFill(l)
      BY <1>0, <2>3 DEF ToFill, Todo
    <3> QED
      BY <1>0, <2>1, <2>2, <3>1, <3>2
  <2>4. CASE l # job[w].lane
    <3>1. written'[l] = written[l]
      BY <1>0, <1>1, <1>3, <2>4 DEF KeygenTypes
    <3>2. job[w] \notin ToFill(l)
      BY <2>4 DEF ToFill
    <3>3. ToFill(l)' = ToFill(l)
      BY <2>2, <3>2
    <3> QED
      BY <1>0, <2>1, <3>1, <3>3
  <2> QED
    BY <2>3, <2>4
<1> QED
  BY <1>0, <1>7, <1>8, <1>9, <1>10 DEF KeygenInv

LEMMA CountDownKeepsInv ==
    ASSUME KeygenInv, NEW w \in KeyWorker, Keygen!CountDown(w)
    PROVE  KeygenInv'
<1> DEFINE m == job[w].lane
<1>0. /\ kpc[w] = "countdown" /\ remaining' = [remaining EXCEPT ![m] = @ - 1]
      /\ kpc' = [kpc EXCEPT ![w] = IF remaining[m] = 1 THEN "notify" ELSE "wait"]
      /\ q' = q /\ job' = job /\ fills' = fills /\ count' = count /\ fpc' = fpc
      /\ written' = written
  BY DEF Keygen!CountDown
<1>1. KeygenTypes /\ Distinct /\ Counted
  BY DEF KeygenInv
<1>2. /\ \A v \in KeyWorker \ {w} : kpc'[v] = kpc[v]
      /\ kpc'[w] \in {"notify", "wait"}
  BY <1>0, <1>1 DEF KeygenTypes
<1>3. Busy(w) /\ ~Busy(w)' /\ \A v \in KeyWorker \ {w} : Busy(v)' <=> Busy(v)
  BY <1>0, <1>2 DEF Busy
<1>4. job[w] \in KJob /\ m \in Lane
  BY <1>1, <1>3 DEF KeygenTypes, KJob
<1>5. Queued' = Queued /\ job[w] \notin Queued /\ Held' = Held \ {job[w]}
  <2>1. Queued' = Queued
    BY <1>0 DEF Queued
  <2>2. job[w] \notin Queued
    BY <1>1, <1>3 DEF Queued, Distinct
  <2>3. \A v \in KeyWorker : Busy(v) /\ v # w => job[v] # job[w]
    BY <1>1, <1>3 DEF Distinct
  <2>4. {job'[v] : v \in {u \in KeyWorker : Busy(u)'}} = Held \ {job[w]}
    BY <1>0, <1>3, <2>3 DEF Held
  <2> QED
    BY <2>1, <2>2, <2>4 DEF Held
<1>6. Todo' = Todo
  <2>1. \A v \in KeyWorker : kpc'[v] = "fill" <=> kpc[v] = "fill"
    BY <1>0, <1>2
  <2>2. {u \in KeyWorker : kpc'[u] = "fill"} = {u \in KeyWorker : kpc[u] = "fill"}
    BY <2>1
  <2> QED
    BY <1>0, <1>5, <2>2 DEF Todo
<1>7. \A l \in Lane : Out(l)' = Out(l) \ {job[w]} /\ ToFill(l)' = ToFill(l)
  BY <1>5, <1>6 DEF Out, ToFill
<1>8. job[w] \in Out(m) /\ \A l \in Lane \ {m} : job[w] \notin Out(l)
  BY <1>3 DEF Out, Held
<1>9. Counted' /\ remaining' \in [Lane -> Nat]
  <2>1. ASSUME NEW l \in Lane
        PROVE  /\ remaining'[l] \in Nat /\ IsFiniteSet(Out(l)')
               /\ Cardinality(Out(l)') = remaining'[l]
    <3>1. remaining[l] \in Nat /\ IsFiniteSet(Out(l)) /\ Cardinality(Out(l)) = remaining[l]
      BY <1>1 DEF Counted, KeygenTypes
    <3>2. IsFiniteSet(Out(l) \ {job[w]}) /\ Cardinality(Out(l) \ {job[w]}) \in Nat
      BY <3>1, FS_RemoveElement, FS_CardinalityType
    <3>3. CASE l = m
      <4>0. job[w] \in Out(l)
        BY <1>8, <3>3
      <4>1. Cardinality(Out(l) \ {job[w]}) = Cardinality(Out(l)) - 1
        BY <3>1, <4>0, FS_RemoveElement
      <4>2. remaining'[l] = remaining[l] - 1
        BY <1>0, <1>1, <1>4, <3>3 DEF KeygenTypes
      <4> QED
        BY <1>7, <3>1, <3>2, <4>1, <4>2
    <3>4. CASE l # m
      <4>1. Out(l) \ {job[w]} = Out(l)
        BY <1>8, <3>4
      <4>2. remaining'[l] = remaining[l]
        BY <1>0, <1>1, <1>4, <3>4 DEF KeygenTypes
      <4> QED
        BY <1>7, <3>1, <4>1, <4>2
    <3> QED
      BY <3>3, <3>4
  <2>2. remaining' \in [Lane -> Nat]
    BY <1>0, <1>1, <2>1 DEF KeygenTypes
  <2> QED
    BY <2>1, <2>2 DEF Counted
<1>10. KeygenTypes'
  <2>1. kpc' \in [KeyWorker -> Keygen!KeyWorkerPC]
    BY <1>0, <1>1 DEF KeygenTypes, Keygen!KeyWorkerPC
  <2>2. \A v \in KeyWorker : Busy(v)' => job'[v] \in KJob
    BY <1>0, <1>1, <1>3 DEF KeygenTypes
  <2> QED
    BY <1>0, <1>1, <1>9, <2>1, <2>2 DEF KeygenTypes
<1>11. Distinct'
  BY <1>0, <1>1, <1>3 DEF Distinct
<1>12. \A l \in Lane : fpc'[l] = "idle" => remaining'[l] = 0
  <2>1. fpc[m] # "idle"
    BY <1>4, <1>8, IdleHasNoJob
  <2>2. \A l \in Lane \ {m} : remaining'[l] = remaining[l]
    BY <1>0, <1>1, <1>4 DEF KeygenTypes
  <2> QED
    BY <1>0, <2>1, <2>2 DEF KeygenInv
<1> QED
  BY <1>0, <1>7, <1>9, <1>10, <1>11, <1>12 DEF KeygenInv

\* The steps that leave the queue, the counters and the arenas alone, and let no
\* worker take up a job or put one down.
LEMMA QuietKeepsInv ==
    ASSUME KeygenInv, q' = q, job' = job, fills' = fills, count' = count,
           remaining' = remaining, written' = written,
           fpc' \in [Lane -> {"idle", "look", "asleep"}],
           kpc' \in [KeyWorker -> Keygen!KeyWorkerPC],
           \A l \in Lane : fpc'[l] = "idle" => remaining[l] = 0,
           \A w \in KeyWorker : /\ kpc'[w] = "fill" <=> kpc[w] = "fill"
                                /\ kpc'[w] = "countdown" <=> kpc[w] = "countdown"
    PROVE  KeygenInv'
<1>1. KeygenTypes /\ Distinct /\ Counted
  BY DEF KeygenInv
<1>2. \A w \in KeyWorker : Busy(w)' <=> Busy(w)
  BY DEF Busy
<1>3. Queued' = Queued /\ Held' = Held /\ Todo' = Todo
  <2>1. {v \in KeyWorker : Busy(v)'} = {v \in KeyWorker : Busy(v)}
    BY <1>2
  <2>2. {v \in KeyWorker : kpc'[v] = "fill"} = {v \in KeyWorker : kpc[v] = "fill"}
    OBVIOUS
  <2> QED
    BY <2>1, <2>2 DEF Queued, Held, Todo
<1>4. \A l \in Lane : Out(l)' = Out(l) /\ ToFill(l)' = ToFill(l)
  BY <1>3 DEF Out, ToFill
<1>5. KeygenTypes'
  BY <1>1, <1>2 DEF KeygenTypes
<1>6. Distinct'
  BY <1>1, <1>2 DEF Distinct
<1>7. Counted'
  BY <1>1, <1>4 DEF Counted
<1> QED
  BY <1>4, <1>5, <1>6, <1>7 DEF KeygenInv

LEMMA KeygenKeepsInv ==
    ASSUME KeygenInv, [Keygen!Next]_K
    PROVE  KeygenInv'
<1>1. KeygenTypes
  BY DEF KeygenInv
<1>2. ASSUME NEW l \in Lane, NEW n \in Counts, Keygen!Fill(l, n) PROVE KeygenInv'
  BY <1>2, FillKeepsInv
<1>3. ASSUME NEW l \in Lane, Keygen!Look(l) PROVE KeygenInv'
  <2>1. fpc' = [fpc EXCEPT ![l] = IF remaining[l] = 0 THEN "idle" ELSE "asleep"]
    BY <1>3 DEF Keygen!Look
  <2>2. /\ fpc' \in [Lane -> {"idle", "look", "asleep"}]
        /\ \A m \in Lane : fpc'[m] = "idle" => remaining[m] = 0
    BY <1>1, <2>1 DEF KeygenTypes, KeygenInv
  <2> QED
    BY <1>1, <1>3, <2>2, QuietKeepsInv DEF Keygen!Look, Keygen!workers, KeygenTypes
<1>4. ASSUME NEW w \in KeyWorker, Keygen!TakeJob(w) PROVE KeygenInv'
  BY <1>4, TakeJobKeepsInv
<1>5. ASSUME NEW w \in KeyWorker, Keygen!WriteKeys(w) PROVE KeygenInv'
  BY <1>5, WriteKeysKeepsInv
<1>6. ASSUME NEW w \in KeyWorker, Keygen!CountDown(w) PROVE KeygenInv'
  BY <1>6, CountDownKeepsInv
<1>7. ASSUME NEW w \in KeyWorker, NEW pc \in {"wait", "dead", "gone"},
             kpc[w] \in {"notify", "wait"}, kpc' = [kpc EXCEPT ![w] = pc]
      PROVE  /\ kpc' \in [KeyWorker -> Keygen!KeyWorkerPC]
             /\ \A v \in KeyWorker : /\ kpc'[v] = "fill" <=> kpc[v] = "fill"
                                     /\ kpc'[v] = "countdown" <=> kpc[v] = "countdown"
  BY <1>1, <1>7 DEF KeygenTypes, Keygen!KeyWorkerPC
<1>8. ASSUME NEW w \in KeyWorker, Keygen!Notify(w) PROVE KeygenInv'
  <2>1. /\ kpc[w] = "notify" /\ kpc' = [kpc EXCEPT ![w] = "wait"]
        /\ fpc' = [fpc EXCEPT ![job[w].lane] = "look"]
    BY <1>8 DEF Keygen!Notify
  <2>2. /\ fpc' \in [Lane -> {"idle", "look", "asleep"}]
        /\ \A l \in Lane : fpc'[l] = "idle" => remaining[l] = 0
    BY <1>1, <2>1 DEF KeygenTypes, KeygenInv
  <2> QED
    BY <1>7, <1>8, <2>1, <2>2, QuietKeepsInv DEF Keygen!Notify
<1>9. ASSUME NEW w \in KeyWorker, Keygen!NotifyDeadFrame(w) \/ Keygen!WorkerExits(w)
      PROVE  KeygenInv'
  <2>1. PICK pc \in {"wait", "dead", "gone"} : kpc' = [kpc EXCEPT ![w] = pc]
    BY <1>9 DEF Keygen!NotifyDeadFrame, Keygen!WorkerExits
  <2>2. /\ kpc[w] \in {"notify", "wait"} /\ UNCHANGED Keygen!lanes /\ q' = q /\ job' = job
    BY <1>9 DEF Keygen!NotifyDeadFrame, Keygen!WorkerExits
  <2>3. \A l \in Lane : fpc[l] = "idle" => remaining[l] = 0
    BY DEF KeygenInv
  <2> QED
    BY <1>1, <1>7, <2>1, <2>2, <2>3, QuietKeepsInv DEF Keygen!lanes, KeygenTypes
<1>10. CASE Keygen!StopPool \/ UNCHANGED K
  <2>1. UNCHANGED <<q, Keygen!lanes, Keygen!workers>>
    BY <1>10 DEF Keygen!StopPool, K, Keygen!lanes, Keygen!workers
  <2>2. \A l \in Lane : fpc[l] = "idle" => remaining[l] = 0
    BY DEF KeygenInv
  <2> QED
    BY <1>1, <2>1, <2>2, QuietKeepsInv DEF Keygen!lanes, Keygen!workers, KeygenTypes
<1> QED
  BY <1>2, <1>3, <1>4, <1>5, <1>6, <1>8, <1>9, <1>10
  DEF Keygen!Next, Keygen!LaneStep, Keygen!WorkerStep

\* Whatever the number of lanes, threads and keys: when fill returns, every key of
\* the batch is in the arena and no thread has a chunk of it (KeygenPool::fill).
THEOREM FillsAreComplete == FairSpec => []FillComplete
<1>1. KeygenInv => FillComplete
  <2> SUFFICES ASSUME KeygenInv, NEW l \in Lane, fpc[l] = "idle"
               PROVE  /\ written[l] = 1..count[l]
                      /\ \A i \in DOMAIN q : q[i].lane # l
                      /\ \A w \in KeyWorker :
                             kpc[w] \in {"fill", "countdown"} => job[w].lane # l
    BY DEF FillComplete, Keygen!FillComplete
  <2>1. Out(l) = {} /\ written[l] = 1..count[l]
    BY IdleHasNoJob
  <2>2. DOMAIN q = 1..Len(q)
    BY LenProperties DEF KeygenInv, KeygenTypes
  <2> QED
    BY <2>1, <2>2 DEF Out, Queued, Held, Busy
<1>2. KeygenInv /\ [Next]_vars => KeygenInv'
  BY PartsApart, KeygenKeepsInv
<1> QED
  BY KeygenInitInv, <1>1, <1>2, PTL DEF FairSpec

\* Jobs belong to the fill that waits for them, and who has counted one down to
\* zero under a sleeper has its notify still to send.
WakeSent(l) ==
    \E w \in KeyWorker : kpc[w] = "notify" /\ job[w].lane = l /\ job[w].call = call[l]

WakeInv ==
    /\ call \in [Lane -> Nat]
    /\ \A i \in 1..Len(q) : q[i].call = call[q[i].lane]
    /\ \A w \in KeyWorker : Busy(w) => job[w].call = call[job[w].lane]
    /\ \A l \in Lane : fpc[l] = "asleep" /\ remaining[l] = 0 => WakeSent(l)

LEMMA InitWakeInv == Init => WakeInv
<1> SUFFICES ASSUME Init PROVE WakeInv
  OBVIOUS
<1>1. /\ q = <<>> /\ call = [l \in Lane |-> 0] /\ fpc = [l \in Lane |-> "idle"]
      /\ kpc = [w \in KeyWorker |-> "wait"]
  BY DEF Init, KeygenInit, Keygen!Init
<1>2. Len(q) = 0 /\ \A w \in KeyWorker : ~Busy(w)
  BY <1>1 DEF Busy
<1> QED
  BY <1>1, <1>2 DEF WakeInv

\* A fill begins: the jobs of the others are not its own.
LEMMA FillKeepsWakeInv ==
    ASSUME KeygenInv, WakeInv, NEW l \in Lane, NEW n \in Counts, Keygen!Fill(l, n)
    PROVE  WakeInv'
<1> DEFINE J == Keygen!Jobs(l, n)
<1>1. /\ fpc[l] = "idle" /\ q' = q \o J /\ call' = [call EXCEPT ![l] = fills + 1]
      /\ remaining' = [remaining EXCEPT ![l] = Len(J)]
      /\ fpc' = [fpc EXCEPT ![l] = "look"] /\ kpc' = kpc /\ job' = job
  BY DEF Keygen!Fill, Keygen!workers
<1>2. KeygenTypes
  BY DEF KeygenInv
<1>3. J \in Seq(KJob) /\ \A i \in 1..Len(J) : J[i].lane = l /\ J[i].call = fills + 1
  BY <1>2, JobsCoverBatch DEF KeygenTypes
<1> HIDE DEF J
<1>4. /\ call'[l] = fills + 1 /\ call' \in [Lane -> Nat]
      /\ \A m \in Lane \ {l} : call'[m] = call[m] /\ fpc'[m] = fpc[m]
                               /\ remaining'[m] = remaining[m]
      /\ fpc'[l] = "look"
  BY <1>1, <1>2 DEF WakeInv, KeygenTypes
<1>5. Out(l) = {}
  BY <1>1, IdleHasNoJob
<1>6. ASSUME NEW i \in 1..Len(q') PROVE q'[i].call = call'[q'[i].lane]
  <2>1. Len(q') = Len(q) + Len(J) /\ q'[i] = IF i <= Len(q) THEN q[i] ELSE J[i - Len(q)]
    <3>1. q \in Seq(KJob)
      BY <1>2 DEF KeygenTypes
    <3>2. /\ Len(q \o J) = Len(q) + Len(J)
          /\ \A k \in 1..(Len(q) + Len(J)) :
                 (q \o J)[k] = IF k <= Len(q) THEN q[k] ELSE J[k - Len(q)]
      BY <1>3, <3>1, ConcatProperties
    <3> QED
      BY <1>1, <3>2
  <2>2. Len(q) \in Nat /\ Len(J) \in Nat
    BY <1>2, <1>3, LenProperties DEF KeygenTypes
  <2>3. CASE i <= Len(q)
    <3>1. i \in 1..Len(q) /\ q'[i] = q[i] /\ q[i].lane \in Lane
      <4>1. i \in 1..Len(q) /\ q'[i] = q[i]
        BY <2>1, <2>2, <2>3
      <4>2. q[i] \in KJob
        BY <1>2, <4>1 DEF KeygenTypes
      <4> QED
        BY <4>1, <4>2 DEF KJob
    <3>2. q[i].lane # l
      BY <1>5, <3>1 DEF Out, Queued
    <3> QED
      BY <1>4, <3>1, <3>2 DEF WakeInv
  <2>4. CASE ~(i <= Len(q))
    <3>1. i - Len(q) \in 1..Len(J) /\ q'[i] = J[i - Len(q)]
      BY <2>1, <2>2, <2>4
    <3> QED
      BY <1>3, <1>4, <3>1
  <2> QED
    BY <2>3, <2>4
<1>7. ASSUME NEW w \in KeyWorker, Busy(w)' PROVE job'[w].call = call'[job'[w].lane]
  <2>1. Busy(w) /\ job[w] \in KJob
    BY <1>1, <1>2, <1>7 DEF Busy, KeygenTypes
  <2>2. job[w].lane \in Lane /\ job[w].lane # l
    BY <1>5, <2>1 DEF Out, Held, KJob
  <2> QED
    BY <1>1, <1>4, <2>1, <2>2 DEF WakeInv
<1>8. \A m \in Lane : fpc'[m] = "asleep" /\ remaining'[m] = 0 => WakeSent(m)'
  BY <1>1, <1>4 DEF WakeInv, WakeSent
<1> QED
  BY <1>4, <1>6, <1>7, <1>8 DEF WakeInv

LEMMA KeygenKeepsWakeInv ==
    ASSUME KeygenInv, WakeInv, [Keygen!Next]_K
    PROVE  WakeInv'
<1>1. KeygenTypes
  BY DEF KeygenInv
<1>2. ASSUME NEW l \in Lane, Keygen!Look(l) PROVE WakeInv'
  <2>1. /\ fpc' = [fpc EXCEPT ![l] = IF remaining[l] = 0 THEN "idle" ELSE "asleep"]
        /\ UNCHANGED <<q, call, remaining, kpc, job>>
    BY <1>2 DEF Keygen!Look, Keygen!workers
  <2>2. \A m \in Lane : fpc'[m] = "asleep" /\ remaining[m] = 0 => fpc[m] = "asleep"
    BY <1>1, <2>1 DEF KeygenTypes
  <2> QED
    BY <2>1, <2>2 DEF WakeInv, WakeSent, Busy
<1>3. ASSUME NEW w \in KeyWorker, Keygen!TakeJob(w) PROVE WakeInv'
  <2>1. /\ kpc[w] = "wait" /\ q # <<>> /\ q' = Tail(q) /\ UNCHANGED <<call, fpc, remaining>>
        /\ job' = [job EXCEPT ![w] = Head(q)] /\ kpc' = [kpc EXCEPT ![w] = "fill"]
    BY <1>3 DEF Keygen!TakeJob, Keygen!lanes
  <2>2. /\ Len(q') = Len(q) - 1 /\ Len(q) \in Nat \ {0} /\ Head(q) = q[1]
        /\ \A i \in 1..Len(q') : q'[i] = q[i + 1]
    BY <1>1, <2>1 DEF KeygenTypes
  <2>3. ASSUME NEW i \in 1..Len(q') PROVE q'[i].call = call'[q'[i].lane]
    <3>1. i + 1 \in 1..Len(q) /\ q'[i] = q[i + 1]
      BY <2>2
    <3> QED
      BY <2>1, <3>1 DEF WakeInv
  <2>4. /\ job'[w] = q[1] /\ q[1].call = call[q[1].lane]
        /\ \A v \in KeyWorker \ {w} : job'[v] = job[v] /\ kpc'[v] = kpc[v]
    BY <1>1, <2>1, <2>2 DEF KeygenTypes, WakeInv
  <2>5. ASSUME NEW v \in KeyWorker, Busy(v)' PROVE job'[v].call = call'[job'[v].lane]
    BY <2>1, <2>4, <2>5 DEF WakeInv, Busy
  <2>6. \A l \in Lane : WakeSent(l) => WakeSent(l)'
    BY <2>1, <2>4 DEF WakeSent
  <2> QED
    BY <2>1, <2>3, <2>5, <2>6 DEF WakeInv
<1>4. ASSUME NEW w \in KeyWorker, Keygen!CountDown(w) PROVE WakeInv'
  <2> DEFINE m == job[w].lane
  <2>1. /\ kpc[w] = "countdown" /\ UNCHANGED <<q, call, fpc, job>>
        /\ remaining' = [remaining EXCEPT ![m] = @ - 1]
        /\ kpc' = [kpc EXCEPT ![w] = IF remaining[m] = 1 THEN "notify" ELSE "wait"]
    BY <1>4 DEF Keygen!CountDown
  <2>2. Busy(w) /\ m \in Lane /\ job[w].call = call[m] /\ remaining[m] \in Nat
    BY <1>1, <2>1 DEF Busy, KeygenTypes, KJob, WakeInv
  <2> HIDE DEF m
  <2>3. /\ \A v \in KeyWorker \ {w} : kpc'[v] = kpc[v]
        /\ kpc'[w] = IF remaining[m] = 1 THEN "notify" ELSE "wait"
        /\ \A l \in Lane \ {m} : remaining'[l] = remaining[l]
        /\ remaining'[m] = remaining[m] - 1
    BY <1>1, <2>1, <2>2 DEF KeygenTypes
  <2>4. ASSUME NEW l \in Lane, fpc'[l] = "asleep", remaining'[l] = 0 PROVE WakeSent(l)'
    <3>1. CASE l = m
      <4>1. remaining[m] = 1
        BY <2>2, <2>3, <2>4, <3>1
      <4>2. kpc'[w] = "notify"
        BY <2>3, <4>1
      <4> QED
        BY <2>1, <2>2, <3>1, <4>2 DEF WakeSent, m
    <3>2. CASE l # m
      BY <2>1, <2>3, <2>4, <3>2 DEF WakeInv, WakeSent
    <3> QED
      BY <3>1, <3>2
  <2>5. \A v \in KeyWorker : Busy(v)' => Busy(v)
    BY <2>2, <2>3 DEF Busy
  <2> QED
    BY <2>1, <2>4, <2>5 DEF WakeInv
<1>5. ASSUME NEW w \in KeyWorker,
             Keygen!WriteKeys(w) \/ Keygen!NotifyDeadFrame(w) \/ Keygen!WorkerExits(w)
      PROVE  WakeInv'
  <2>1. UNCHANGED <<q, call, fpc, remaining, job>>
    BY <1>5 DEF Keygen!WriteKeys, Keygen!NotifyDeadFrame, Keygen!WorkerExits, Keygen!lanes
  <2>2. /\ \A v \in KeyWorker \ {w} : kpc'[v] = kpc[v]
        /\ Busy(w)' => Busy(w)
        /\ kpc[w] = "notify" => ~Keygen!FrameAlive(w)
    BY <1>1, <1>5 DEF Keygen!WriteKeys, Keygen!NotifyDeadFrame, Keygen!WorkerExits, Busy,
                      KeygenTypes
  <2>3. ASSUME NEW l \in Lane, fpc[l] = "asleep", WakeSent(l) PROVE WakeSent(l)'
    BY <2>1, <2>2, <2>3 DEF WakeSent, Keygen!FrameAlive
  <2>4. \A v \in KeyWorker : Busy(v)' => Busy(v)
    BY <2>2 DEF Busy
  <2> QED
    BY <2>1, <2>3, <2>4 DEF WakeInv
<1>6. ASSUME NEW w \in KeyWorker, Keygen!Notify(w) PROVE WakeInv'
  <2>1. /\ UNCHANGED <<q, call, remaining, job>> /\ kpc[w] = "notify"
        /\ fpc' = [fpc EXCEPT ![job[w].lane] = "look"]
        /\ kpc' = [kpc EXCEPT ![w] = "wait"]
    BY <1>6 DEF Keygen!Notify
  <2>2. /\ \A v \in KeyWorker : Busy(v)' => Busy(v)
        /\ \A v \in KeyWorker \ {w} : kpc'[v] = kpc[v]
        /\ \A l \in Lane : fpc'[l] = "asleep" => fpc[l] = "asleep" /\ job[w].lane # l
    BY <1>1, <2>1 DEF KeygenTypes, Busy
  <2>3. ASSUME NEW l \in Lane, fpc'[l] = "asleep", WakeSent(l) PROVE WakeSent(l)'
    BY <2>1, <2>2, <2>3 DEF WakeSent
  <2> QED
    BY <2>1, <2>2, <2>3 DEF WakeInv
<1>7. CASE Keygen!StopPool \/ UNCHANGED K
  BY <1>7 DEF Keygen!StopPool, Keygen!lanes, Keygen!workers, K, WakeInv, WakeSent, Busy
<1> QED
  BY <1>2, <1>3, <1>4, <1>5, <1>6, <1>7, FillKeepsWakeInv
  DEF Keygen!Next, Keygen!LaneStep, Keygen!WorkerStep

\* A caller that sleeps in fill has a chunk queued or in a worker's hands, or a
\* notify on its way to the frame it sleeps in, for any number of lanes, threads
\* and keys (KeygenPool::fill and worker_loop): its wake-up is never lost.
THEOREM SleepersAreWoken == FairSpec => []NoFillForgotten
<1>1. KeygenInv /\ WakeInv => NoFillForgotten
  <2> SUFFICES ASSUME KeygenInv, WakeInv, NEW l \in Lane, fpc[l] = "asleep"
               PROVE  \/ \E i \in DOMAIN q : q[i].lane = l
                      \/ \E w \in KeyWorker :
                             /\ job[w].lane = l
                             /\ \/ kpc[w] \in {"fill", "countdown"}
                                \/ kpc[w] = "notify" /\ Keygen!FrameAlive(w)
    BY DEF NoFillForgotten, Keygen!NoFillForgotten
  <2>1. CASE remaining[l] = 0
    BY <2>1 DEF WakeInv, WakeSent, Keygen!FrameAlive
  <2>2. CASE remaining[l] # 0
    <3>1. Out(l) # {}
      BY <2>2, FS_EmptySet DEF KeygenInv, Counted
    <3>2. DOMAIN q = 1..Len(q)
      BY LenProperties DEF KeygenInv, KeygenTypes
    <3> QED
      BY <3>1, <3>2 DEF Out, Queued, Held, Busy
  <2> QED
    BY <2>1, <2>2
<1>2. KeygenInv /\ WakeInv /\ [Next]_vars => (KeygenInv /\ WakeInv)'
  BY PartsApart, KeygenKeepsInv, KeygenKeepsWakeInv
<1>3. Init => KeygenInv /\ WakeInv
  BY KeygenInitInv, InitWakeInv
<1> QED
  BY <1>1, <1>2, <1>3, PTL DEF FairSpec
=============================================================================
