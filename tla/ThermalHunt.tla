----------------------------- MODULE ThermalHunt -----------------------------
(***************************************************************************)
(* The hunt for the batch size the card can cool: hunt_thermal_scale       *)
(* (src/src/efficiency/thermal_policy.cpp), called for every snapshot of   *)
(* the sensors through update_thermal_batch_from_temp                      *)
(* (src/src/mining/cuda_engine.cpp), and reset by each replan.             *)
(*                                                                         *)
(* Scales are percents or ratios of two batch sizes, rounded to the nearer *)
(* integer.  Of time only this is kept: whether the settle time has passed *)
(* since the last move.  consecutive_cool, over_floor_streak and lane_delta *)
(* are never read, raise_settle_s is computed and not used.                *)
(***************************************************************************)
EXTENDS Naturals

CONSTANTS PlannedSizes,       \* batches per lane a VRAM plan may come to
          StartPct, MinPct,   \* gpu_thermal_start_scale, ..._batch_min_scale
          Step,               \* thermal_batch_step
          Target, Cap,        \* warn_mem_temp_c, max_mem_temp_c
          GpuCap,             \* max_gpu_temp_c
          Readings            \* <<gpu, mem>>; mem is 0 if unreadable or not used

\* Settings::load sees to the step and to the scales.
Parameters == /\ PlannedSizes \subseteq Nat \ {0} /\ PlannedSizes # {}
              /\ StartPct \in 0..100 /\ MinPct \in 0..100 /\ Step \in Nat \ {0}
              /\ Target \in Nat /\ Cap \in Nat /\ GpuCap \in Nat
              /\ Readings \subseteq Nat \X Nat

VARIABLES planned,     \* planned_batch_per_lane_
          lane_batch,  \* batch_per_lane_
          scale,       \* thermal_batch_scale_: <<part, whole>>
          hunt,        \* thermal_hunt_; adjusted and settled stand for last_adjust_s
          result,      \* history: the last sample, and whether it was settled
          low          \* history: the batch the hunt began at or last cut to

vars == <<planned, lane_batch, scale, hunt, result, low>>

Smaller(a, b) == IF a < b THEN a ELSE b
Larger(a, b)  == IF a > b THEN a ELSE b

\* apply_batch_scale
ApplyBatchScale(batch, part, whole) == Larger(1, (2 * batch * part + whole) \div (2 * whole))

\* thermal_hunt_ = {}
NoHunt == [batch |-> 0, floor |-> 0, last_ok |-> 0, last_temp |-> 0,
           adjusted |-> FALSE, settled |-> FALSE, idle |-> 0]

NoResult == [control |-> 0, settled |-> FALSE]

Init == /\ planned \in PlannedSizes
        /\ lane_batch = planned /\ scale = <<1, 1>>
        /\ hunt = NoHunt /\ result = NoResult /\ low = 0

\* replan: a new plan keeps the scale and forgets the hunt.
Replan(size) ==
    /\ planned' = size
    /\ lane_batch' = ApplyBatchScale(size, scale[1], scale[2])
    /\ hunt' = NoHunt /\ result' = NoResult /\ low' = 0
    /\ UNCHANGED scale

MinBatch == Smaller(planned, Larger(Step, ApplyBatchScale(planned, MinPct, 100)))
InPlan(batch) == Larger(MinBatch, Smaller(planned, batch))

\* The state the hunt starts from: what it has, or the start scale.
Seeded ==
    LET start == ApplyBatchScale(planned, StartPct, 100)
    IN IF hunt.batch > 0 THEN hunt
       ELSE [hunt EXCEPT !.batch = start, !.floor = start, !.last_ok = start]

\* The junction, unless it cannot be read or the die is over its own cap; a drop
\* of 12 degrees in one sample is taken for a glitch.
ControlTemp(reading) ==
    LET gpu == reading[1]
        mem == IF reading[2] > 0 THEN reading[2] ELSE gpu
        hottest == IF gpu >= GpuCap /\ gpu > mem THEN gpu ELSE mem
    IN IF hunt.last_temp >= Target /\ hottest + 12 <= hunt.last_temp
       THEN hunt.last_temp ELSE hottest

Rising(temp) == hunt.last_temp > 0 /\ temp > hunt.last_temp
Cool(temp)   == temp <= Target /\ ~Rising(temp)
Hot(temp)    == temp >= Cap \/ temp >= Target + 2 \/ (temp >= Target /\ Rising(temp))

IdleFor(temp) == IF temp >= Target THEN Smaller(80, 12 * (temp - Target + 1)) ELSE 0

\* The state after a sample, before anything moves.
Sampled(temp, settled) ==
    [Seeded EXCEPT !.batch = InPlan(@), !.floor = Larger(MinBatch, @),
                   !.adjusted = TRUE, !.settled = settled, !.last_temp = temp,
                   !.idle = IdleFor(temp)]

\* apply: inside the settle time nothing moves.
Apply(h, next) == IF h.settled /\ next # h.batch
                  THEN [h EXCEPT !.batch = next, !.settled = FALSE] ELSE h

\* Mutant of CutTarget: the last good count, whatever the floor.
CutTargetIgnoresFloor(h) ==
    LET first == IF h.last_ok >= h.batch THEN h.batch - Step ELSE h.last_ok
    IN Smaller(h.batch, Larger(MinBatch, first))

\* Where a cut goes: to the last good count, above the floor, below the batch.
CutTarget(h) ==
    LET Above(b) == IF b <= h.floor THEN h.floor + Step ELSE b
        first    == Above(h.last_ok)
        second   == IF first >= h.batch THEN h.batch - Step ELSE first
    IN Smaller(h.batch, Larger(MinBatch, Above(second)))

\* A cut raises the floor to where it went, and also when apply did not move.
Cut(h) == LET cut == Apply(h, CutTarget(h))
          IN IF CutTarget(h) = h.batch THEN h
             ELSE [cut EXCEPT !.floor = Larger(@, cut.batch)]

\* The first sample only opens the observe window.
Observe(temp) ==
    /\ ~hunt.adjusted
    /\ hunt' = [Sampled(temp, FALSE) EXCEPT !.floor = Seeded.floor, !.idle = 0]
    /\ low' = hunt'.batch

RaiseWhenCool(temp, settled) ==
    /\ hunt.adjusted /\ Cool(temp)
    /\ LET h == [Sampled(temp, settled) EXCEPT !.last_ok = InPlan(hunt.batch)]
       IN hunt' = Apply(h, InPlan(h.batch + Step))
    /\ UNCHANGED low

CutWhenHot(temp, settled) ==
    /\ hunt.adjusted /\ Hot(temp)
    /\ hunt' = Cut(Sampled(temp, settled))
    /\ low' = IF hunt'.batch < hunt.batch THEN hunt'.batch ELSE low

HoldWhenWarm(temp, settled) ==
    /\ hunt.adjusted /\ ~Cool(temp) /\ ~Hot(temp)
    /\ hunt' = Sampled(temp, settled)
    /\ UNCHANGED low

\* One snapshot of the sensors; settled: cut_settle_s have passed.
Tick(reading, settled) ==
    LET temp == ControlTemp(reading)
    IN /\ hunt.settled => settled
       /\ Observe(temp) \/ RaiseWhenCool(temp, settled)
          \/ CutWhenHot(temp, settled) \/ HoldWhenWarm(temp, settled)
       /\ lane_batch' = hunt'.batch
       /\ scale' = IF hunt'.batch # Seeded.batch THEN <<hunt'.batch, planned>>
                   ELSE IF hunt.batch = 0 THEN <<StartPct, 100>> ELSE scale
       /\ result' = [control |-> temp, settled |-> settled /\ hunt.adjusted]
       /\ UNCHANGED planned

Next == \/ \E size \in PlannedSizes : Replan(size)
        \/ \E reading \in Readings, settled \in BOOLEAN : Tick(reading, settled)

Spec == Init /\ [][Next]_vars

-----------------------------------------------------------------------------
(* Properties                                                              *)

\* "Rising low watermark. Cuts never go to or below this." (thermal_policy.hpp):
\* within one hunt the floor only rises, the batch stays on or above it and
\* inside the plan, and a cut ends above the floor it began with.
CutsStayAboveFloor ==
    [][hunt'.adjusted => /\ hunt.floor <= hunt'.floor /\ hunt'.floor <= hunt'.batch
                         /\ hunt'.batch <= planned'
                         /\ hunt.adjusted /\ hunt'.batch < hunt.batch => hunt.floor < hunt'.batch]_vars

\* "Hard ceiling for memory-junction temperature in C. Above this the miner cuts
\* work" (miner.ini:85): a sample at the cap, with the settle time over and the
\* batch more than a step above the last low, lowers the batch.
CutsAtTheCap ==
    [][result' # result /\ result'.settled /\ result'.control >= Cap /\ low + Step < hunt.batch
          => hunt'.batch < hunt.batch]_vars
=============================================================================
