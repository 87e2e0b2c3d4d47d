------------------------------ MODULE VramPlan ------------------------------
(***************************************************************************)
(* How many hashes go to the card at once: resolve_vram_caps               *)
(* (src/src/efficiency/vram_policy.cpp) turns percents into caps, and      *)
(* plan_cuda_batch (src/src/mining/vram_batch.cpp) turns caps, m= and the  *)
(* number of lanes into a batch per lane.  What runs is a request: a card, *)
(* the settings and an m=, and the plan made for it.                       *)
(*                                                                         *)
(* Sizes are in MiB.  m= is counted in hundreds of KiB: a hash takes       *)
(* m * 1.001 KiB: whole numbers stand where the code has doubles and       *)
(* bytes.  Left out are ends of clamps that nothing reaches, the reserve   *)
(* that is added to a budget and taken off again, and the free memory,     *)
(* which is only reported.                                                 *)
(***************************************************************************)
EXTENDS Naturals

CONSTANTS Totals,      \* cards, MiB
          Percents,    \* <<target, headroom, emergency, overhead>>, each 0..100
          Targets,     \* target_mib_override, 0 for none
          Overheads,   \* overhead_floor_mib
          Hundreds,    \* m= / 100
          LaneLimits,  \* cuda_max_lanes, 0 for none
          Batches,     \* explicit_batch, 0 for none
          MaxBatches   \* explicit_max_batch, 0 for none

Parameters == /\ Totals \subseteq Nat /\ Hundreds \subseteq Nat \ {0}
              /\ Percents \subseteq (0..100) \X (0..100) \X (0..100) \X (0..100)
              /\ Targets \subseteq Nat /\ Overheads \subseteq Nat /\ LaneLimits \subseteq Nat
              /\ Batches \subseteq Nat /\ MaxBatches \subseteq Nat

VARIABLES request, vplan

vars == <<request, vplan>>

Least(a, b)    == IF a < b THEN a ELSE b
Greatest(a, b) == IF a > b THEN a ELSE b
Minus(a, b)    == IF a > b THEN a - b ELSE 0

Request == [total : Totals, pct : Percents, target : Targets, floor : Overheads,
            m : Hundreds, lanes : LaneLimits, batch : Batches, max_batch : MaxBatches]

\* llround of a percentage.
PercentOf(total, pct) == (2 * total * pct + 100) \div 200

\* resolve_vram_caps, with its overrides in MiB, the target's apart, at 0, their
\* default: not set.
ResolveVramCaps(r) ==
    LET target == Greatest(1, Least(r.total, IF r.target > 0 THEN r.target
                                             ELSE PercentOf(r.total, r.pct[1])))
    IN [target    |-> target,
        headroom  |-> PercentOf(r.total, r.pct[2]),
        emergency |-> Greatest(target, PercentOf(r.total, r.pct[3])),
        overhead  |-> Least(r.total, Greatest(r.floor, PercentOf(r.total, r.pct[4])))]

\* suggested_max_lanes: the fixed table.
SuggestedMaxLanes(total) ==
    LET Row(lanes) == IF lanes = 1 THEN 0 ELSE lanes * 3584
        rows       == {lanes \in {1, 2, 4, 8, 16, 32} : total >= Row(lanes)}
    IN CHOOSE most \in rows : \A lanes \in rows : lanes <= most

\* start's max_lanes_cap_, through cuda_lane_count.
Lanes(r) == IF r.lanes > 0 THEN Least(r.lanes, SuggestedMaxLanes(r.total))
            ELSE SuggestedMaxLanes(r.total)

\* memory_limited_batch_size, for each of `lanes` lanes.
HashesIn(mib, lanes, m) == (mib * 10240) \div (lanes * m * 1001)

\* estimate_batch_vram_bytes times the lanes, in MiB.
BatchVram(batch, lanes, m) == (batch * lanes * m * 1001) \div 10240

\* select_batch_size, and the batch an explicit size leaves of it.
BatchPerLane(r, allowed) ==
    LET limit == HashesIn(allowed, Lanes(r), r.m)
        most  == IF r.max_batch > 0 THEN Least(limit, r.max_batch) ELSE limit
    IN IF r.batch > 0 THEN Least(r.batch, most) ELSE most

\* within_limits
WithinLimits(r, caps, batch) ==
    LET used == BatchVram(batch, Lanes(r), r.m) + caps.overhead
    IN used <= caps.target /\ Minus(r.total, used) >= caps.headroom

\* clamp_plan_to_caps: two percent off at a time until it fits or is one.
ClampPlanToCaps(r, caps, batch) ==
    LET Shrunk[b \in 0..batch] ==
            IF WithinLimits(r, caps, b) \/ b <= 1 THEN b
            ELSE Shrunk[Greatest(1, (b * 98) \div 100)]
        last == Shrunk[batch]
        stays == WithinLimits(r, caps, batch) \/ batch <= 1
    IN IF stays \/ ~WithinLimits(r, caps, last) THEN batch ELSE last

\* Mutant of Allowed: the desktop's headroom is forgotten.
AllowedNoHeadroom(r, caps) == Minus(caps.target, caps.overhead)

\* allowed_mib
Allowed(r, caps) == Least(Minus(caps.target, caps.overhead),
                          Minus(r.total, caps.headroom + caps.overhead))

\* plan_cuda_batch
PlanCudaBatch(r) ==
    LET caps  == ResolveVramCaps(r)
        batch == BatchPerLane(r, Allowed(r, caps))
    IN [caps |-> caps, batch |-> ClampPlanToCaps(r, caps, batch)]

Init == request \in Request /\ vplan = PlanCudaBatch(request)

\* replan: another m=, on the same card with the same settings.
Replan(m) == /\ request' = [request EXCEPT !.m = m]
             /\ vplan' = PlanCudaBatch(request')

Next == \E m \in Hundreds : Replan(m)

Spec == Init /\ [][Next]_vars

-----------------------------------------------------------------------------
(* Properties                                                              *)

\* A plan that sizes a batch is inside the target and leaves the desktop its
\* headroom, so that it never comes to the emergency mark by itself; and unless
\* a size is set it fills the card: one hash more on each lane would be over one
\* of the two.
PlanFits ==
    LET caps  == vplan.caps
        lanes == Lanes(request)
        spare == Least(caps.target, Minus(request.total, caps.headroom))
    IN /\ vplan.batch > 0 =>
              /\ WithinLimits(request, caps, vplan.batch)
              /\ BatchVram(vplan.batch, lanes, request.m) + caps.overhead <= caps.emergency
       /\ request.batch = 0 /\ request.max_batch = 0 =>
              (vplan.batch + 1) * lanes * request.m * 1001 > Minus(spare, caps.overhead) * 10240
=============================================================================
