------------------------------ MODULE XuniHunt ------------------------------
(***************************************************************************)
(* When the GPU hunts XUNI blocks beside the others: in a few minutes of   *)
(* the hour, in one batch of several, and not while too many of them wait  *)
(* in the disk queue (src/src/mining/cuda_engine.cpp and the loop of       *)
(* src/src/app/supervisor.cpp).  The loop counts the queue before a batch  *)
(* and the engine decides with the batch, each looking at the clock for    *)
(* itself.                                                                 *)
(***************************************************************************)
EXTENDS Integers

CONSTANTS SoftCap,    \* xuni_queue_soft_cap
          ResumeAt,   \* xuni_queue_resume
          EveryN,     \* xuni_every_n_batches
          MaxLanes,   \* xuni_max_lanes
          MaxXuni     \* bound: XUNI rows in the disk queue

Parameters == {SoftCap, ResumeAt, EveryN, MaxLanes} \subseteq Int /\ MaxXuni \in Nat

VARIABLES minute,   \* of the hour, as far as the window goes: see Minute
          settled,  \* a batch has been mined since it began
          rows,     \* XUNI rows in the disk queue
          looped,   \* the loop has counted and not yet mined
          counted,  \* pending_xuni_
          paused,   \* xuni_queue_paused_
          seq,      \* batch_seq_, as a remainder
          hunts,    \* last_allow_xuni_
          lanes,    \* lanes that hunt XUNI in this batch
          full,     \* history: a count reached the soft cap, none the resume mark since
          sparse    \* history: batches since the last that hunted

vars == <<minute, settled, rows, looped, counted, paused, seq, hunts, lanes, full, sparse>>

\* :05-:54, :55 (queued ones may go), :56-:03, and :04.
Minute == <<"closed", "submit", "mine", "taper">>

InXuniWindow       == minute \in {"mine", "taper"}
InXuniSubmitWindow == minute # "closed"
InXuniTaperWindow  == minute = "taper"

MaxOf(a, b) == IF a > b THEN a ELSE b
MinOf(a, b) == IF a < b THEN a ELSE b

\* Settings::load: a resume mark above the soft cap is half of it.
Resume == IF ResumeAt > SoftCap THEN MaxOf(0, SoftCap \div 2) ELSE MaxOf(0, ResumeAt)
Soft   == MaxOf(0, SoftCap)
Every  == MaxOf(1, EveryN)
Lanes  == MaxOf(0, MaxLanes)

\* One batch in how many hunts XUNI.
OneIn == IF InXuniTaperWindow THEN MaxOf(Every * 3, 6) ELSE Every
Round == MaxOf(Every * 3, 6)  \* every OneIn divides it

Init == /\ minute = "closed" /\ settled = FALSE /\ rows \in 0..MaxXuni
        /\ looped = FALSE /\ counted = 0 /\ paused = FALSE /\ seq = 0
        /\ hunts = FALSE /\ lanes = 0
        /\ full = FALSE /\ sparse = Round

\* External: the clock.  A batch takes seconds, a minute is longer.
Tick == /\ settled /\ settled' = FALSE
        /\ \E i \in 1..4 : minute = Minute[i] /\ minute' = Minute[(i % 4) + 1]
        /\ UNCHANGED <<rows, looped, counted, paused, seq, hunts, lanes, full, sparse>>

\* External: XUNI blocks are bagged when they are found, and flushed in their window.
QueueMoves == /\ \/ rows < MaxXuni /\ hunts /\ rows' = rows + 1
                 \/ rows > 0 /\ InXuniSubmitWindow /\ rows' = rows - 1
              /\ UNCHANGED <<minute, settled, looped, counted, paused, seq, hunts, lanes, full, sparse>>

\* The loop: the queue is walked in the window only, and counts as empty outside.
CountQueue ==
    /\ ~looped
    /\ looped' = TRUE
    /\ counted' = IF InXuniWindow THEN rows ELSE 0
    /\ full' = (counted' >= Soft \/ (full /\ counted' > Resume))
    /\ UNCHANGED <<minute, settled, rows, paused, seq, hunts, lanes, sparse>>

\* Mutant of PausedNow: hunting goes on as soon as the queue is below its cap.
PausedNowNoResume == InXuniWindow /\ counted >= Soft

\* compute_allow_xuni_base, the pause: from the soft cap down to the resume mark,
\* and not beyond the window.
PausedNow == InXuniWindow /\ (counted >= Soft \/ (paused /\ counted > Resume))

\* ... and the rest: one batch in OneIn that gets here.
MineBatch ==
    /\ looped
    /\ looped' = FALSE /\ settled' = TRUE
    /\ paused' = PausedNow
    /\ LET asked == InXuniWindow /\ ~paused' /\ Lanes > 0
       IN /\ seq' = IF asked THEN (seq + 1) % Round ELSE seq
          /\ hunts' = (asked /\ seq' % OneIn = 0)
    /\ lanes' = IF hunts' THEN (IF InXuniTaperWindow THEN MinOf(Lanes, 1) ELSE Lanes) ELSE 0
    /\ sparse' = IF hunts' THEN 0 ELSE MinOf(sparse + 1, Round)
    /\ UNCHANGED <<minute, rows, counted, full>>

Next == Tick \/ QueueMoves \/ CountQueue \/ MineBatch

Spec == Init /\ [][Next]_vars

-----------------------------------------------------------------------------
(* Properties                                                              *)

\* Hunting XUNI does not outrun the flush: after a count at the soft cap no batch
\* hunts before one at the resume mark, or one outside the window, which always
\* reads as empty; and no two batches hunt within fewer than EveryN, whatever
\* begins between them: the window, its last minute, a pause.
HuntsSparsely ==
    [][MineBatch /\ hunts' => ~full /\ sparse + 1 >= Every]_vars
=============================================================================
