------------------------------ MODULE GpuPower ------------------------------
(***************************************************************************)
(* The card's power limit, if the miner is told to set it                  *)
(* (src/src/efficiency/gpu_power.cpp): set when the engine is up, lowered  *)
(* with heat and with the m=, put back when the session ends.  NVML may    *)
(* refuse a call; on POSIX nvidia-smi is tried when it refuses the first.  *)
(* A session may die, and the next one starts from the limit it finds.     *)
(***************************************************************************)
EXTENDS Integers

CONSTANTS Lowest, Highest,   \* external: the card's limits, in mW
          PowerTarget,       \* gpu_power_target_pct
          PowerMin,          \* gpu_power_min_pct
          WarnGpu, MaxGpu, WarnMem, MaxMem,  \* temperatures, in C
          Heats,             \* readings <<die, junction>>, junction 0 without one
          Reference,         \* vram_reference_difficulty
          Loads,             \* values of m= the network may have
          MaxSessions        \* bound: sessions

Parameters == /\ Lowest \in Nat \ {0} /\ Highest \in Nat /\ Lowest <= Highest
              /\ {PowerTarget, PowerMin, WarnGpu, MaxGpu, WarnMem, MaxMem} \subseteq Int
              /\ Heats \subseteq Int \X Int
              /\ Reference \in Nat \ {0} /\ Loads \subseteq Nat

VARIABLES posix,     \* the platform; frozen
          session,   \* the sessions so far
          phase,     \* of this one: "up", "mining", "ended"
          limit,     \* external: the limit the card has
          effective, \* effective_target_pct_
          original, current, \* original_limit_mw_ and current_limit_mw_, 0 for none
          applied,   \* applied_
          found_at,  \* history: the limit this session found
          refused    \* history: a call to put it back was refused

booster == <<original, current, applied>>
vars == <<posix, session, phase, limit, effective, booster, found_at, refused>>

Bounded(n, lo, hi) == IF n < lo THEN lo ELSE IF n > hi THEN hi ELSE n
Greater(a, b)      == IF a > b THEN a ELSE b

\* llround of a positive n/d.
Rounded(n, d) == (2 * n + d) \div (2 * d)

\* normalize_power_range
TargetPct == Bounded(PowerTarget, 50, 100)
LeastPct    == Bounded(PowerMin, 50, TargetPct)

\* difficulty_power_target_pct, with the derating complete at twice the reference.
DifficultyTarget(m) ==
    LET over == Bounded(m - Reference, 0, Reference)
    IN Rounded(TargetPct * Reference - over * (TargetPct - LeastPct), Reference)

\* A percentage of the card's highest limit, within what it takes.
Desired(pct) == Bounded(Rounded(Highest * pct, 100), Lowest, Highest)

\* A sensor takes its share of the span between target and minimum, from none at
\* its warning to all of it at its maximum.
SensorPct(t, warn, most) ==
    LET span == Greater(1, most - warn)
    IN IF t >= most THEN LeastPct
       ELSE IF t < warn THEN effective
       ELSE Rounded(effective * span - (t - warn) * (effective - LeastPct), span)

\* tick: the hotter of die and junction, if there is one.
HeatedPct(reading) ==
    LET die == SensorPct(reading[1], WarnGpu, MaxGpu)
        mem == IF reading[2] = 0 THEN effective ELSE SensorPct(reading[2], WarnMem, MaxMem)
    IN IF die < mem THEN die ELSE mem

Init == /\ posix \in BOOLEAN
        /\ session = 1 /\ phase = "up"
        /\ limit = Highest /\ found_at = limit
        /\ effective = TargetPct
        /\ original = 0 /\ current = 0 /\ applied = FALSE /\ refused = FALSE

-----------------------------------------------------------------------------

\* What a booster and its card are; nvml, smi: whether the call is taken.
State == [original |-> original, current |-> current, applied |-> applied, limit |-> limit]

Become(b) == /\ original' = b.original /\ current' = b.current
             /\ applied' = b.applied /\ limit' = b.limit

\* apply: nvidia-smi gets whole watts, and is believed to have got them all.  It
\* is told to act on card 0 whatever device_id is: the miner's card is that one
\* here, and one whose limits NVML can tell.
AppliedTo(b, nvml, smi) ==
    LET desired == Desired(effective)
        whole   == (desired \div 1000) * 1000
        read    == [b EXCEPT !.original = b.limit]
        set     == [read EXCEPT !.current = desired, !.applied = TRUE]
    IN IF nvml THEN [set EXCEPT !.limit = desired]
       ELSE IF posix /\ smi /\ whole >= Lowest THEN [set EXCEPT !.limit = whole]
       ELSE read

\* tick, once there is a limit of the booster's own.
HeatedTo(b, reading, nvml) ==
    LET desired == Desired(HeatedPct(reading))
    IN IF b.applied /\ b.current # desired /\ nvml
       THEN [b EXCEPT !.current = desired, !.limit = desired] ELSE b

Apply ==
    /\ phase = "up" /\ phase' = "mining"
    /\ \E nvml, smi \in BOOLEAN : Become(AppliedTo(State, nvml, smi))
    /\ UNCHANGED <<posix, session, effective, found_at, refused>>

\* Mutant of Tick: the limit is set anew every time.
TickApplies(reading) ==
    /\ phase = "mining"
    /\ \E nvml, smi, then \in BOOLEAN :
           Become(HeatedTo(AppliedTo(State, nvml, smi), reading, then))
    /\ UNCHANGED <<posix, session, phase, effective, found_at, refused>>

\* tick: an apply that failed is tried again.
Tick(reading) ==
    /\ phase = "mining"
    /\ \E nvml, smi, then \in BOOLEAN :
           Become(HeatedTo(IF applied THEN State ELSE AppliedTo(State, nvml, smi), reading, then))
    /\ UNCHANGED <<posix, session, phase, effective, found_at, refused>>

\* set_difficulty, with gpu_difficulty_power_enabled.
SetDifficulty(m) ==
    /\ phase # "ended"
    /\ effective' = DifficultyTarget(m)
    /\ UNCHANGED <<posix, session, phase, limit, booster, found_at, refused>>

\* restore, in finalize_session; CUDA may never have started.
Restore ==
    /\ phase # "ended" /\ phase' = "ended"
    /\ \E nvml \in BOOLEAN :
           /\ limit' = IF original # 0 /\ nvml THEN original ELSE limit
           /\ refused' = (original # 0 /\ ~nvml)
    /\ applied' = FALSE
    /\ UNCHANGED <<posix, session, effective, original, current, found_at>>

\* The process ends, or dies before it could restore; another one starts.
StartAgain ==
    /\ session < MaxSessions /\ session' = session + 1
    /\ phase' = "up" /\ found_at' = limit /\ effective' = TargetPct
    /\ original' = 0 /\ current' = 0 /\ applied' = FALSE /\ refused' = FALSE
    /\ UNCHANGED <<posix, limit>>

Next == \/ Apply \/ Restore \/ StartAgain
        \/ \E reading \in Heats : Tick(reading)
        \/ \E m \in Loads : SetDifficulty(m)

Spec == Init /\ [][Next]_vars

-----------------------------------------------------------------------------
(* Properties                                                              *)

\* A session leaves the limit it found, whatever was refused, tried again, heated
\* up or derated in between, if the call that puts it back is taken (NVML's only:
\* one that nvidia-smi has set stays); after a session that died the limit it had
\* set is what the next one finds.  No limit is ever beyond the card's own.
LimitRestored == /\ phase = "ended" /\ ~refused => limit = found_at
                 /\ limit \in Lowest..Highest
=============================================================================
