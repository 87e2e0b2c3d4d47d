------------------------------ MODULE MCParts ------------------------------
(***************************************************************************)
(* The smaller components of the miner, checked in one run: a behaviour is *)
(* a behaviour of one of them, the one `part` names, and the variables of  *)
(* the others do not move.                                                 *)
(***************************************************************************)
EXTENDS Integers

\* FlushRotation
CONSTANTS N, Wave, Kinds, Fates
VARIABLES pending, skip, window

\* KeygenPool
CONSTANTS Lane, KeyWorker, Counts, MaxFills
VARIABLES q, stop, fills, call, count, fpc, remaining, written, kpc, job

\* InstanceLock
CONSTANT Process
VARIABLES platform, named, opened, lpc, unlinked

\* ThermalHunt
CONSTANTS PlannedSizes, StartPct, MinPct, Step, Target, Cap, GpuCap, Readings
VARIABLES planned, lane_batch, scale, hunt, result, low

\* MiningSession
CONSTANTS Memory, TooBig, Pinned, LaneCaps, MaxFaults
VARIABLES hybrid, net_m, drain, cooldown, faults, spc, cooling, cap, up,
          difficulty, plan, lane_count, objects, threads, poison

\* WalletPoller
CONSTANTS Floor, Idle, MaxWait, MaxFetch
VARIABLES wrunning, force, notifying, since, tpc, forced, timer, asked, age

\* PayoutCycle
CONSTANTS DevFeePct, MaxHits
VARIABLES fee_on, mining_fee, payout, user_finds, fee_finds, cycle, ended

\* VramPlan
CONSTANTS Totals, Percents, Targets, Overheads, Hundreds, LaneLimits, Batches, MaxBatches
VARIABLES request, vplan

\* CpuLayout
CONSTANTS CoreCounts, Settings
VARIABLES machine, layout

\* ReportQueue
CONSTANTS Limit, MaxReports
VARIABLES enabled, reporting, made, rq, posting, posted, gone

\* XuniHunt
CONSTANTS SoftCap, ResumeAt, EveryN, MaxLanes, MaxXuni
VARIABLES minute, settled, rows, looped, counted, paused, seq, hunts, lanes, full, sparse

\* VerifyGate
CONSTANTS ProbeTtl, WavePause, ShortPause, LongPause, DeferPause
VARIABLES hyb, verify, matches, draining, net_ok, alive, probe_age, backoff, defer,
          turned, frozen

\* GpuPower
CONSTANTS Lowest, Highest, PowerTarget, PowerMin, WarnGpu, MaxGpu, WarnMem, MaxMem,
          Heats, Reference, Loads, MaxSessions
VARIABLES posix, session, phase, limit, effective, original, current, applied, found_at,
          refused

VARIABLE part

Rotation == INSTANCE FlushRotation
Keygen   == INSTANCE KeygenPool
Lock     == INSTANCE InstanceLock
Thermal  == INSTANCE ThermalHunt
Session  == INSTANCE MiningSession
Wallet   == INSTANCE WalletPoller
Payout   == INSTANCE PayoutCycle
Vram     == INSTANCE VramPlan
Cpu      == INSTANCE CpuLayout
Report   == INSTANCE ReportQueue
Xuni     == INSTANCE XuniHunt
Verify   == INSTANCE VerifyGate WITH hybrid <- hyb
Power    == INSTANCE GpuPower

ASSUME RotationParameters == Rotation!Parameters
ASSUME KeygenParameters   == Keygen!Parameters
ASSUME LockParameters     == Lock!Parameters
ASSUME ThermalParameters  == Thermal!Parameters
ASSUME SessionParameters  == Session!Parameters
ASSUME WalletParameters   == Wallet!Parameters
ASSUME PayoutParameters   == Payout!Parameters
ASSUME VramParameters     == Vram!Parameters
ASSUME CpuParameters      == Cpu!Parameters
ASSUME ReportParameters   == Report!Parameters
ASSUME XuniParameters     == Xuni!Parameters
ASSUME VerifyParameters   == Verify!Parameters
ASSUME PowerParameters    == Power!Parameters

Part == {"rotation", "keygen", "lock", "thermal", "session", "wallet",
         "payout", "vram", "cpu", "report", "xuni", "verify", "power"}

\* The variables of the parts; those of CpuLayout never move.
R == <<pending, skip, window>>
K == <<q, stop, fills, call, count, fpc, remaining, written, kpc, job>>
L == <<platform, named, opened, lpc, unlinked>>
T == <<planned, lane_batch, scale, hunt, result, low>>
S == <<hybrid, net_m, drain, cooldown, faults, spc, cooling, cap, up, difficulty,
       plan, lane_count, objects, threads, poison>>
W == <<wrunning, force, notifying, since, tpc, forced, timer, asked, age>>
P == <<fee_on, mining_fee, payout, user_finds, fee_finds, cycle, ended>>
V == <<request, vplan>>
C == <<machine, layout>>
Q == <<enabled, reporting, made, rq, posting, posted, gone>>
X == <<minute, settled, rows, looped, counted, paused, seq, hunts, lanes, full, sparse>>
Y == <<hyb, verify, matches, draining, net_ok, alive, probe_age, backoff, defer, turned, frozen>>
Z == <<posix, session, phase, limit, effective, original, current, applied, found_at, refused>>

vars == <<part, R, K, L, T, S, W, P, V, C, Q, X, Y, Z>>

-----------------------------------------------------------------------------

\* Each part starts as it does, or stays where it cannot move.
RotationInit == IF part = "rotation" THEN Rotation!Init
                ELSE pending = {} /\ skip = 0 /\ window = FALSE
KeygenInit   == Keygen!Init
LockInit     == Lock!Init /\ (part # "lock" => platform = "posix")
ThermalInit  == Thermal!Init /\ (part # "thermal" => planned = CHOOSE size \in PlannedSizes : TRUE)
SessionInit  == IF part = "session" THEN Session!Init
                ELSE /\ hybrid = FALSE /\ cap = 1 /\ net_m = Pinned /\ drain = FALSE
                     /\ cooldown = FALSE /\ faults = 0 /\ spc = "ended" /\ cooling = FALSE
                     /\ up = FALSE /\ difficulty = Pinned /\ plan = 0
                     /\ lane_count = 1 /\ objects = 0 /\ threads = 0 /\ poison = 0
WalletInit   == Wallet!Init
PayoutInit   == Payout!Init /\ (part # "payout" => ~fee_on)
VramInit     == IF part = "vram" THEN Vram!Init ELSE request = <<>> /\ vplan = <<>>
ReportInit   == Report!Init /\ (part # "report" => ~enabled)
XuniInit     == Xuni!Init /\ (part # "xuni" => rows = 0)
VerifyInit   == Verify!Init /\ (part # "verify" => ~hyb /\ verify = 400)
PowerInit    == Power!Init /\ (part # "power" => posix)
CpuInit      == IF part = "cpu" THEN Cpu!InitLayout ELSE machine = <<>> /\ layout = <<>>

Init == /\ part \in Part
        /\ RotationInit /\ KeygenInit /\ LockInit /\ ThermalInit /\ SessionInit
        /\ WalletInit /\ PayoutInit /\ VramInit /\ CpuInit
        /\ ReportInit /\ XuniInit /\ VerifyInit /\ PowerInit

RotationStep == part = "rotation" /\ Rotation!Next /\ UNCHANGED <<part, K, L, T, S, W, P, V, C, Q, X, Y, Z>>
KeygenStep   == part = "keygen"   /\ Keygen!Next /\ UNCHANGED <<part, R, L, T, S, W, P, V, C, Q, X, Y, Z>>
LockStep     == part = "lock"     /\ Lock!Next /\ UNCHANGED <<part, R, K, T, S, W, P, V, C, Q, X, Y, Z>>
ThermalStep  == part = "thermal"  /\ Thermal!Next /\ UNCHANGED <<part, R, K, L, S, W, P, V, C, Q, X, Y, Z>>
SessionStep  == part = "session"  /\ Session!Next /\ UNCHANGED <<part, R, K, L, T, W, P, V, C, Q, X, Y, Z>>
WalletStep   == part = "wallet"   /\ Wallet!Next /\ UNCHANGED <<part, R, K, L, T, S, P, V, C, Q, X, Y, Z>>
PayoutStep   == part = "payout"   /\ Payout!Next /\ UNCHANGED <<part, R, K, L, T, S, W, V, C, Q, X, Y, Z>>
VramStep     == part = "vram"     /\ Vram!Next /\ UNCHANGED <<part, R, K, L, T, S, W, P, C, Q, X, Y, Z>>
ReportStep   == part = "report"   /\ Report!Next /\ UNCHANGED <<part, R, K, L, T, S, W, P, V, C, X, Y, Z>>
XuniStep     == part = "xuni"     /\ Xuni!Next /\ UNCHANGED <<part, R, K, L, T, S, W, P, V, C, Q, Y, Z>>
VerifyStep   == part = "verify"   /\ Verify!Next /\ UNCHANGED <<part, R, K, L, T, S, W, P, V, C, Q, X, Z>>
PowerStep    == part = "power"    /\ Power!Next /\ UNCHANGED <<part, R, K, L, T, S, W, P, V, C, Q, X, Y>>

Next == \/ RotationStep \/ KeygenStep \/ LockStep \/ ThermalStep \/ SessionStep
        \/ WalletStep \/ PayoutStep \/ VramStep \/ ReportStep \/ XuniStep
        \/ VerifyStep \/ PowerStep

\* The fairness of the two parts that promise an end.
FairSpec == Init /\ [][Next]_vars /\ Keygen!Fairness /\ Session!Fairness

-----------------------------------------------------------------------------
(* Values of constants                                                     *)

\* A junction that warms up, is over the target, at the cap, unreadable, and a
\* die over its own cap.
SampleReadings == {<<60, 66>>, <<60, 80>>, <<60, 81>>, <<60, 84>>, <<88, 66>>, <<60, 0>>}

\* miner.ini's percents, a target that leaves too little headroom, and a headroom
\* that leaves too little for the target.
SamplePercents == {<<80, 20, 95, 6>>, <<97, 3, 90, 8>>, <<80, 50, 95, 0>>}

\* Cool, and each sensor between its warning and its maximum, or at it.
SampleHeats == {<<60, 60>>, <<75, 0>>, <<60, 82>>, <<85, 70>>}

SampleSettings == {-1, 0, 1, 5}

-----------------------------------------------------------------------------
(* The properties of the parts, each under its name there                   *)

\* list_flush_batch hands out what it should, in order.
BatchIsRight == part = "rotation" => Rotation!BatchIsRight

\* Every key is there when fill returns.
FillComplete == Keygen!FillComplete

\* A fill that sleeps has work or a wake-up on its way.
NoFillForgotten == Keygen!NoFillForgotten

\* A fill comes back.
FillEnds == Keygen!FillEnds

\* Two miners never both hold the lock.
OneMiner == Lock!OneMiner

\* A cut never goes to or below the low watermark.
CutsStayAboveFloor == Thermal!CutsStayAboveFloor

\* No lane thread is without its lane.
ThreadsHaveLanes == Session!ThreadsHaveLanes

\* The engine comes back from faults and parks.
EngineComesBack == Session!EngineComesBack

\* A forced refresh does not wait for the idle poll.
RefreshIsPrompt == Wallet!RefreshIsPrompt

\* 99 finds for the user, one for the fee.
FeeShare == Payout!FeeShare

\* A planned batch fits into the caps and fills them.
PlanFits == part = "vram" => Vram!PlanFits

\* The cores of the CUDA host are its own.
CoresApart == part = "cpu" => Cpu!CoresApart

\* What waits to be reported is the newest, in order.
NewestWait == Report!NewestWait

\* XUNI is hunted in few batches, and not while too many of them wait.
HuntsSparsely == Xuni!HuntsSparsely

\* A bag at the network's m= is not frozen while /verify is up.
FlushNotFrozen == Verify!FlushNotFrozen

\* A session leaves the card's power limit as it found it.
LimitRestored == Power!LimitRestored
=============================================================================
