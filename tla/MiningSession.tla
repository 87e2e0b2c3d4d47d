---------------------------- MODULE MiningSession ----------------------------
(***************************************************************************)
(* The mining loop of the supervisor (run in src/src/app/supervisor.cpp)   *)
(* and the CUDA engine it starts, parks, resizes, stops after an emergency *)
(* or a device error, and starts again (src/src/mining/cuda_engine.cpp).   *)
(*                                                                         *)
(* The engine is its flag, its m=, the m= its batch was sized for, and how *)
(* many lanes, lane objects and lane threads it has.  What the lanes       *)
(* compute is LaneRing; what the hits become is SubmitPipeline; how m= and *)
(* the match-drain move is NetworkGate: here both move at will.  A stop    *)
(* request is left out, its path is SubmitPipeline's.                      *)
(***************************************************************************)
EXTENDS Naturals

CONSTANTS Memory,     \* values of m=
          TooBig,     \* those for which not one hash fits into the VRAM target
          Pinned,     \* force_mine_memory_cost of a hybrid session
          LaneCaps,   \* lanes the card may have by the fixed VRAM table
          MaxFaults   \* bound: failing CUDA calls and VRAM emergencies

Parameters == LaneCaps \subseteq Nat \ {0}

VARIABLES
    hybrid,      \* force_mine_mode(); it does not move
    net_m,       \* network_difficulty_
    drain,       \* match_drain_active_
    cooldown,    \* is cooldown_until_ ahead of the clock?
    faults,      \* faults so far
    spc,         \* where the mining thread is: see SessionPC
    cooling,     \* what it read of the cooldown at the top of this turn
    cap,         \* max_lanes_cap_: by the VRAM table, reduced by nobody
    up,          \* started_
    difficulty,  \* difficulty_
    plan,        \* difficulty of vram_plan_, 0 when there is none
    lane_count,  \* lanes_
    objects,     \* lanes_impl_.size()
    threads,     \* lane_workers_.size()
    poison       \* m= of the request whose failed batch heads a ring, 0 when none

world  == <<net_m, drain, cooldown>>
engine == <<up, difficulty, plan, lane_count, objects, threads, poison>>
vars   == <<hybrid, world, faults, spc, cooling, cap, engine>>

\* "...Set" is after start() and before set_difficulty, "...Ensure" inside
\* set_difficulty, between its sync_lanes and its ensure_lane_workers;
\* "...Clear" inside stop(), when the threads are joined; "asleep" is inside
\* mine_batch, for ever.
SessionPC == {"boot", "bootSet", "bootEnsure", "top", "refreshEnsure", "gate",
              "coolSet", "coolEnsure", "mine", "mined",
              "asleep", "faultClear", "parkClear", "ended"}

Init == /\ hybrid \in BOOLEAN /\ cap \in LaneCaps
        /\ net_m \in Memory /\ drain = FALSE /\ cooldown = FALSE /\ faults = 0
        /\ spc = "boot" /\ cooling = FALSE
        /\ up = FALSE /\ difficulty \in Memory /\ plan = 0
        /\ lane_count = 1 /\ objects = 0 /\ threads = 0 /\ poison = 0

-----------------------------------------------------------------------------
(* The engine's operations                                                 *)

\* Mutant of LanesFor: fewer lanes at a high m=.
LanesForHighM(m) == IF m = Pinned THEN cap ELSE 1

\* plan_cuda_batch: "Do not scale lanes with m= or leftover VRAM."
LanesFor(m) == cap

ThreadsFor(n) == IF n > 1 THEN n ELSE 0

\* start: sizes the batch for difficulty_, makes the lanes, then their threads,
\* with new mailboxes.
Starts ==
    /\ difficulty \notin TooBig
    /\ up' = TRUE /\ plan' = difficulty
    /\ lane_count' = LanesFor(difficulty) /\ objects' = LanesFor(difficulty)
    /\ threads' = ThreadsFor(LanesFor(difficulty)) /\ poison' = 0
    /\ UNCHANGED <<difficulty, faults>>

\* ... or throws: no device, or no batch; nothing is up then.
StartThrows ==
    /\ \/ difficulty \in TooBig /\ UNCHANGED faults
       \/ faults < MaxFaults /\ faults' = faults + 1
    /\ UNCHANGED engine

\* set_difficulty(m) up to sync_lanes.  difficulty_ moves even if replan throws.
Resizes(m) ==
    /\ m \notin TooBig
    /\ difficulty' = m /\ plan' = m
    /\ lane_count' = LanesFor(m) /\ objects' = LanesFor(m)
    /\ UNCHANGED <<up, threads, poison>>

ResizeThrows(m) ==
    /\ m \in TooBig
    /\ difficulty' = m
    /\ UNCHANGED <<up, plan, lane_count, objects, threads, poison>>

\* ensure_lane_workers: a thread for each lane, with new mailboxes if there are
\* not as many threads already.
EnsureThreads ==
    /\ threads' = ThreadsFor(lane_count)
    /\ poison' = IF threads = ThreadsFor(lane_count) THEN poison ELSE 0
    /\ UNCHANGED <<up, difficulty, plan, lane_count, objects>>

\* stop: the threads are joined, then the lanes destroyed.
StopJoins  == threads' = 0 /\ UNCHANGED <<up, difficulty, plan, lane_count, objects, poison>>
StopClears == /\ objects' = 0 /\ up' = FALSE /\ plan' = 0
              /\ UNCHANGED <<difficulty, lane_count, threads, poison>>

\* The m= the session wants: the pinned one, or the network's.
Wanted == IF hybrid THEN Pinned ELSE net_m

-----------------------------------------------------------------------------
(* The mining thread                                                       *)

GoTo(pc) == spc' = pc /\ UNCHANGED <<hybrid, cap, cooling>>

\* run: start, then set_difficulty; an exception ends the session.
Boot ==
    /\ spc = "boot"
    /\ \/ Starts /\ GoTo("bootSet")
       \/ StartThrows /\ GoTo("ended")
    /\ UNCHANGED world

\* The set_difficulty after a start, at boot and after a cooldown.
SetAfterStart ==
    /\ spc \in {"bootSet", "coolSet"}
    /\ \/ /\ Wanted = difficulty
          /\ GoTo("top") /\ UNCHANGED <<engine, cooldown>>
       \/ /\ Wanted # difficulty /\ Resizes(Wanted)
          /\ GoTo(IF spc = "bootSet" THEN "bootEnsure" ELSE "coolEnsure")
          /\ UNCHANGED cooldown
       \/ /\ Wanted # difficulty /\ ResizeThrows(Wanted)
          /\ IF spc = "bootSet" THEN GoTo("ended") /\ UNCHANGED cooldown
                                ELSE GoTo("top") /\ cooldown' = TRUE
    /\ UNCHANGED <<net_m, drain, faults>>

\* The end of every set_difficulty.
Ensure ==
    /\ spc \in {"bootEnsure", "refreshEnsure", "coolEnsure"}
    /\ EnsureThreads
    /\ GoTo(IF spc = "refreshEnsure" THEN "gate" ELSE "top")
    /\ UNCHANGED <<world, faults>>

\* A turn: the clock is read, and refresh_network resizes a running engine of a
\* classic session when a new m= has come; it logs what replan throws.
Refresh(changed) ==
    /\ spc = "top"
    /\ cooling' = cooldown
    /\ IF changed /\ ~hybrid /\ up /\ net_m # difficulty
       THEN \/ Resizes(net_m) /\ spc' = "refreshEnsure"
            \/ ResizeThrows(net_m) /\ spc' = "gate"
       ELSE spc' = "gate" /\ UNCHANGED engine
    /\ UNCHANGED <<hybrid, cap, world, faults>>

\* A turn inside the cooldown: 200 ms later the engine is restarted if it is over.
CoolTurn ==
    /\ spc = "gate" /\ cooling
    /\ \/ (cooldown \/ up) /\ GoTo("top") /\ UNCHANGED <<engine, faults, cooldown>>
       \/ ~cooldown /\ ~up /\ Starts /\ GoTo("coolSet") /\ UNCHANGED cooldown
       \/ ~cooldown /\ ~up /\ StartThrows /\ GoTo("top") /\ cooldown' = TRUE
    /\ UNCHANGED <<net_m, drain>>

\* gpu_safety_tick: fine, or an emergency stops the engine.
SafetyTick ==
    /\ spc = "gate" /\ ~cooling
    /\ \/ GoTo("mine") /\ UNCHANGED <<engine, faults, cooldown>>
       \/ /\ faults < MaxFaults /\ faults' = faults + 1
          /\ StopJoins /\ GoTo("faultClear") /\ UNCHANGED cooldown
    /\ UNCHANGED <<net_m, drain>>

\* The second half of stop(), and where the loop goes from it.
StopEnds ==
    /\ spc \in {"faultClear", "parkClear"}
    /\ StopClears
    /\ cooldown' = (cooldown \/ spc = "faultClear")
    /\ GoTo("top")
    /\ UNCHANGED <<net_m, drain, faults>>

\* Parked for the match-drain: the pipeline is drained and the engine stopped.
Park ==
    /\ spc = "mine" /\ drain
    /\ IF up THEN StopJoins /\ GoTo("parkClear")
             ELSE UNCHANGED engine /\ GoTo("top")
    /\ UNCHANGED <<world, faults>>

\* Mutant of StartToMine: an engine that is down is left to the cooldown branch.
StartToMineNot ==
    /\ spc = "mine" /\ ~drain /\ ~up
    /\ GoTo("top") /\ UNCHANGED engine
    /\ UNCHANGED <<world, faults>>

\* An engine that is down is started; an exception costs a second.
StartToMine ==
    /\ spc = "mine" /\ ~drain /\ ~up
    /\ \/ Starts /\ GoTo("mine")
       \/ StartThrows /\ GoTo("top")
    /\ UNCHANGED world

\* mine_batch comes back with its hits.  If a ring is headed by a failed batch
\* this takes a kick, which empties the rings: one comes with another m=, and
\* with a turn of the wallet, of the XUNI window or of the batch size, at will.
MineBatch ==
    /\ spc = "mine" /\ ~drain /\ up
    /\ GoTo("mined") /\ poison' = 0
    /\ UNCHANGED <<world, faults, up, difficulty, plan, lane_count, objects, threads>>

\* mine_batch throws: "CUDA error 700" stops the engine and resets the device,
\* anything else costs a second, and leaves the failed batch in its lane's ring,
\* where there are lanes with rings.
MineThrows ==
    /\ spc = "mine" /\ ~drain /\ up
    /\ faults < MaxFaults /\ faults' = faults + 1
    /\ \/ StopJoins /\ GoTo("faultClear")
       \/ /\ poison' = IF lane_count > 1 THEN difficulty ELSE 0
          /\ GoTo("top")
          /\ UNCHANGED <<up, difficulty, plan, lane_count, objects, threads>>
    /\ UNCHANGED world

\* The batch that failed is still the oldest of its ring, the request is still
\* the same: mine_batch throws what it threw before.
MineThrowsAgain ==
    /\ spc = "mine" /\ ~drain /\ up
    /\ poison # 0 /\ poison = difficulty
    /\ GoTo("top")
    /\ UNCHANGED <<world, faults, engine>>

\* mine_batch waits for lanes that nobody wakes: those in front of a failed batch
\* have run dry, or a kick has met every lane asleep on a full ring (what
\* LaneRing's WaitEnds excepts, and nothing else, keeps it waiting).
MineSleeps ==
    /\ spc = "mine" /\ ~drain /\ up /\ lane_count > 1
    /\ GoTo("asleep")
    /\ UNCHANGED <<world, faults, engine>>

TurnEnds ==
    /\ spc = "mined"
    /\ GoTo("top")
    /\ UNCHANGED <<world, faults, engine>>

-----------------------------------------------------------------------------
(* The world: time, the network, the match-drain of a hybrid session        *)

CooldownPasses == cooldown /\ cooldown' = FALSE /\ UNCHANGED <<net_m, drain>>
NetworkMoves   == net_m' \in Memory \ {net_m} /\ UNCHANGED <<cooldown, drain>>
DrainMoves     == hybrid /\ drain' = ~drain /\ UNCHANGED <<cooldown, net_m>>

World == /\ CooldownPasses \/ NetworkMoves \/ DrainMoves
         /\ UNCHANGED <<hybrid, faults, spc, cooling, cap, engine>>

MiningThread ==
    \/ Boot \/ SetAfterStart \/ Ensure \/ CoolTurn \/ SafetyTick \/ StopEnds
    \/ Park \/ StartToMine \/ TurnEnds
    \/ MineBatch \/ MineThrows \/ MineThrowsAgain \/ MineSleeps
    \/ \E changed \in BOOLEAN : Refresh(changed)

Ended == spc \in {"ended", "asleep"} /\ UNCHANGED vars

Next == World \/ MiningThread \/ Ended

Spec == Init /\ [][Next]_vars

\* The mining thread runs and time passes.
Fairness == WF_vars(MiningThread) /\ WF_vars(CooldownPasses /\ World)

FairSpec == Spec /\ Fairness

-----------------------------------------------------------------------------
(* Properties                                                              *)

\* Every lane thread has its lane, at every step of a stop, a restart or a
\* resize, and mine_batch finds as many lanes and threads as it asks for.
ThreadsHaveLanes ==
    /\ threads <= objects
    /\ spc = "mine" /\ up => objects = lane_count /\ threads = ThreadsFor(lane_count)

\* Once faults and match-drains are over the engine comes back and mines on: no
\* order of emergency, device error, failing restart and park leaves it down.
\* But for three: an m= that cannot be sized is kept in difficulty_ when replan
\* throws, and an engine that goes down with it is not given another one; a
\* failed batch stays at the head of its ring, and is thrown again every second,
\* while nothing changes the request; and mine_batch may wait for lanes that
\* nobody wakes.
Calm  == spc # "ended" /\ ~drain /\ difficulty \notin TooBig
Stuck == spc = "asleep" \/ (up /\ poison = difficulty)
EngineComesBack == <>[]Calm => []<>(spc = "mined") \/ <>[]Stuck
=============================================================================
