# XNMiner in TLA+

XNMiner mines XenBlocks on CUDA cards: it hashes with the network's (or a
forced) Argon2 memory cost `m=`, classifies the matches, bags them in a queue on
disk and POSTs them to the pool's `/verify` when the network's `m=` fits. This
directory models the parts that decide whether a found block is kept, submitted
once, and submitted at all, checks them with TLC on small instances, and proves
their safety properties with TLAPS for every value of the constants. Paths below
are relative to the repository; line numbers are in `PROJECT.json`, which maps
every definition to the code.

## 1. Inventory

Threads: **main** (mining loop, `Supervisor::run`), **submit worker**
(`submit_worker_loop`) with the **pool threads** of a flush wave, **poller**
(`NetworkPoller::loop`), one **lane worker** per CUDA lane
(`CudaEngine::lane_worker_loop`), the **console handler** (a thread of its own
on Windows, a signal on top of a thread on POSIX), keygen threads, wallet and
statistics pollers.

| Component | State | Operations | Talks to | Hard | Correct when |
|---|---|---|---|---|---|
| `BlockStore` (`src/src/queue/store.*`) | rows, digest index, next id, dirty count; `blocks.db`, `queue.jsonl` | enqueue, mark/drop/defer, flush, load, recover | every supervisor thread, under one mutex | crash between and inside writes, deferred saves, failing streams | index exact, ids not reused, loss bounded, nothing submitted comes back |
| Queue policy (`queue/policy.cpp`) | none | `ready_to_flush`, `flush_priority` | store, supervisor | XUNI window | only due rows, in order |
| Supervisor, hits and shutdown (`app/supervisor.cpp`, `main.cpp`) | flags, live queue, running wave | `handle_hit`, `process_live_submit`, `try_flush_pending`, `persist_queue_for_restart`, `graceful_shutdown`, `finalize_session` | engine, store, submitter | three threads swap one queue out; flags read before they are acted on; lost answers | each hit has exactly one owner until accepted; shutdown ends and keeps all |
| Supervisor, network (`refresh_network`, `update_match_drain`) | last-good `m=`, `network_ok_`, fail streak, last sequence number, match-drain | fold a snapshot in, open/close the drain, replan | poller, engine | two threads fold the same snapshots in, stale reads, budgets | follows the network, no drain for ever |
| `NetworkPoller` (`network/difficulty.cpp`) | status, sequence number | `poll_once`, `get_status` | supervisor | failures | every outcome numbered |
| `Submitter` (`network/submitter.cpp`) | none | submit, probe, classify | supervisor | answer wording | recorded means accepted |
| `CudaEngine` (`mining/cuda_engine.*`) | lanes, mailboxes, rings, stop flag | start, stop, replan, `mine_batch`, `drain_pipeline` | backend, supervisor | cursors and notifies without the mutex, kicks in flight, failed batches | no slot overwritten or read early, every wait ends |
| `CudaHashBackend` (`src/vendor/hashapi`) | matches held back one batch | `runBatch`, `drainPipeline` | lane worker | double buffering | one batch late, never lost |
| `KeygenPool` (`src/vendor/hashapi`) | job queue, counter on the caller's stack | fill, worker loop, stop | backend | countdown and wake-up are two steps; the caller's frame may be gone | all keys written before fill returns, and it returns |
| Supervisor, mining session (`run`) | cooling, parked, engine up | start, replan, park, emergency stop, restart | engine, sensors | any order of parks, cooldowns and faults | the engine comes back; no lane thread without its lane |
| Payout rotation (`cuda_engine.cpp`) | wallet of the turn, finds of the cycle | choose, stamp, count, drain | `mine_batch`, drain | counted batches after it was chosen | 99 finds to 1 |
| XUNI hunting (`policy.cpp`, `cuda_engine.cpp`) | pause, batch number | count, decide | loop, engine | two looks at the clock, two marks | few batches, none while too many wait |
| Thermal policy (`efficiency/thermal_policy.cpp`) | batch, floor, last good | one hunt step per sample | engine, sensors | refused moves still move the floor | cuts above the floor, and at the cap |
| VRAM planning (`vram_batch.cpp`, `vram_policy.cpp`) | none | caps, lanes, batch | engine | unsigned subtraction, rounding | inside the caps, and filling them |
| GPU power (`efficiency/gpu_power.cpp`, off by default) | original and current limit | apply, tick, restore | NVML, nvidia-smi | calls refused one by one, retries | the limit found is left |
| Instance lock (`app/instance_lock.cpp`) | lock file | acquire, release | main | two processes, removal by name | one miner |
| Wallet (`monitoring/wallet.cpp`) | force flag, last fetch | force, fetch, sleep | supervisor, RPC | notify between look and wait | a forced refresh is prompt |
| Reports (`monitoring/xenblockscan.cpp`) | queue of 256 | report, POST, stop | supervisor | overflow while a POST runs | the newest, in order, once |
| CPU layout (`util/cpu_affinity.cpp`) | core lists | `init_layout` | every thread | 1, 2, 3 cores, shares too large | cores apart |
| Metrics, local statistics, woodyminer, timelapse, dashboard, sensors | display data | poll, render | supervisor | none that mining depends on | - |
| Settings, http, sha256, argon2 encoding, gpu_test | none or read-only | parse, encode | all | - | - |

`PROJECT.json` lists these with their status, and 40 places where something hard
to test can go wrong ("hazards"), each with the properties that watch it, or,
for the three that have none (a stop that `run()` forgets; a lock file removed by
name; overlapping tests of one answer, which are an assumption), the reason.

## 2. Modules

| Module | Models | Proofs / instance |
|---|---|---|
| `LossyBag` | what the queue promises: a bag that outlives its process; each operation since the last save puts at most one more digest at risk, never more than `MaxLoss`; a death forgets no more than that, and nothing comes back but by a new `Put` | abstract specification |
| `BlockStore` | `store.cpp` with both files, crashes, torn and failing writes of each | `BlockStoreProofs`, `MCBlockStore` |
| `Answers` | what the miner makes of an answer of `/verify`: the tests, and the orders in which the live path and the flush ask them | extended by `SubmitPipeline` |
| `HitLedger` | what the supervisor promises for a block's life: RAM, disk, accepted or dropped, one way only | abstract specification |
| `SubmitPipeline` | a hit's way through mining thread, live queue, submit worker, pool threads, console handler, shutdown | `SubmitPipelineProofs`, `MCSubmitPipeline` |
| `FlushRotation` | `list_flush_batch` and the rotation of `try_flush_pending` | `GateProofs`, `MCParts`, `flush_starve` |
| `NetworkGate` | poller, `refresh_network` on two threads, `update_match_drain`, replan | `NetworkGateProofs`, `MCNetworkGate` |
| `VerifyGate` | the gates in front of a POST: backoff, deferral, probe of `/verify` and its age | `GateProofs`, `MCParts` |
| `LaneStream` | what the lanes promise `mine_batch`: a bounded queue of results per lane, read in rounds | abstract specification |
| `LaneRing` | lane workers, mailboxes and rings, kick, drain, stop, failed batches, the backend's double buffer | `LaneRingProofs`, `MCLaneRing` |
| `MiningSession` | the loop of `run()`: start, resize, park, cooldown, emergency, exception, restart | `EngineProofs`, `MCParts` |
| `PayoutCycle` | whose wallet is hashed for, stamped and counted | `PartsProofs`, `MCParts` |
| `XuniHunt` | which batches hunt XUNI | `GateProofs`, `MCParts` |
| `ThermalHunt` | `hunt_thermal_scale` and the engine's use of it | `EngineProofs`, `MCParts`, `MCThermalHunt` |
| `VramPlan` | percents to caps to batch per lane | `PlanProofs`, `MCParts` |
| `GpuPower` | the card's power limit through a session and the next | `EngineProofs`, `MCParts` |
| `KeygenPool` | the key generator's threads and their callers' stack frames | `EngineProofs`, `MCParts` |
| `InstanceLock` | several processes and one lock file, both platforms | `PartsProofs`, `MCParts` |
| `WalletPoller` | the holdings thread, forced and idle refreshes, time in ticks | `PartsProofs`, `MCParts` |
| `ReportQueue` | the reports to the explorer | `PartsProofs`, `MCParts` |
| `CpuLayout` | which cores each role gets, both platforms | `PlanProofs`, `MCParts` |

`MCParts` puts the smaller modules into one run: its variable `part` picks one of
them in the initial state, that one moves and the variables of the others stay
where they are, so a behaviour of `MCParts` is a behaviour of one part and
the states add up instead of multiplying. Each property there is the part's own,
by the name it has in its module. What a part asks of its constants is its
operator `Parameters`; `MCParts` assumes it of each part it instantiates, TLC
evaluates it in the run, and the proofs about parts start from it.

**BlockStore.** Variables are the members of the class (`pending_`,
`hash_index_`, `next_id_`, `dirty_ops_`), the two files, and `phase`, which says
whether the process is down, recovering, idle in the store or inside a save. An
operation is one step under `mu_` up to its save; the save is two more steps
(truncate, write) with the mutex held, so that a crash can fall between them. An
append to the journal tests its stream no more than a save does: it may write
nothing, a part of the line, or the line without its newline (`AppendCut`, counted
by `cuts`). `tail` is what the file then ends with; a row appended to an end that
is no newline becomes one line with it, and neither parses (`Kept`). A row is id
and digest: nothing else steers the store. The rows are a set here and in `FlushRotation`, where the ids, which rise along the vector, give their
order. `next_id_` after a load counts one number per row, because the default
argument `next_id_++` is computed whether the row has an id or not.

**SubmitPipeline.** A hit is its digest; `stored` is the row set of
`BlockStore`, whose calls are atomic under its mutex. Every flag read and every
swap that the code does in a lock of its own is a step of its own: `hand`,
`batch`, `bagging` are the hits a thread has swapped out and not yet put
anywhere. What the gates read of the network, the clock and the match-drain may
come out either way at each step: how it really moves (`NetworkGate`,
`VerifyGate`) is among the choices. `Verify` is the pool: it may record a block
and lose the answer. The classes its answers fall into, on the live path and in
a flush, are computed by `Answers` from every status and every set of phrases a
body may have; two orders of overlapping tests must agree on what is a reject
(`OrdersAgree`, evaluated in the run). A `setup` holds the settings and the
platform's kind of handler, frozen in the initial state. `ImplementsLedger` maps
the pipeline to `HitLedger`: what any thread holds is `held`, the disk queue is
`queued`, what was answered "ok" is `accepted`; threads, flags and the stages of
a wave have no counterpart there.

**FlushRotation.** One wave is one step; a pool has a standing opinion of each
block (accept, hold, reject). `window` is the XUNI submit window. The two runs
over the vector and the sort are "the first n of some rows in an order"
(`First`): those before which fewer than n others come.

**NetworkGate.** Each critical section is a step; `pc[t]`, `snap[t]`, `saw[t]`
are the locals of the two threads that run `refresh_network` and
`update_match_drain`, which looks at the network twice and at the bag once
(`CountBag`) before it decides (`Decide`); `saw` is what it saw. A window may be
closed for its age (`match_drain_max_s`) at any turn, or never. The mining thread
then looks whether to park CUDA (`ParkCheck`), and mines, and adds to the bag
(`MineTurn`), only when it has found no window. A snapshot's age is left to
chance; sequence numbers are compared for equality only and are therefore any
number nobody remembers.

**LaneRing.** A lane's ring holds the requests whose matches its results carry;
`produced - consumed` is its length, `seq # seen` is `fresh`. Looking at the
ring and falling asleep are two steps, with the mutex (`holder`) held, because
`produced` and `consumed` move without it. `ImplementsStream` maps it to
`LaneStream`: the ring is the queue, the lanes left to absorb are the round, and
`owed` counts the results of older requests that a lane has in flight or its
backend holds back.

**VerifyGate.** Clocks count down in seconds, of which the worker has a turn in
each; what the network and `/verify` do is free. `frozen` counts the seconds in
which a bag at the network's `m=` met a live `/verify` and was not POSTed.

**MiningSession.** One action per turn of the loop and per thing that can throw;
the engine is how many lanes, lane objects and lane threads it has, and which
`m=` each was made for. `poison` is the request of a failed batch that heads a ring:
while the engine has that request every `mine_batch` throws again or falls asleep
(`MineThrowsAgain`, `MineSleeps`), and such a throw is no new fault.
**PayoutCycle** counts a whole cycle of 100 finds. **ThermalHunt** keeps of time
whether the settle time is over. **GpuPower** rounds as the code does (`llround`,
whole watts for nvidia-smi) and keeps three calls' outcomes open; the miner's card
is card 0. **KeygenPool** has the frame of the caller: `FrameAlive` says whether a
worker's `notify_one` still finds it.

## 3. Runs

| Run | Shows | Bounds and why they do |
|---|---|---|
| `store_safety` | `TypeOK`, `IndexExact`, `SnapshotSound`, `JournalCovers`, `IdsNotReused` with crashes anywhere, torn and failing saves and appends | 3 digests, `kSaveEveryOps` 2 (8 in the code: 2 has both "below" and "at"), 3 journal lines, ids up to 5 across restarts, one append cut short: enough for a save, a restart, a journal line whose id is taken, a digest queued twice, and a torn line that swallows the next row's |
| `store_promise` | `LossBounded`, `NoResurrection`, `ImplementsLossyBag` when saves are whole; appends may still fail | `kSaveEveryOps` 3, 3 lines, ids up to 5, two appends cut short: several unsaved rows at once, removals among them, and restarts |
| `pipe` | `NothingLost`, `OneOwner`, `AcceptedIsDone`, `EndsKept`, `WaveBacked`, `ImplementsLedger`, `ShutdownCompletes`, `TypeOK` | an XNM hit, an XUNI hit, a row that can be POSTed, one that cannot be assembled, two pool threads; three set-ups: Windows handler thread with the bag on, POSIX handler with it off, POSIX with submits off |
| `net_settles` | `NetFollows`, `DrainEnds`, `BagServed`, `TypeOK`; classic and hybrid mode | two values of `m=`, one change of the network, budgets 2 and 1 (6 and 3 in the code); two rows, so that the miner adds to a bag the worker is emptying and a read of "empty" goes stale; one row opens a window |
| `ring` | `NobodyOversleeps`, `ImplementsStream`, `WaitEnds`, `StopJoins` | 2 lanes, rings of 3 (so that a third, fresh result can follow two stale ones), 2 requests, one failed batch |
| `parts` | the sixteen properties of the smaller modules, one module per behaviour | below |
| `flush_starve`, `net_classic`, `ring_poison`, `ring_drain`, `ring_stamp`, `thermal_cut` | the code against its own comments: see 5 | as above; the hunt with one plan of 8 |

| Part of `parts` | Property | Bounds and why they do |
|---|---|---|
| rotation | `BatchIsRight`: as many eligible rows as the limit allows, those the rotation comes to first; of these a wave sends the first in flush order | every queue of up to 4 rows of 3 types, wave 1 |
| keygen | `FillComplete`, `NoFillForgotten`, `FillEnds` | 2 lanes, 3 threads, batches of 1 and 4 keys (fewer than and more than threads), 2 fills each |
| lock | `OneMiner`, up to a removal of the name of a file another one holds open | 3 processes: one releases, one holds the nameless file, one makes a new one |
| thermal | `CutsStayAboveFloor` | plans of 5 and 8, every sequence of six readings |
| session | `ThreadsHaveLanes`, `EngineComesBack` | 1 or 2 lanes (a failed batch stays in its ring with 2 only), two values of `m=` that can be sized and one that cannot, 2 faults |
| wallet | `RefreshIsPrompt`: within one fetch and the floor | floor 3, idle 8, waits of 2 and fetches of 1 tick: idle is far beyond the bound claimed |
| payout | `FeeShare`, up to a drain between turn and choice | the real 99 to 1, up to 2 finds in a batch |
| vram | `PlanFits` | four cards, three sets of percents, with and without explicit sizes, `m=` from 100 to 90,000 |
| cpu | `CoresApart` | 13 core counts from 1 to 24, settings auto, 0, 1 and 5, both platforms |
| report | `NewestWait` | limit 2 (256 in the code), 6 reports: several overflows |
| xuni | `HuntsSparsely` | soft cap 4, resume 2, one batch in 3: all orders of the two marks and the four kinds of minute |
| verify | `FlushNotFrozen` | pauses of 2 to 6 s: probe, backoff and deferral all overlap |
| power | `LimitRestored` | 2 sessions, three calls that may each be refused, four readings, three loads, a highest limit that is no whole number of watts |

`CHECK_DEADLOCK FALSE` stands in `ring`, `ring_poison` and `parts`: the engine can
really come to a stop (every lane asleep on a full ring after a kick, which
`WaitEnds` names, and the failed batch of `ring_poison`), and several parts end
(a layout is computed once, fills are bounded, a session ends).

### Fairness

- `SubmitPipeline!FairSpec`: threads are scheduled, an HTTP call returns (it has
  a timeout), the mining thread leaves its batch, a handler that has begun runs
  on. Nothing is assumed of the pool's answers or of the network.
- `NetworkGate!HealthySpec`: both threads loop, a GET ends; polls succeed now
  and then, and the pool takes a row it should take now and then. `DrainEnds` and
  `BagServed` further ask that polls stop failing at some point, `BagServed` also
  that windows stop being closed for their age. A miner
  that is not parked may add a row for each one taken: it is the window that
  empties the bag, and `BagServed` does not follow from the fairness alone.
- `LaneRing!FairSpec`: strong fairness for the lanes, because a lane that wants
  the mutex is not overtaken for ever; the supervisor calls `mine_batch` again
  and again. Nothing is assumed of kicks or stops.
- `FlushRotation!FairSpec`: waves come, in the XUNI window too.
- `MCParts!FairSpec` is that of the two parts that promise an end:
  `KeygenPool!Fairness` (a caller and every pool thread are scheduled) and
  `MiningSession!Fairness` (the mining thread loops, a cooldown passes). Faults,
  drains and the network are free; `EngineComesBack` asks for them to be over, and
  excepts a poisoned ring nobody's change of request clears and a `mine_batch` that
  sleeps for good.

## 4. Proofs

Every invariant, every action property and all three refinements that a passing
run checks are also theorems. They hold for every value of the constants that
meets the named assumptions: any set of hits, rows, lanes, threads and
processes, rings and queues of any length, any settings. Beyond those, four
theorems of `BlockStoreProofs` ask for saves that work (see there), and
`NoWakeUpIsLost` for `Ring > 1`: with rings of one slot TLC refutes the property;
the code's `kRing` is 4 (`cuda_engine.hpp:98`).

Five theorems state what no run checks on its own, since the runs' refinements
say as much: that a ring is not overrun, not read empty and has no more than two
stale results (`RingNeverOverrun`, `NoRingReadEmpty`, `TwoStaleResults`) is in the
guards of `LaneStream` (that the stale ones are in front of the others is in the
theorem only); that recorded rows alone leave the disk (`RowsLeaveRecorded`) is
`HitLedger`'s `Erase`; a clean queue is what a restart finds
(`CleanAlwaysDurable`) by `LossBounded` and the lossy bag.

| Module | Theorems | Inductive invariant |
|---|---|---|
| `BlockStoreProofs` | `StoreTypeCorrect`, `IndexAlwaysExact`, `SnapshotAlwaysSound`, `JournalAlwaysCovers`, `LiveIdsNotReused`; if saves work: `LossAlwaysBounded`, `CleanAlwaysDurable`, `NoneResurrected`, `StoreIsLossyBag` | `StoreInv`, `LossInv`, `WholeInv` |
| `SubmitPipelineProofs` | `TypesHold`, `NoHitLost`, `HitsHaveOneOwner`, `AcceptedOnce`, `ShutdownKeepsHits`, `RowsLeaveRecorded`, `WavesStayBacked`; `PipelineKeepsTheLedger` | `PipeInv`; `LedgerInv` |
| `LaneRingProofs` | `RingNeverOverrun`, `NoRingReadEmpty`, `TwoStaleResults`, `LanesStreamInOrder`; `NoWakeUpIsLost` | `RingInv`; `SleepInv` |
| `NetworkGateProofs` | `GateTypes`, `ModesStayApart` | `GateInv` |
| `PartsProofs` | `OneMinerHolds`, `NewestReportsWait`, `SharesArePaid`, `ForcedRefreshIsPrompt` | `LockInv`, `ReportInv`, `PayoutInv`, `WalletInv` |
| `EngineProofs` | `LaneThreadsHaveLanes`, `CutsKeepAboveFloor`, `PowerLimitRestored`, `FillsAreComplete`, `SleepersAreWoken` | `SessionInv`, `ThermalInv`, `PowerInv`, `KeygenInv`, `WakeInv` |
| `GateProofs` | `HuntingIsSparse`, `FlushIsNotFrozen`, `BatchesAreRight` | `XuniInv`, `VerifyInv`, `RotationInv` |
| `PlanProofs` | `PlansFit`, `CoresAreApart` | the plan is the one for its request |

**BlockStore.** `StoreInv` is the conjunction of the four state invariants with
two facts they need: between calls `dirty_ops_` is below its threshold
(otherwise one more operation would leave its range), and the rows in RAM and in
the snapshot are finite (a load counts them). The invariants need each other: a
loaded queue is sound because the snapshot was (`SnapshotSound`), the snapshot
is because it was written from a sound queue (`IndexExact`), and recovery yields
a sound queue because it renumbers taken ids. The journal covers both up to two
rows per append that was cut short: `JournalInv` adds to the rows it lacks those
its end will still cost (`Tear`: none after a newline, the next row after a part of
a line, that and the last one after a line without a newline), and no append costs
more than it counts for. These hold with crashes and failing saves at any time.
`LossInv` (saves do not fail, `~SaveMayFail`) adds that the unsaved digests,
those of the call that is saving included, are no more than `dirty_ops_`, that
the journal is read only when there is no readable snapshot, and that without
one every row of a living process is a dirty operation, whatever became of its
journal line. `WholeInv` (moreover
`~CrashInWrite`) says that there is a whole snapshot or there never was one, so
that what left the queue is on no disk a restart would read. With all three,
`StoreIsLossyBag` maps each step of the store to a step of `LossyBag` or to a
stutter. `risk` is `dirty_ops_`, `asked` the digests the call that is saving takes
out; an enqueue is a `Put`, a removal or a change of fields an `Ask`, the end of a
save a `Save`, a crash or the end of the destructor a `Die`. `LossyBag` has no step
that takes digests out without an `Ask` and a `Save`, or that brings one in while
no process is up, so the loss of more than `dirty_ops_` rows or the return of one
is a step it cannot take. Both assumptions are constants of the
model because the code does fail without them (section 5).

**SubmitPipeline.** `OneOwner` and `NothingLost` are not inductive: a thread that
puts its hits somewhere might hold some it should not. `PipeInv` says where each
thread can be while it has hits in hand (`InHand`), that the rows of a wave stay
in the disk queue until the wave is over and are in one of its three stages
(`WaveBacked`), that hits and the rows of earlier sessions are different
(`Known`), that what was answered "ok" is with the pool (`Recorded`), and who may
still run at which stage of the shutdown (`Closing`). `ShutdownKeepsHits` and
`RowsLeaveRecorded` follow from it. For `PipelineKeepsTheLedger` `LedgerInv` adds
what no single property needed: nothing is dropped that was not found, and a row
that cannot be assembled is never among those a wave POSTs. Each step of a thread
is then one step of the ledger or a stutter: a swap is a stutter, the end of a
wave erases the rows accepted in it.

**LaneRing.** A worker looks for room and fills it in two steps, `mine_batch`
waits under the mutex and reads without it: `RingInv` carries over the gap what
was seen (a worker that runs has room; no lane left to absorb is empty). For the
two stale results it counts where a request older than the mailbox's can be: the
batch in flight, with an empty ring; the one the backend holds back; two results.
The same count is what `LaneStream` calls `owed`, so `LanesStreamInOrder` needs
no other invariant.

`NoWakeUpIsLost` is the safety half of `WaitEnds` and `StopJoins`. A notify that
nobody waits for is lost, so `SleepInv` says of each sleeper what it has seen
before it slept (`LaneRests`, `Order`) and of the sleeping `mine_batch` who will
wake it (`Somebody`). The hard case: a lane looks for room while `mine_batch`
consumes, so it may sleep with one slot free, and `mine_batch`, having seen one
lane empty, may sleep although every lane has had a result since. The lane seen
empty then was awake and has at most one result before it looks for room
(`Eager`); with more than one slot it finds room and announces another. A kick
that finds everybody asleep breaks this for good, and so can a failed batch:
those two states the property excepts, as `WaitEnds` does.

**The parts.** A step of `MCParts` is a step of each part or leaves it alone
(`PartsApart`), so each part has an invariant of its own.

- `LockInv`: until a release has removed a file somebody has open, whatever is
  open is the file `miner.lock` names, and a file has one holder. There is
  always a number for a new file (`NewFile`, by counting).
- `ReportInv`: the reports that wait are the last `Len(rq)` of those made.
- `PayoutInv`: a cycle not led astray is what the two counters say; the wallet of
  the turn is a function of the first one; neither runs over by more than a batch.
- `WalletInv`: by where the thread is, what its age and timer add up to; a request
  is remembered by `force_` or by the turn that took it. It needs that the floor
  is at least the cap of a wait and at most the idle time (8, 5 and 25 s).
- `SessionInv`: an engine that is up has its table's lanes and a thread for each,
  except while it is being stopped; one that is down has neither.
- `ThermalInv`: floor, batch, plan, in this order. That no step of the policy
  leaves it is arithmetic with rounding, and so are the lemmas.
- `PowerInv`: a limit of the miner's own exists in a mining session only, which
  remembers the one it found.
- `KeygenInv`: a fill's counter is the number of its jobs that are queued or in
  hand, which are all different, and the keys not in the arena are in a job not
  yet written. That the chunks cover the batch (`ChunksCover`, `JobsCoverBatch`)
  is arithmetic with two roundings up. `WakeInv` adds that jobs belong to the
  fill that waits for them, not to an earlier one of the same lane, and that a
  thread that has counted to zero under a sleeper has its notify still to send:
  the safety half of `FillEnds`.
- `RotationInv`: the rows are finitely many with ids of their own. The work is in
  the operators (`FirstOfAll`): the number of rows before a row is a bijection
  from n rows to 0..n-1, so the first k are k, without an induction over a vector
  or a sort.
- `XuniInv`: the batches since the last that hunted are at least as many as the
  counter is beyond a multiple of the cadence; a queue that is full and has not
  been seen at the resume mark is still counted as such by one of the two who look.
- `VerifyInv`: a probe that says "down" is at least as old as the wait; the wait
  and what is left of the pause add up to no more than the pause.
- `PlansFit`, `CoresAreApart`: no induction over steps; the work is in the
  operators, lemma by lemma (`HashesFit`, `PlanIsSound`; `WindowsApart`,
  `PosixApart`). With `Parameters`, any card, percentages to 100, any `m=`
  above 0; any number of cores and any settings.

Model-checked only, and why:

- All liveness (`FillEnds`, `EngineComesBack`, `ShutdownCompletes`, `WaitEnds`,
  `StopJoins`, `NetFollows`, `DrainEnds`, `BagServed`): fairness and `ENABLED` are
  out of the prover's reach.
- The runs of section 5, which refute what comments say.
- `OrdersAgree` in `Answers` is an assumption about a finite table; TLC evaluates
  it in `pipe`.


## 5. Where the code disagrees with its comments

- `net_classic`: in classic mode the submit worker can consume the snapshot that
  should have made the mining thread replan; the engine keeps the old `m=`
  although "CUDA follows live /difficulty" (`supervisor.cpp:1499`).
- `ring_stamp`: matches of the batch in flight at a change of request, and those
  the backend holds back, are stamped with the new wallet and difficulty, not
  the "wallet this hash was mined for" (`common.hpp:25`).
- `ring_poison`: one failed batch is thrown before it is consumed and without a
  notify; the supervisor's retry meets it again and the lanes sleep, although
  "workers keep the next wave on the GPU" (`cuda_engine.cpp:670-671`).
- `flush_starve`: the rotation of the flush does not reach every row ("do not
  freeze the bag", `supervisor.cpp:1155-1156`), because the wrapped rows of the
  double-sized fetch are sorted in front. The model's wave of 1 stands for the
  code's 64, and `match_drain_batch` (512) in a match window; only a wave of the
  whole bag (`match_drain_batch` 0, or the closing flush) is not affected.

- `ring_drain`: "Finalize any double-buffered results still sitting on lanes (call
  before stop)" (`cuda_engine.hpp:57`): the drain takes what the backends hold
  back, and the stop after it discards finished results that wait in the rings
  and the batches still in flight (`cuda_engine.cpp:739-760`).
- `thermal_cut`: "Above this the miner cuts work" (`miner.ini:85`): a cut that
  `apply()` refuses inside the settle time still raises the floor to the batch
  that was too hot (`thermal_policy.cpp:122-124`); later cuts stop above it.

Seen while modelling, without a run:

Queue and flush
- A crash in the middle of a write of `blocks.db` makes the next start read the
  journal, which still has every row that was ever removed (`store.cpp:169-185`):
  `NoResurrection` and the refinement hold when `CrashInWrite` is off.
- `append_queue_jsonl` tests no stream (`store.cpp:218-225`): on a full disk a row
  has no journal line, and a line cut short takes the next row's with it, so that
  a restart that reads the journal misses two rows: what `JournalCovers` allows.
- A failing save clears `dirty_ops_` (`store.cpp:181-184`), so the loss bound
  needs saves that work.
- With the handler on a thread of its own the process can end while the handler
  holds hits it has swapped out (`supervisor.cpp:137-152` takes `persist_mu_`,
  `finalize_session` does not): `EndsKept` excepts exactly those hits.
- The handler returns while the worker still holds its batch, and `run()`
  clears a `shutting_down_` that was set before it. A hit being POSTed live when
  the process dies is in no queue and on no disk.
- The closing flush POSTs a whole bag serially; CUDA stays parked as long as a
  drain lasts while `/difficulty` is down.
- "ok" is any 2xx whatever the body says (`submitter.cpp:22-26`, `:118`).
- The rate-limit branch of `note_submit_transport_failure` is not reached:
  `is_pool_hold` takes those answers first. In classic mode a flush always finds
  the oracle at its own `m=`, so the backoff does not apply to it.

Engine
- A kick that meets every lane asleep on a full ring wakes nobody
  (`cuda_engine.cpp:700`), and a failed batch can leave `mine_batch` waiting: the
  states `WaitEnds` allows.
- A drain between the end of a turn and the next choice of a wallet stamps hits
  for one wallet and counts them for the other (`cuda_engine.cpp:758`, against
  "99 blocks to the user, 100th to kDevFeeAddress", `settings.hpp:17`): the cycles
  `FeeShare` excepts.
- The failed batch of `ring_poison` makes the loop of `run()` throw once a second
  until the request changes, if it does: an exception of `EngineComesBack`.
- A `replan` that throws leaves the `m=` it could not size in `difficulty_`
  (`difficulty.cpp:55` accepts up to 10,000,000): another exception of
  `EngineComesBack`. An emergency stop drains nothing; a start after a park does
  not set the difficulty again; `note_vram_emergency` returns 1.0 although its
  log speaks of a smaller pack.
- The XUNI queue counts as empty outside the window: one batch at its opening
  may hunt over the soft cap.
- `dispatch_group`, `wait_group`, `absorb_group`, `reap_creates`, `pick_ready`,
  `add_lane_cap` and `restore_lane_cap` are called by nothing.

Heat, memory, power
- "Pause mining if the GPU chip itself reaches this temperature"
  (`miner.ini:82`): a hot die cuts the batch like a hot junction, nothing pauses.
  `raise_settle_s` is computed and not used. A drop of 12 degrees or more is
  taken for a glitch, also when it lasts.
- The loop in `clamp_plan_to_caps` is never needed.
- nvidia-smi is told to act on card 0 whatever the device is
  (`gpu_power.cpp:110`): on another one the limit is set on the wrong card.
- With NVML refusing, a limit set by nvidia-smi is not put back, and one a
  session left when it died is the next one's original (`gpu_power.cpp:92`,
  `:174-179`).

Processes and threads
- On POSIX a release closes the lock file and then removes it by name
  (`instance_lock.cpp:57-63`): a second miner that has locked it in between
  holds a file without a name, and a third one gets the lock as well, although
  "Another miner instance is already running" (`supervisor.cpp:156`). `OneMiner`
  excepts what follows such a removal.
- A refresh forced inside the floor makes the wallet thread spin until the floor
  is over (`wallet.cpp:318`). An RPC answer with one field missing counts as a
  reading of 0 for it (`wallet.cpp:226-228`).
- `notify_one` of a keygen worker can touch the frame of a `fill` that has
  returned (`KeygenPool.cpp:152-156`).
- The suggested number of keygen threads is used only where `keygen_threads` is 0
  (`cuda_engine.cpp:419-423`); its default is 12, whatever the cores.
- On Windows an explicit share for the bag on a machine with one core left gives
  the CUDA host none; on POSIX `desktop_cores` only goes into a log line.

## 6. Not modelled

Wording of log lines, the dashboard, metrics and local statistics, timelapse,
sensors, the parsing of settings, HTTP, the hashing and encoding themselves;
RPC answers of the wallet; pinning threads to cores; the time a step takes,
except where a module counts it (`VerifyGate`, `WalletPoller`): elsewhere
backoffs, intervals and timeouts are chances taken at any time. The POSIX
handler interrupting a thread that holds a mutex: it is taken between critical
sections. Resizing of lanes under load is in `MiningSession` (lanes and threads)
and not in `LaneRing`, where the number of lanes is fixed. The VRAM overrides
`headroom_mib`, `emergency_mib` and `runtime_overhead_mib` (0 by default); a card
whose limits NVML cannot tell, where the power booster does nothing; a hit whose
digest is in the bag already, in the pipeline (`BlockStore` has the refusal).

## 7. Where it could go on

All modules of section 2 are checked, and the safety part of all passing runs is
proved. What would add most:

1. `NetworkGate` composed with `VerifyGate`, so that each takes the other's
   decisions instead of a choice: the pause after a change of `m=` is counted by
   one and caused by the other.
2. `BlockStore` under `SubmitPipeline`: the pipeline's disk queue is the store's
   row set, its calls are atomic, and a crash is in the store's model only. The
   two abstract specifications, `LossyBag` and `HitLedger`, are where they meet.
3. `ReportQueue` as a queue that loses from its head, an abstract specification
   of its own; `NewestWait` says as much of each state.
