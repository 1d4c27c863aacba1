# value_iteration3 in TLA+

A verification development for the planner of value_iteration3: TLA+ modules
translated from the Rust source, TLC configurations that check them on small
instances, and theorems that TLAPS checks for every value of the constants.
Paths below are relative to the repository; `core/`, `node/` mean
`vi_rs/vi_planner/src/core`, `.../node`, and `solvers/` means
`vi_rs/vi_lib/src/solvers`.

    tlc -workers 2 -config MCPlannerCore.cfg MCPlannerCore    # any run
    tlapm PlannerCoreProofs.tla                               # any proofs

`PROJECT.json` lists the runs, the source lines behind every definition, one
mutant of the code per checked property, the hazards and the theorems.

## 1. The system

The program drives a robot with *value iteration*: for a goal it computes, for
every map cell and heading, the expected cost to reach it, and then drives by
the best action stored per state. A node process (`vi_planner`) keeps that field
in memory, repairs it while laser scans change the costs, computes the field of
the next waypoint ahead of time, and answers ROS 2 actions.

### Components

| Component | State it keeps | Operations | Talks to |
|---|---|---|---|
| Bellman update (`vi_lib/src/value_iterator.rs`, `state.rs`) | `total_cost`, `optimal_action`, `free`, `penalty`, `local_penalty` per state | `action_cost`, `min_action_cost`, `value_iteration` | called by everything else |
| Solvers (`solvers/`: some fifteen, among them the original, the default `frontier2d_sparse`, out-of-core, precomputed tiles, GPU) | a working array, frontier, threads of one solve | `solve`, with an observer asked at round boundaries | called by the planner core |
| Planner core, dense path (`core/mod.rs`, `core/global*`) | the cached field, the sweep queue, `Manager`: epoch, serials, owned/deferred cells, certificate, revisions | prepare a goal, tick, claim/release, prepare/commit of jobs, removal of policies | one mutex, shared by all node threads |
| Global and local worker (`node/sweep.rs`) | the job they have checked out | snapshot under the mutex, pass without it, commit under it | core |
| Prefetcher (`core/prefetch.rs`) | waypoint list, order, running solve, finished field, stop flag | `set_waypoints`, `note_goal`, `adopt`; a thread that solves | core (which waits for it inside its own mutex) |
| Compact field (`core/compact.rs`, `frontier2d_sparse_compact.rs`) | fields on disk, patches in memory | hydrate, commit, repair queue | core, both workers |
| Follow/settle loop, servers (`node/follow_loop.rs`, `node/servers.rs`) | the active-follow slot, cancel flags, scan queue, pose | tick, preempt, relocalize, plan | core, localizer |
| Localizers (`vi_lib/src/localize`, `belief.rs`) | belief over poses, levels and windows, the lost latch, probation | predict, correct, level switch, reset, scan match, opening of walls | scan and pose callbacks, follow loop |
| Controllers, rollout, value grids | nothing shared | read the field | follow loop, servers |
| FPGA driver, kernels, GPU solvers, experiments | registers, buffers | one sweep | none of the above at run time |

### What is hard about it

* *Snapshots and late results.* Both workers compute on a copy and come back
  after the goal, the window, the costs or the owner may have changed. Numbers
  (epoch, job id, owner, `local_revision`, `boundary_revision`) decide what may
  still be published.
* *Shared responsibility for a cell.* A cell is swept by the global worker or,
  inside the window, by the local one. Windows move all the time; a cell that
  falls between the two is never repaired although the field reports itself
  complete.
* *Cost increases.* Bellman sweeps only fix a value that is too low by counting
  up; the code removes the policies that depend on the dearer cell first.
* *Waiting while holding the core.* `adopt` waits for the prefetcher inside the
  core's critical section.
* *Several threads on one robot.* Every request drives from a thread of its own;
  a superseded one notices at its next look at a flag, and meanwhile shares
  `cmd_vel`, the core and the cached field with its successor. A solve keeps the
  core for seconds while the last velocity stays in force.
* *Lock-free sweeps.* The default solver's threads read each other's half
  finished rounds; only two barriers and a claim counter separate them.
* *Memory that has been given up.* The out-of-core solver frees rows it has
  written; the out-of-core field is repaired tile by tile beside a patch that is
  a copy of part of it.
* *A belief that is wrong.* A localizer that is sure of the wrong place has to
  notice, spread without losing the true pose and come to a conclusion again,
  with relative pruning at every scan.
* *Arithmetic that wraps.* `MAX_COST * PROB_BASE` does not fit in `u64`: an
  unreached state looks finite to the plain update.

The correctness properties per component are the ones of section 3; the full
list of hazards, with the line each one bites at, is in `PROJECT.json`.

## 2. The modules

| Module | Models | Role |
|---|---|---|
| `Bellman` | value_iterator.rs, state.rs, transition halo | operators all field modules use |
| `Original` | the single-threaded original solver | reference algorithm of every solver run |
| `GridMap` | from an occupancy grid and a goal to costs, free and final states | operators, used by `CompactSolver` |
| `PlannerCore` | core mutex, `Manager`, sweep queue, both workers, follow ticks | state machine |
| `CompactField` | the same on the out-of-core path: sink, patch, overlay, tile queue | state machine |
| `FrontierSparse` | frontier2d_sparse.rs, its fused arithmetic and bitboards | state machine |
| `Relaxation` | what every solver promises of its field | abstract specification |
| `Solvers` | thirteen other solvers, the racing original and the GPU kernel among them | state machine, refines `Relaxation` |
| `Schur` | schur.rs and schur_gpu.rs: tiles, portals, corridor, exact finish | state machine |
| `CompactSolver` | frontier2d_sparse_compact.rs | state machine |
| `FollowLoop` | follow_loop.rs, servers.rs: the threads that drive and plan, preemption, the core's mutex while a field is solved | state machine |
| `Prefetch` | prefetch.rs and the `prepare_goal_*` calls on it | state machine |
| `Localizer` | vi_lib/src/localize: grid, adaptive, adaptive Viterbi | state machine with its robot |
| `Belief` | belief.rs: the whole-map belief, both update rules, recovery stack | state machine with its robot |
| `MC*` | small instances | constants, one action constraint, one view |
| `BellmanProofs`, `PlannerCoreProofs`, `PrefetchProofs`, `FollowLoopProofs`, `FrontierSparseProofs`, `CompactFieldProofs`, `CompactSolverProofs`, `SolversProofs` | | lemmas and theorems |

### Bellman

`Trans[th][a]` is the transition table: the outcomes of an action at a heading,
with fixed-point probabilities. How the code samples it is not modelled; TLC
gets a table with the features that matter (drift into a neighbouring row, turns
that cross heading 0), and the proofs assume only that outcomes lie within
`Reach` and end in a heading. `ActionCost` keeps the width of the integers
(`% Word`, then the shift). The code has `Word = 2^64`, `ProbBase = 2^18`,
`MAX_COST = 10^9 * 2^18`, so `MAX_COST * PROB_BASE` is about 3.7 words; the
instances keep that proportion (238 : 64), and an unreached state looks 46 steps
away there as it looks a finite way off in the code. `penalty + local_penalty`
is one number per cell: both are the same for all headings of a cell.

### PlannerCore

One action is one critical section of the core mutex, with two exceptions:
`RunGlobal` and `RunLocal` are updates of one state in a worker's own snapshot,
outside the mutex. Variables keep the code's names, shortened: `localRev` is
`local_revision`, `inval` the queue of `invalidations`, `cands`/`pending` the two
sets of `DenseSweep`, `gjob`/`ljob` the checked-out jobs and `gpass`/`lpass` their
working copies. Actions and code:

* `PrepareGoal`, `PrepareRelocGoal`, `DiscardPartial`: the three ways a field
  is replaced or dropped; each begins with `invalidate_global_jobs`. A solve
  returns the converged field, an early one, or nothing (cancelled, failed).
* `SetWindow`, `ObserveScan`, `InflateBySigma`: the parts of a tick. They differ
  in which costs may change and how; all of them end in `update_local_ownership`
  and `queue_cost_increases` inside the same critical section.
* `ClaimLocal`, `ReleaseLocal`: `LocalRegion` and its `Drop`.
* `AdvanceInvalidations`: one entry of the queue of discarded policies. The code
  does a bounded number at once; entries are taken one by one here, which only
  adds interleavings.
* `PrepareGlobalJob` .. `RejectLocalJob`: the jobs. `SettleGlobal` is part of both
  commits, as in the code.

Reads that change nothing (decide, rollout, value grids) are not actions. The
order in which a pass visits its states is left open.

### FrontierSparse

Threads are indexed `0 .. Workers - 1`, thread 0 is the leader. The candidates are
the set of cells not yet claimed, in the order of `Place`. `Claim` is the
`fetch_add`, `Load` one read of the shared array (what an action has read so far is
kept in `scan[w].got`), `Store` the comparison and the write; `Barrier1`, `Lead`, `Barrier2`, `Wake` are the end of a round. The observer
answers any of `Flows` at a boundary, and unless it cancels it has looked at the
field first, for which the leader writes it back. The reference is `Original` of
the module of that name: whole-map sweeps of the unclamped update, as a recursive
function.
The relaxed atomics are modelled as a sequentially consistent array. Each entry
is one word and has one writer per round, and a barrier orders the rounds; the
only thing relaxed ordering adds is a read that returns an older value of the
same round, which the interleaving of loads already covers for one neighbour
(several entries seen out of order by one thread are not covered).

### Solvers and Relaxation

`alg` is the solver, `world` the map and the field it starts on (a fresh one, or
one solved under other penalties). One update of one state is one step; a
boundary asks the observer for any of `Flows`. The in-place solvers (reference,
stream, frontier2d, frontier3d, stack, block, pyramid) differ in the order and the
set of states they visit (`Candidates*`: a round is a set of visits, each a turn and a
state; turns go in ascending order and the states of a turn in storage order); `par` is Jacobi rounds on the
padded array; `prio_ls` and `prio_lc` pop labels; `ordered` has threads, buckets
and flags, the flag's relaxed store waiting in a buffer of the thread; `multi` is
the original solver with several threads that race on purpose, its reads, the
cost and the action it stores apart in time; `gpu` is the frontier kernel with
`Resident` threads at a time that read and write the same costs.

`Relaxation` says what a solver is: a step sets states only to what an update of
the present values gives (in the original's arithmetic or the clamped one), and
convergence is reported only at a fixed point. `Abstract` maps the working array
of the solver (`Costs`) to `val` and its outcome to `result`; the property
`ImplementsRelaxation` is `Abstract!Spec`. The threads of `multi` and `ordered` store values
that are out of date; for them the mapping hides the field, and `UpperBound` and
`SingleWriter` say something. `Exact` is what `SolverCaps` says of each solver; `ordered`,
which is called by itself, has no entry there.

### Schur

`BuildTile` and `BuildTileGpu` compute the crossing costs of a tile, `SeedTile` to
`GraphDone` the query on the portals, `SolveOneTile`, `Merge`, `FixPortals` the tiles
of a full solve, `SolveRobotTile` the two-level corridor query, `ExactRound` the
frontier rounds that make the result exact. The kernels' passes are sequences of
updates over the tile as on the CPU, with their own cap and stopping test.

### CompactSolver

A wave is `BeginRound`, `Relax` (a thread updates its next state in place), `Apply`;
`Finalize` is everything between two waves: columns below the watermark go to the
sink, blocks are freed, the caller is asked, the watermark moves on, columns that
were put off are woken. The two entries of the code (`slice`, `mapped`) differ in
who owns the result and in the cancel flag. The frontier and the states a worker
still has to evaluate are sets, taken in the order of `Place`.

### CompactField

The variables of `PlannerCore` where they are the same in the code, and `sink`,
`overlay`, `patch`, `dist`, `window`, `queue` for the compact branch. One action is one
critical section; a pass of a worker, which only touches its snapshot, is
evaluated at its commit. Which queued tile is taken next and the order within it
are left open.

### Localizer and Belief

Both have the robot in them (`truth`), which drives, turns, is seeded with right
and wrong poses and is carried away, and whose scan is cast in the true world.
A weight is its order of magnitude (`rank`): products of likelihoods become sums,
sums of weights minima, and the thresholds of the code (z_min, the pruning ratio,
the neutral likelihood, ESS limits) ranks or counts in the same order. What this
keeps is what the control depends on: which hypotheses are pruned, mixed in,
released or flattened, and in what order; what it loses are differences within
one order of magnitude. `Localizer` has a one-row map, two headings, and the
levels and windows of the adaptive localizer. `Belief` has a corridor with side
walls and an alcove, four headings, and a wall on the map that is not there
(`Ghosts`), which `clear_free_from_scan` has to open. `Observe` is the whole of
`observe` in the code's order: start-up, gate, flush, extinction, correction, mismatch,
latch, release, probation. `scratch` is the set of cells of the scratch buffer
that are not zero.

### Prefetch

The *main side* is whichever node thread holds the core mutex: there is never
more than one, because `adopt` does not give that mutex up. `pc` says where in
`prepare_goal_with_progress` it is, `wpc` what the worker does. `giveUp` is the
caller's cancel flag; `Preempt` raises it at any time. The variable `replaced` is
history: the goals in hand that were ordered under a list that is gone. They need
not be next in the new one.

### FollowLoop

A thread per request; `pc` says where it is. `core` names who holds the core's
mutex across steps (a solve); ticks, the settle loop and the workers take it for
one step only, which other threads see as `Contention`: a `try_lock` that fails
although nobody solves. Actions and code:

* `Accept`, `AcceptPlan`, `ClientCancel`: the servers with `preempt` and
  `until_cancel_requested`. `kind` is the server ("goal" is navigate_to_pose and
  /goal_pose), `route` the goals still to be visited.
* `Begin`, `Solve`, `Rollout`, `SolveAgain`: the first part of `run_follow` and all
  of `plan_with_progress`. The stop, the look at the cache and the dropping of
  another goal's field are one step under the mutex, the solve is the next.
* `ClaimRegion`, `Release`, `SettleClaim`, `Settled`: the places where a thread
  blocks on the core for its region.
* `Tick`, `Act`, `Recheck`, `Publish`: a tick with a pose, cut where other threads
  can come in between: the flag, the critical section, the flag again, the
  command. `Back`, `BackSolve`: the return from relocalization.
* `Lost`, `Reloc`, `RelocSolve`, `RelocPublish`: a tick without a pose.
* `Retry`, `Settle`, `Resume`, `Finish`: `run_goal`, `run_settle` and the tour.
* `Observe`: the pose and scan callbacks; `MarkComplete`: the workers complete an
  early field.

`late` counts the motions a thread commands after its flag went up, `quiet` the
ticks since it last published; no guard reads them. What the field says, whether
there is a pose and how a solve of a goal outside `Failing` ends are left open;
goals in `Failing` never converge. The localizer's mutex is held for one
operation at a time and never while waiting for anything, except by the settle
tick, which takes it with the core locked (follow_loop.rs:539-541) against the
order in handles.rs:94; no thread takes the core while it has the localizer, so
that this cannot block and the mutex is not a variable.

## 3. What is checked

### Runs that pass

* **prefetch** (four goals, one of them unsolvable, and four lists: one that turns
  back, one that leaves a point out, one that shares none):
  `WithdrawnIsStopped`: a solve the state no longer holds was told to stop;
  `PrefetchIsNext`: the premise on which `adopt` cancels whatever is in flight, for
  what was ordered since the list was last replaced;
  `AdoptReturns`: adopt does not wait for ever; `NextIsPrefetched`: driving on, with
  the 1 Hz replan, ends with the next waypoint's field ready, whatever was
  cancelled before. A lost wake-up breaks both of the latter.
* **core** (four cells, one of them a wall that scans open, two followers, early
  and converged fields, Jacobi local pass; 831 thousand states):
  `CertifiedIsFixpoint`, `SettledIsFixpoint`, `SnapshotsAreCurrent`,
  and `TypeOK`, whose part that is not about types is
  `deferred \subseteq owned`.
* **compact_field** (four cells, one follower, patches of two origins, tiles of
  two cells): `PatchIsSink`: the copy the robot drives by never disagrees with the
  field; `WindowFits`: the window and all that its update reads lie on the patch;
  `SettledIsFixpoint` under the penalties in force, those remembered in the
  overlay included.
* **sparse** (2 x 2 cells, 4 headings, 3 actions, 2 threads with blocks of two,
  every observer answer, started on a fresh field or on the field of other costs):
  `OneWriter`, `NothingForgotten`, `ConvergedIsConsistent` (a converged field is a
  fixed point), `ConvergedIsOriginal` (that of the original solver, also when
  values have to rise), `StoppedFieldDescends` (from a fresh field), `Terminates`.
* **solvers** (thirteen solvers, five worlds): `ImplementsRelaxation` (the
  refinement), `ConvergedIsOriginal`, `UpperBound`, `StoppedFieldDescends`,
  `SingleWriter`: no state of the ordered sweep is in two hands, nor twice on the list
  of the next pass. The ordered sweep has two threads and is no part of
  `ConvergedIsOriginal`, which it violates; see the notes below.
* **schur** (6 x 3 cells in tiles of two, two portal densities, CPU and GPU):
  `UpperBound` at every stage, `CorridorIsSound`, `MergedFieldDescends`,
  `ConvergedIsOriginal`.
* **compact_solver** (3 x 6 cells in blocks of two rows, two threads):
  `ExactPrefix`: what is in the sink is exact at every moment, so a solve may be
  stopped anywhere; `ConvergedIsComplete`; `WindowsResident`: no freed block is read,
  neither the window of a state that is evaluated nor the column of an occupied
  cell, which a worker reads although it never becomes final.
* **follow** (two requests of any kind, active relocalization, two goals of which
  one never converges, one retry): `NobodyDrivesIsStopped`: however requests end,
  preempt and overtake each other, the last command is a stop;
  `AtMostOneLateMotion`: the second look at the flag is there so that the old loop's
  command does not overwrite the new loop's (follow_loop.rs:468-469); look and
  publish are two steps, so one motion can slip through, and never two.
* **follow_cancel** (a tour with early fields, active relocalization, retries without
  limit, a goal that never converges, a planning request): `CancelledEnds`: a
  cancelled thread ends; `SolvesStandingStill`; `StaleCommandEnds` with the code's
  three ticks. The latter leaves out the branch that returns from relocalization
  (follow_loop.rs:227-232), which skips ticks without counting or stopping while
  another request solves.
* **localizer** (sixteen cells, the three windowed localizers): `PoseIsFree`,
  `LostHasHypotheses`, `Relocalizes`.
* **belief** (ten cells, four headings; sum-product, min-plus, and sum-product with
  the recovery stack; the robot starts in front of a wall that is not there):
  `WrongPoseIsNoticed`, `TruthSurvives`, `EmptyIsReseeded`.

Every property is preceded in its module by what it says and the code it is
about.

### The run that finds a disagreement

* **belief_viterbi**: `EmptyIsReseeded` fails when the min-plus rule is combined with
  the recovery stack (`localizer: viterbi`, `belief_recovery: true`, which
  params.rs:487 admits). The shift of the min-plus costs writes into `scratch`
  (belief.rs:1396-1406; the comment at 1409 calls that harmless), and the scan
  match, which collects its candidates in the same buffer, takes every entry that
  is not zero for one it has already collected (215-221). Nothing is injected, so
  a belief that is empty (at start-up, or after a failed probation) stays empty.
  The trace has four states: start, a scan, a motion, a scan.

### Notes from the models

Places where a comment or document says more than the code does, met while
modelling. No run of the project is about them; each says how to see it.

* "Exactly two fields at most" (prefetch.rs:18-22, boot.rs:269-271): the worker
  puts its result down (prefetch.rs:268) without looking at whether it was
  withdrawn, so that a third field can be alive for a while.
* "Greedy descent on an early field always lowers the value" (core/mod.rs:699-703):
  when the window moves over part of a batch under way, `commit_global_job`
  (core/global.rs:195) publishes the rest of it alone, and a published state may
  lead to a state with the higher, older value until the next sweep.
* "An increase invalidates the stored policies that depend on it"
  (README.md:41-43): the same partial publication can restore a policy whose
  successor has none, and the trace of the next increase stops there
  (core/global/invalidate.rs:99).
* "Bit-exact with the original for reachable cells" (frontier2d_sparse.rs:150):
  true as long as no action can stay in its own state; with headings coarser than
  a turn the clamp (frontier2d_fused.rs:74) keeps some states unreached that the
  original reaches.
* "Lower the own flag first: a successor that moves meanwhile raises it again"
  (ordered.rs:162), and "any order lands on" the fixed point (22-23, and the test at 241):
  the store is relaxed, so that it may become visible after the reads that follow it. A
  neighbour that moves in between finds the flag up (176) and does not queue the
  state, the list of the next pass stays empty, and the sweep reports convergence
  above the fixed point. With `Exact` true of `ordered`, `Algs = {"ordered"}` and
  `NThreads = 2`, TLC finds a trace that violates `ConvergedIsOriginal` from a fresh field;
  it needs the store buffer (`buf`).
* "Preempted by a newer goal" (servers.rs:297): `prepare_goal_with_progress` drops
  the loaded field (core/mod.rs:729) before the cancel flag is looked at; a
  superseded thread that was still waiting for the core takes its successor's
  field away, and the newest request ends as preempted.
* The robot is stopped before every solve of its goal (follow_loop.rs:126-131, 233)
  and not before that of the relocalization field (follow_loop.rs:299).
* "The map has changed, so the distances are dropped" (local.rs:252, 490): on the
  compact path the patch moves under distances that were measured once
  (local.rs:529), so the sigma band of a moved patch lies around the obstacles of
  the place before (`dist` of `CompactField`).
* The windowed localizer reports the mean of a belief with two modes on its
  finest level, a place between them, as long as that is free; a map that is
  ambiguous beyond `contract_ess` keeps it lost; turns and straight motion between
  two scans of the min-plus rule are summed apart.
* The whole-map belief documents `contract_ess` and does not read it; the pool of
  the scan match is built once and does not see walls that a scan opened later; the
  first scan of a robot that has not moved is dropped by the gate; a lost robot that
  stands inside a wall of the map loses its true hypothesis until the wall is
  opened.

### Bounds, and why they are enough

* `MaxEpoch`, `MaxSerial`, `MaxRevision` cap `u64` counters that only grow. The
  run allows two epochs, four serials (claims and jobs) and three revisions:
  enough for a job to be handed out, outdated by each kind of event and rejected
  or accepted, with a second one after it.
* `RecheckLimit` stops the idle recheck of the whole map, which otherwise begins
  a new job for ever; jobs of the recheck do occur below it.
* `Budgets`: a batch of two cells, so that a round needs several jobs.
* Four cells in a row give a goal, a cell inside the window, one beyond it and a
  wall that becomes free; `Pens = {1, 4}` makes a detour look cheaper than the
  straight way.
* `Agreement` (view of compact_field): job numbers, owners and revisions are only
  ever compared for equality with the ones in force, so that states that differ in
  the numbers and agree in the comparisons behave alike. `MaxSerial` and
  `RecheckLimit` are out of reach there.
* `PassesFirst` (action constraint): a pass touches only the snapshot it was
  given, so its steps commute with every other one and a pass under way is
  finished first. No property reads a pass before its last step except through
  the commit. The proofs do not use the constraint.
* `Followers` (symmetry) is used in core; threads are interchangeable there and
  the run has no liveness property.
* FrontierSparse: 2 x 2 cells with four headings give headings that wrap, several
  candidates per block, neighbours read in mid-round and rounds in both
  directions. `MaxIter = 12` is above the rounds convergence takes.
  `Sweeps = 6` sweeps settle the oracle, which `OracleHasSettled` asserts.
* Solvers, Schur, CompactSolver: maps small enough for the oracle, with a cell
  that cannot be reached, an action with two outcomes, headings that wrap, blocks,
  tiles and buckets of more than one member, and intervals that put boundaries
  inside a solve; the coarse levels of the pyramid and the put-off columns occur. The
  threads of the ordered sweep claim one state at a time (256 in the code), which
  lets them interleave on a handful of states.
  `OracleHasSettled` of `MCSolvers` and `MCSchur` asserts that the oracle has
  settled; in `CompactSolver` an unsettled oracle would break `ExactPrefix`.
* Localizer, Belief: `MaxMoves` commands, one seed or abduction (`MaxJumps`) and
  `MaxCalm` scans in a row, by which the properties count. Between two scans there
  is one command (`heard` in `Belief`; the scan rate is below the control rate in
  the code, which only sums the motion). The recovery stack gets more commands and
  fewer scans, since its gate needs motion; releases, passed and failed probations,
  matches from tracking and when lost, and a robot inside the opened wall all
  occur. `MixRank` lies above the pruning line, as one cell of the uniform part
  does on a large map. `LostMinKnown` is 1 (4 in the code, where a scan has
  hundreds of beams): a scan of the instance has four.
* FollowLoop: two requests are enough to preempt and be preempted, and requests
  beyond the slot's one predecessor have their flag up already. `LostBudget` 1
  (the code's `reloc_ticks_limit`), `RetryLimit` 0, 1 or none, `BusyTicks` 1 or 3 (3,
  the code's, where `StaleCommandEnds` is checked) are small values of
  parameters; `late` and `quiet` saturate just above what the properties allow.
  The requests of *follow* are symmetric, and it has no liveness property.
* Deadlock is not checked where the counters' caps stop the system (PlannerCore,
  CompactField, Localizer, Belief), where a solve ends (FrontierSparse, Solvers,
  Schur, CompactSolver; `Terminates` says of the first that it ends properly)
  and where all requests have been served (FollowLoop; `CancelledEnds`).

### Fairness

* `Prefetch`: weak fairness of the worker and of the main side's own steps: both
  are threads that run on by themselves, and neither blocks on the other while it
  holds the state's mutex. Weak fairness of `PrepareHit(g)` stands for the
  behaviour tree's replanning at 1 Hz, on which the comment at core/mod.rs:719
  relies. Clients that preempt, change the list or ask for another goal are
  under no obligation.
* `FrontierSparse`: weak fairness of each thread and of the barriers: threads
  are scheduled, and a barrier releases threads that have all arrived. Nothing is
  assumed of the observer.
* `FollowLoop`: weak fairness of each thread's own steps: threads are scheduled, a
  solve ends (its iterations are capped by `max_solve_iter`, and `AdoptReturns`
  covers the wait inside it). Strong fairness of the steps that block on the core:
  `std::sync::Mutex` promises no order, but whoever releases it sleeps until its
  next tick or ends, so a waiting thread gets it at some time. Nothing is assumed
  of clients, callbacks or of a `try_lock` ever succeeding.

## 4. What is proved

For every map, transition table, set of goals, windows, penalties, followers and
worker threads. Assumed are `BellmanAssumption`, `TransAssumption`, `CoreAssumption`,
`PrefetchAssumption`, `FollowAssumption`, `SparseAssumption`, `OutcomeAssumption`,
`SolversAssumption`, `ProbAssumption`, `FreshAssumption`, `WrapAssumption` and the
`CompactAssumption` of `CompactField` and of `CompactSolver`, all evaluated by TLC
on the instances. What a theorem needs beyond them is a hypothesis in its statement, and
explained below.

* `PlannerCoreProofs!TypeCorrect`: `TypeOK`, in which `deferred \subseteq owned`
  is the part that is not about types.
* `PlannerCoreProofs!AcceptedSnapshotsAreCurrent`: `SnapshotsAreCurrent`.
* `PlannerCoreProofs!CertificatesHold`: `CertifiedIsFixpoint`.
* `PlannerCoreProofs!RegionIsKept`: `SuccessorKeepsRegion`, an action property that is
  only proved, not part of a run.
* `PlannerCoreProofs!NothingIsLost`: nothing that has to be repaired drops out of the
  queues, but for the cells of a ledger that two exactly named events fill;
  `PlannerCoreProofs!SettledFields`: `SettledIsFixpoint` while the ledger is empty;
  `PlannerCoreProofs!RecheckHeals`: the recheck of an idle worker empties it.
* `PrefetchProofs!WithdrawnSafety`: `WithdrawnIsStopped`;
  `PrefetchProofs!PrefetchSafety`: `PrefetchIsNext`, for lists of any length.
* `FollowLoopProofs!StoppedAtTheEnd`: `NobodyDrivesIsStopped`;
  `FollowLoopProofs!LateMotion`: `AtMostOneLateMotion`;
  `FollowLoopProofs!StillWhileSolving`: `SolvesStandingStill`;
  `FollowLoopProofs!StaleCommand`: `StaleCommandEnds`; for any number of
  requests and routes.
* `FrontierSparseProofs!WriterSafety`: `OneWriter`;
  `FrontierSparseProofs!FrontierSafety`: `NothingForgotten`;
  `FrontierSparseProofs!ConvergenceSafety`: `ConvergedIsConsistent`; for any number of
  threads, any interleaving of their loads and stores, and all three engines.
  While the costs leave room for their sums also `FrontierSparseProofs!StoppedSafety`:
  `StoppedFieldDescends`; `FrontierSparseProofs!SparseGreatest`: what a solve from a fresh
  field converges to is the greatest solution of its equations, on every schedule;
  `FrontierSparseProofs!SparseIsOriginal`: `ConvergedIsOriginal` from a fresh field.
* `CompactFieldProofs!PatchSafety`: `PatchIsSink`;
  `CompactFieldProofs!WindowSafety`: `WindowFits`.
* `CompactSolverProofs!ResidentSafety`: `WindowsResident`;
  `CompactSolverProofs!SinkSafety`: the sink holds the costs of the final columns and of
  no others; `CompactSolverProofs!FinalForGood`: what it holds of a final column is never
  revised;
  `CompactSolverProofs!FinalsAgree`: the goal states `compute_finals` finds in its box
  around the goal are those a search of the whole map finds;
  `CompactSolverProofs!SinkCanBeFollowed`: what is in the sink can be followed, at every
  moment; `CompactSolverProofs!PrefixIsUpperBound`: the half of `ExactPrefix` that does
  not depend on the band.
* `SolversProofs!FrontiersImplementRelaxation`: `ImplementsRelaxation` for frontier2d,
  frontier3d, stack, block, pyramid, and for prio_ls and the racing threads, of which the
  mapping shows no fixed point and no field respectively;
  `SolversProofs!PaddedConverges`: a solve of frontier2d_par or of the GPU kernels that is
  reported as converged has returned a fixed point of the clamped update, with its
  policy. This one is not part of a run. Of the same solvers on fresh fields
  `PaddedGreatest`, `PaddedUpperBound` (`UpperBound`), `PaddedStopDescends`
  (`StoppedFieldDescends`) and `PaddedIsOriginal` (`ConvergedIsOriginal`).

### The repaired field

None of the first three is inductive. `Inv` of `PlannerCoreProofs` adds

* `Numbered`: the numbers a job carries (epoch, revisions) are not ahead of the
  Manager's, owned cells lie in the window and nothing is owned without a field;
  without it a number could be reached a second time;
* `GlobalSnapshot`: a current global job saw costs at least as high as today's.
  It is preserved because every increase starts an epoch
  (`queue_cost_increases`);
* `LocalSnapshot`: a local job that is current and of today's
  `local_revision` has today's costs and exactly the owned cells, no policy is
  waiting to be removed, and if its `boundary_revision` is today's too, its
  values are today's. This is what makes the three comparisons in
  `commit_local_job` sufficient;
* `PassIsJacobi`: what the working copy of a local pass holds for the states
  visited so far, as long as nothing has moved, is one update of the snapshot.
  For the sequential pass too: with no difference the values it reads are
  still those of the snapshot;
* `Certificate`: while certified, owned states are consistent and no
  increase is waiting.

The argument for the certificate: a pass that moved nothing is a fixed point of
its snapshot (`PassIsJacobi`), the snapshot is the present (`LocalSnapshot`), so
the window is consistent at the commit; afterwards every event that could break
it (global commit that changed something, moved window, changed inputs, removed
policy, new field) takes the certificate away. The proof of `Next` has one step
per action, and under it one per conjunct the action can disturb. `BellmanProofs`
has the facts about `MinActionCost` that all proofs share: `Least` of a set of numbers is
its least member, an update stays within `Cost` and the actions, depends on nothing but
`Reads`, and those lie within reach.

For the whole field `QueueInv` adds to `Inv` what the queues hold:

* `Covered`: a state is `Consistent`, or its cell is `Waiting` (around a pending cell, a
  candidate, deferred, or owned and not certified), or it is in the batch in flight, or it
  is in the ledger `unsure`;
* `GlobalSeen`: wherever the field or the inputs have changed under a batch that would
  still be accepted, the cell is pending;
* `GlobalPass`: a global pass moves its own cells only, and what it has stored for a state
  is one update of the snapshot unless something the state reads moved in the pass;
* `Queued`: `dirty` is up as long as a queue holds a cell.

`unsure` is a history variable that `LedgerSpec` keeps beside `Spec`; no guard reads it, so
that every behaviour of `Spec` has one. It is there because the code has two ways past its
queues, and an invariant without it is false:

* a field solved on a map with pockets is no fixed point there (an unreached pocket keeps
  `MaxCost`, an update of it gives the wrapped sum), and a converged field is loaded without
  being queued;
* `commit_global_job` (core/global.rs:195) leaves out the cells of its batch that a window took
  in the meantime. A neighbour that the batch computed from such a value and did not move is
  in no queue, although the value it was computed from was never published.

`Enters` says just that: a cell gets into the ledger if an update would change it and one of
the two has happened to it in this step; `Stays` keeps it until somebody looks at it again
(`Vouched`) or another field is loaded. `NothingIsLost` then says that a field that is not dirty
is consistent everywhere else: scans, claims, window moves, invalidations, rejected and late
jobs of both workers lose nothing, and neither does a commit that leaves cells out, except at
the cells named. `SettledFields` is `SettledIsFixpoint` for an empty ledger, and `RecheckHeals`
that the ledger is empty after each `restart_global_check`, because every cell of the map is then
in the batch, a candidate, deferred or certified. On the instance of run `core` TLC finds
commits that compute a cell from one that was left out, and the ledger stays empty all the
same: the run's `SettledIsFixpoint` has no exception.

In `CoveredCommit`, the step that all this is about, a state outside the halo of everything that
was moved or has to be tried again has been updated from values that are now in the field,
unless one of the cells it reads was left out, which is `Stale`.

### The driving threads

`Inv` of `FollowLoopProofs` has two parts besides the types it needs.

* `Commander`: a motion in force was commanded by a thread that is still in its
  control loop. Every way out of the loop, and the step from it into solving the
  goal, stops the robot, and a stop of anybody ends the motion; a thread outside
  its loop only stops. It gives `NobodyDrivesIsStopped` and `SolvesStandingStill`
  at once: neither would survive a single step by itself, since the thread that
  ends need not be the one that spoke last.
* `Latecomer`: a thread that moved the robot after its flag went up is at the top
  of the loop or on its way out with the outcome `Preempted`. There the flag is the
  first thing it sees. The outcome matters: a failed try is repeated and a tour
  goes on after a point, which would bring the thread back to a publish, but a
  preempted one does neither.

The steps come in four shapes, each a lemma (`PassStep`, `StopStep`, `MoveStep`,
`EndStep`), and every action is shown to have one of them.

For `StaleCommandEnds` the invariant `StaleInv` adds `Counters` (their types) and
`Counted`: the motion in force is at most as old as the number of ticks its thread has
counted without the core, except between the reset of the count and the command that
replaces the motion. Nothing is said of a thread that drives to a place to relocalize:
there the code does not count (follow_loop.rs:227, a hazard without a property).

### The prefetched waypoint

`NextInv` of `PrefetchProofs` is `PrefetchIsNext` with the types and three facts: the order,
the running solve and the result are different goals, and never all three are filled
(`Slots`); every goal in hand is on the present list or in `replaced` (`Listed`); a
call that is going to solve here has withdrawn everything, and one that adopted
left at most one of order and running solve behind (`Loading`).

### The asynchronous frontier

`SafeInv` of `FrontierSparseProofs` is `ConvergedIsConsistent` of the field written back
and, of the array the threads share:

* `Phases`: where the threads can be between the barriers of a round;
* `Claims`: a cell that is claimed is not claimed again in the round, and `OneWriter`;
* `Scans`: an evaluation in progress has the costs of the present values so far, unless
  one of its inputs moved in this round;
* `Covered`: a state none of whose inputs moved in this round is consistent or still to
  be evaluated in it. A store that moves a state puts it in `changed`, so whoever has
  read the old value is a candidate of the next round, because reach is symmetric
  in the cells (`NearSymmetric`) and, around the circle, in the headings
  (`CircSymmetric`, `TurnIsBounded`);
* `Converged`: after a round that moved nothing the array is consistent: `Covered`
  with nothing moved and nothing left to evaluate.

A read that is out of date when it is used is no exception: the value it missed
was stored in the same round. That is the whole argument for reading without a lock.

### Costs that only fall

That a field is consistent does not say which field it is, nor that one stopped half-way
can be driven on. Both follow from an update being monotone: dearer outcomes, a dearer
state. In machine words that is false, because the sum of an unreached outcome is
`MaxCost * ProbBase` modulo `Word`. It is true of the solvers that clamp, that is, leave
out an action with an unreached outcome, as long as the reached costs stay below a `limit`
whose sums fit a word. `Roomy(limit)` says so of the transition table;
`Fits`, `PadFits` and `CostsFit` say of the entries of the three arrays that they stay
below it. They are hypotheses of the theorems. TLC has shown them to hold throughout the
instances, with a limit of 63 for the default and the padded solvers and of 511 for the
compact one; in the code, where a step costs 2^18 and a word has 64 bits, the limit is
2^28 steps.
`BellmanProofs` has the monotonicity once for all: `WeighedIsMonotone` for a sum over any
set of outcomes (the least number of outcomes for which it would fail leads to a smaller
one), `ClampedMonotone` and `ClampedLeastMonotone` for an action and a state.

*A stopped field.* `Descent` of `FrontierSparseProofs`: each entry is warranted by an action
whose outcomes are reached and which costs no more (`Warranted`); what a thread
has read is no lower than it is now (`ReadsAreOld`), and its evaluation will not end
above the present value (`WillNotRise`: the least so far, or an action still to be
looked at, is not above it). The last is what makes a late store harmless. From it
follows that entries only fall, and a warrant survives that. With fresh fields only: on
a resweep entries rise, and `StoppedFieldDescends` is stated of fresh fields.

*The greatest solution.* A `Solution` is an assignment of costs that no clamped update would
lower, with the goal at zero. By monotonicity nothing a solver reads, computes or stores
is ever below a solution if it starts at `MaxCost` (`GreatInv`; `BoundInv` for the padded
copy, `Above` for the compact solver). So what a solver has converged to, being a solution
itself, is the greatest one, and there is only one: neither the number of
threads nor the interleaving shows in the values, which is what "bit-exact" in the comments
of solvers/mod.rs comes down to. The comparison with the original solver is reduced to a
statement about that sequential solver alone, `OriginalSolves` or `OracleIsGreatest`: it
ends on the greatest solution with the first action of least cost. That it does so is not
proved, since `Original` is recursive. On the instances TLC has checked that its
costs are a solution, that nothing falls below them and that every converged field has
them, together with the actions.

*The compact solver.* A column is closed when its costs lie a band below the watermark, and
whether the band is wide enough is a matter of the map. What does not depend on it: costs
are never below a solution, and what is written is warranted by the stored action and stays
so while its outcomes fall. A column closed too early is too dear, never too cheap, and a
robot that follows the sink is never promised less than it pays.

### The frontiers and the relaxation they implement

`SolversProofs` shows that no shape of frontier leaves out a state that would move. What
an update reads lies within reach (`ReadsAreNear` of `BellmanProofs`), and there is one
lemma per shape that a state reading a state of the frontier is visited: `Covers2D`,
`Covers3D`, `CoversStack` (rotated layers, `Rotation` being the arithmetic modulo the
number of headings) and `CoversBlock` (`BlocksAreNear`: cells `d` apart lie in blocks at
most `d` over the size, rounded up, apart). The invariant of the rounds is `Covered`: a
state that an update would move waits for its visit in this round, or reads a state that
has moved since, or reads nothing that was ever reached. The last case is not an
accident of the proof. A field seeded from reached states never looks at the
others, and what their update would give is `MaxCost` wrapped around; that it does not
look reached is `WrapAssumption`, a fact of the constants in params.rs. At the end of a
level of the pyramid the frontier is seeded anew, and `Covered` holds again for another
size of block.

Left out of the theorem: reference and stream, whose progress counts only moves of values
below `ReachThresh`, so that for arbitrary costs a rise above it, late in a sweep, ends the
solve; `par` and `gpu`, whose fixed point is one of the clamped arithmetic and need not be
one of the raw one where an action mixes reached and unreached outcomes; `gpu` and
`ordered`, whose threads store what they read earlier; `prio_lc`, whose labels only fall.

For the padded copy `PadInv` adds `InFlight`: what a thread of the kernel is about to
write is the least cost of the present values unless one of the inputs moved in this
round. `PadCovered` says of a state that is not consistent that it waits for its thread
or lies around a cell that moved. A thread that stores an out-of-date cost has an input
in `moved`, hence its cell is listed by the next `vi_dilate`: unsynchronised threads
cost rounds, never a fixed point.

### The compact path

`Inv` of `CompactFieldProofs` needs no type of a value: the argument is only about who
may write which cell. `Held` says that with a patch and a holder exactly the window is
owned, `JobFits` that a local job in flight of the present `local_revision` is for
the cells owned now, `WindowFits` that the window and its reach lie inside the patch.
`PatchIsSink` is then preserved: what `commit_window` writes to the sink is the window,
which lies in the patch, and a tile that overlaps the patch is written to both.

`Inv` of `CompactSolverProofs` shows that a window is never asked of a freed block:

* `Full`: all that lies around an evicted block is final;
* `Lives`: a live column is open (it has an evaluated state that is not
  final), or it is a column of goal states only, which the first wave settles before
  anything is freed;
* `Fronts`: a column of the frontier is near an open one;
* `Pinned`, `Final`, `Working`: states that are not evaluated keep their first cost, what
  is final is in a final column, and what the workers hold in a round is neither
  final nor outside the resident blocks.

A column evaluated is near an open one (`Fronts`), so the block it lies in has something
that is not final around it, so it is not evicted (`Full`). `HaloSuffices` is the
arithmetic in between: the halo rounded up to blocks covers the reach in cells.
In the same way `FinalsAgree` rests on the box in `compute_finals` being as wide
as the goal margin.

### Only model-checked

Liveness (`AdoptReturns`, `NextIsPrefetched`, `Terminates`, `CancelledEnds`) is
out of the prover's reach, and so is what the recursive function `Original` computes:
where a theorem compares with it, that it solves the equations is a hypothesis. Also checked
on the instances and not proved:

* `ConvergedIsOriginal` on resweeps. Costs are rounded down, so a field of other
  costs may lie on a fixed point below the greatest one: it is a matter of the costs.
* `ConvergedIsOriginal`, `UpperBound` and `StoppedFieldDescends` of the solvers that update
  in place without clamping. They are not true of every table: an action that mixes
  reached and unreached outcomes has a wrapped sum, which can be any number.
* `SingleWriter` and `UpperBound` of `ordered`, which clamps, but keeps its flags in lists
  that are sorted and filtered.
* The other half of `ExactPrefix`, and `ConvergedIsComplete`: they depend on the band being
  wide enough for the couplings of the map.
* `SettledIsFixpoint` of `CompactField`, whose tiles leave out the cells of the window as
  the batches do, and `SettledIsFixpoint` of `PlannerCore` where the ledger is not empty.
* `UpperBound`, `ConvergedIsOriginal`, `CorridorIsSound` and `MergedFieldDescends` of `Schur`: they
  need the costs of a path, that is, an induction over its length.
* The properties of the localizers. `PoseIsFree` and `LostHasHypotheses` depend on the
  constants (a window with no free cell, a scan without a beam), so there is no
  theorem for all of them.
* `ImplementsRelaxation` of the solvers that are not in the theorem.

## 5. Not modelled

* The contents of the scan queue (capped at ten, the oldest dropped), feedback and
  drawing of the follow loop.
* `CpuPacer`: it decides when a worker runs, never what it does.
* Controllers (DWA, MPPI), the rollout planner and the choice of relocalization
  targets: geometry in floating point that reads a field or a belief and keeps
  nothing; value grids and message conversion: read-only.
* Of the localizers: the external pose, hypothesis lists for QMDP, drawing, and
  differences of weight within an order of magnitude.
* The files behind the compact sink and the Schur artifact.
* Sampling of the transition table: an input here.
* The FPGA driver and kernels, device memory and streams of the GPU solvers, MATLAB
  and learning experiments, benchmarks.

## 6. What is left to do

1. Proofs: the queue of tiles of the compact field, the exact finish of the Schur solver,
   `SingleWriter` of `ordered`, that the original solver ends on the greatest
   solution.
2. Progress of repair: with inputs at rest and both workers running, the field
   settles (instances without pockets that count up).
3. Bitboard words (`dilate2d_into`, θ rotation) as functions against the sets used
   here; a resweep that closes cells.
4. The FPGA driver's register handshake, its timeout and the interrupt after it.
