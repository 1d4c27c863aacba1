------------------------------ MODULE Solvers ------------------------------
(***************************************************************************)
(* The solvers of vi_lib/src/solvers that work in one thread or in phases, *)
(* and the two whose threads share the field without any frontier: the     *)
(* original solver with several threads and the ordered sweep.  (The       *)
(* solvers on the asynchronous engine are in FrontierSparse, the one that  *)
(* works out of core in CompactSolver, the one with precomputed tiles in   *)
(* Schur.)  One update of one state is one step.  The solver for the GPU,  *)
(* solvers/frontier_gpu.rs with its kernels, is here as well.              *)
(***************************************************************************)
EXTENDS Original

CONSTANTS
    Algs,            \* the solvers to run
    Worlds,          \* [map, start, fresh]: maps and fields a solve is started on
    MaxIter,         \* max_iter; passes of the ordered sweep
    Times,           \* times: sweeps of every thread of the original solver
    Interval,        \* SolveObserver::interval
    Flows,           \* what the observer may answer at a boundary
    ReachThresh,     \* REACH_THRESH
    Finest,          \* BLOCK, FINEST: cells along a block
    CoarseSizes,     \* the coarser blocks of the pyramid, in the order they are tried
    CoarseBudget,    \* COARSE_BUDGET
    LocalSweeps,     \* LOCAL_SWEEPS
    Stride,          \* pops between two boundaries of the priority solvers
    BucketWidth,     \* 2^BUCKET_SHIFT
    Buckets,         \* MAX_BUCKETS
    Block,           \* states a thread of the ordered sweep claims at once
    NThreads,        \* n_threads() of the ordered sweep
    ThreadNum,       \* thread_num of the original solver
    Resident         \* threads of a kernel that run at a time; blocks start in order

InPlace == {"reference", "stream", "frontier2d", "frontier3d", "stack", "block", "pyramid"}
Priority == {"prio_ls", "prio_lc"}

ASSUME SolversAssumption ==
    /\ Algs \subseteq InPlace \cup Priority \cup {"par", "ordered", "multi", "gpu"}
    /\ MaxIter \in Nat \ {0} /\ Times \in Nat /\ Interval \in Nat \ {0} /\ Stride \in Nat \ {0}
    /\ Flows \subseteq {"Continue", "Stop", "Cancel"} /\ "Continue" \in Flows
    /\ Finest \in Nat \ {0} /\ CoarseBudget \in Nat /\ LocalSweeps \in Nat \ {0}
    /\ BucketWidth \in Nat \ {0} /\ Buckets \in Nat /\ Block \in Nat \ {0}
    /\ NThreads \in Nat \ {0} /\ ThreadNum \in Nat \ {0}
    /\ Resident \in Nat \ {0}
    /\ CoarseSizes \in Seq(Nat) /\ ReachThresh \in Cost
    /\ \A w \in Worlds : /\ w.start.val \in [State -> Cost]
                         /\ w.map.free \in [Cell -> BOOLEAN] /\ w.map.final \subseteq State
                         /\ w.map.pen \in [Cell -> Nat]

\* set_state_values: a fresh field knows the values of its final states only.
ASSUME FreshAssumption ==
    \A w \in Worlds : w.fresh =>
        \A s \in State : w.start.val[s] = IF s \in w.map.final THEN 0 ELSE MaxCost

\* An action none of whose outcomes is reached wraps around to a cost that does
\* not look reached: set_state_transitions gives every action an outcome, and
\* 10^9 modulo 2^28 = 194,693,632 is above the 10^6 of REACH_THRESH, both times
\* PROB_BASE; penalties are thousands of that unit at most.
Blank == [s \in State |-> MaxCost]
ASSUME WrapAssumption ==
    \A w \in Worlds, s \in State, a \in Action :
        /\ Trans[s[2]][a] # {}
        /\ ActionCost(s, a, Blank, w.map.free, w.map.pen) >= ReachThresh

VARIABLES
    alg, world,      \* the solver and what it was started on, with what the original
                     \* solver makes of that; never change
    val, act,        \* vi.states: total_cost and optimal_action
    hot,             \* the costs of the padded copy (par, ordered)
    phase,           \* "round", "eval" or "done"
    front,           \* the states that moved in the last round
    visits,          \* the evaluations left in this round
    moved,           \* the states that moved in this round
    iters, total,    \* rounds of this level, rounds of the levels before it
    level,           \* the level of the pyramid
    work,            \* predecessors to relax; ordered sweep: states of the next pass
    heap, settled,   \* labels to pop; states popped (prio_ls)
    thr,             \* threads: position, states claimed, the update under way
    queue,           \* ordered sweep: the buckets left in this pass
    dirty,           \* ordered sweep: the flags
    outcome          \* "running" or how the solve ended

roundVars == <<front, visits, moved, iters, total, level, work>>
threadVars == <<thr, queue, dirty>>
vars == <<alg, world, val, act, hot, phase, roundVars, heap, settled, threadVars, outcome>>

map == world.map

\* SolverCaps: settling every state once is only an approximation, and labels
\* that are popped in ascending order cannot follow costs that rise.  The ordered
\* sweep is called by itself and has no caps; its threads can miss a state.
Exact(a) == a \notin {"prio_ls", "ordered"}
Resweeps(a) == a \notin Priority

Moves(s) == Evaluated(map, s)

-----------------------------------------------------------------------------
(* What each solver evaluates in a round after the states F moved.         *)

InOrder(S) == SelectSeq(AllStates, LAMBDA s : s \in S)

\* to_index.
IndexOf(s) == (s[1][2] * Width + s[1][1]) * NumTheta + s[2]

\* A visit is a turn and a state.  Turns are taken in ascending order, and the
\* states of a turn in the order they are stored in.
Earliest(V) ==
    CHOOSE v \in V : \A u \in V :
        v[1] < u[1] \/ (v[1] = u[1] /\ IndexOf(v[2]) <= IndexOf(u[2]))

OneTurn(S) == {<<0, s>> : s \in S}

\* Bitboard3D::enumerate: heading by heading.
ByHeading(S) == {<<s[2], s>> : s \in S}

\* seed_frontier, seed_frontier_2d.
Seed == {s \in State : val[s] < MaxCost}

CellsOf(S) == {s[1] : s \in S}

\* frontier2d: all headings of the cells around a cell that moved.
Candidates2D(F) == OneTurn(Dilate(CellsOf(F)) \X Theta)

\* Mutant: the frontier grows in x and y only.
Candidates3DFlat(F) ==
    ByHeading({s \in State : \E t \in F : s[1] \in Near(t[1]) /\ s[2] = t[2]})

\* frontier3d: the states within reach in x, y and heading.
Candidates3D(F) ==
    ByHeading({s \in State : \E t \in F : /\ s[1] \in Near(t[1])
                                          /\ Circ(s[2], t[2]) <= ThetaReach})

\* frontier_stack: every layer is dilated by itself, then a layer takes over
\* the layers up to ThetaReach away, on either side.
CandidatesStack(F) ==
    LET dilated == [th \in Theta |-> Dilate(CellsOf({t \in F : t[2] = th}))]
        layer(th) == dilated[th] \cup
            UNION {dilated[(th - st) % NumTheta] \cup dilated[(th + st) % NumTheta] :
                      st \in 1 .. ThetaReach}
    IN  ByHeading({s \in State : s[1] \in layer(s[2])})

\* pyramid_sweep: block sizes that mean something on this map, then the finest.
LastLevel == Len(CoarseSizes) + 1
Levels ==
    {LastLevel} \cup
    {n \in DOMAIN CoarseSizes :
        alg = "pyramid" /\ CoarseSizes[n] > Finest /\ CoarseSizes[n] < Max({Width, Height})}
SizeOf(n) == IF n = LastLevel THEN Finest ELSE CoarseSizes[n]

BlockOf(c, size) == <<c[1] \div size, c[2] \div size>>
CeilDiv(a, b) == (a + b - 1) \div b

\* block_refine: the blocks within reach of a block that moved, unless all of
\* the block is occupied; row by row, every one is swept LocalSweeps times.
Active(b, F, size) ==
    LET r == CeilDiv(Max({Reach, 1}), size)
    IN  /\ \E c \in Cell : map.free[c] /\ BlockOf(c, size) = b
        /\ \E f \in F : /\ b[1] - BlockOf(f[1], size)[1] \in -r .. r
                        /\ b[2] - BlockOf(f[1], size)[2] \in -r .. r
BlockTurn(b, size, n) == (b[2] * CeilDiv(Width, size) + b[1]) * LocalSweeps + n
CandidatesBlock(F, size) ==
    {<<BlockTurn(BlockOf(s[1], size), size, n), s>> :
        n \in 0 .. LocalSweeps - 1, s \in {t \in State : Active(BlockOf(t[1], size), F, size)}}

Candidates(F) ==
    CASE alg \in {"reference", "stream"} -> OneTurn(State)
      [] alg = "frontier2d"              -> Candidates2D(F)
      [] alg = "frontier3d"              -> Candidates3D(F)
      [] alg = "stack"                   -> CandidatesStack(F)
      [] OTHER                           -> CandidatesBlock(F, SizeOf(level))

-----------------------------------------------------------------------------
(* Costs in the padded copy.                                               *)

\* Mutant: outcomes that are not reached are left out of the sum.
PadCostPartial(s, a, v) ==
    SumFunction([o \in {p \in Trans[s[2]][a] : Target(s, p) \in Cell} |->
        IF v[<<Target(s, o), o.th>>] = MaxCost THEN 0
        ELSE (v[<<Target(s, o), o.th>>] + map.pen[Target(s, o)]) * o.prob]) \div ProbBase

\* action_cost_pad: an outcome that is off the map, occupied or not reached
\* makes the action worth MaxCost.
PadCost(s, a, v) ==
    IF \E o \in Trans[s[2]][a] : Target(s, o) \notin Cell \/ v[<<Target(s, o), o.th>>] = MaxCost
    THEN MaxCost
    ELSE ActionCost(s, a, v, map.free, map.pen)
PadLeast(s, v) == Least({MaxCost} \cup ({PadCost(s, a, v) : a \in Action} \cap Cost))

\* final_policy: the first action of least cost.
PadPolicy(s, v) ==
    IF ~Moves(s) \/ PadLeast(s, v) = MaxCost THEN None
    ELSE Least({a \in Action : PadCost(s, a, v) = PadLeast(s, v)})
PadPolicies(v) == [s \in State |-> PadPolicy(s, v)]

-----------------------------------------------------------------------------
Threads ==
    CASE alg = "multi" -> 0 .. ThreadNum - 1
      [] alg = "gpu"   -> 0 .. Resident - 1
      [] OTHER         -> 0 .. NThreads - 1

\* set_sweep_orders: the orders of the first four threads.  Order 4 is order 0
\* and the second half of order 1, order 5 the first half of order 1.
SweepOrder(n) ==
    LET o0 == AllStates
        o1 == [k \in DOMAIN o0 |-> <<<<(k - 1) \div (Height * NumTheta),
                                       ((k - 1) \div NumTheta) % Height>>, (k - 1) % NumTheta>>]
        half == Len(o0) \div 2
    IN  CASE n = 0 -> o0
          [] n = 1 -> o1
          [] n = 2 -> Reverse(o0)
          [] n = 3 -> Reverse(o1)
          [] n = 4 -> o0 \o SubSeq(o1, half + 1, Len(o1))
          [] n = 5 -> SubSeq(o1, 1, half)

\* vi_reset: whatever vi.states holds, a solve on the GPU starts from nothing.
Reset == [s \in State |-> IF s \in map.final THEN 0 ELSE MaxCost]

Repeat(seq, n) == FlattenSeq([i \in 1 .. n |-> seq])
Resting == [pc |-> "free", todo |-> <<>>, best |-> [cost |-> 0, action |-> None], buf |-> <<>>]

\* ordered_sweep: the states to process, stably sorted by the bucket of their
\* present cost; unreached ones go to the last bucket.
Bucket(v) ==
    IF v >= MaxCost THEN Buckets ELSE Min({v \div BucketWidth, Buckets})
Bucketed(items, v) ==
    SelectSeq([b \in 1 .. Buckets + 1 |-> SelectSeq(items, LAMBDA s : Bucket(v[s]) = b - 1)],
              LAMBDA bucket : bucket # <<>>)

Init ==
    /\ alg \in Algs
    /\ \E w \in Worlds :
          /\ w.fresh \/ Resweeps(alg)
          /\ world = [map |-> w.map, fresh |-> w.fresh, oracle |-> Original(w.map, w.start)]
          /\ val = w.start.val /\ act = w.start.act
    /\ hot = IF alg = "gpu" THEN Reset ELSE val
    /\ front = CASE alg \in {"reference", "stream"} -> State
                 [] alg = "gpu"                      -> map.final
                 [] OTHER                            -> Seed
    /\ work = IF alg = "ordered" THEN InOrder({s \in State : Moves(s)}) ELSE <<>>
    /\ visits = {} /\ moved = {} /\ iters = 0 /\ total = 0 /\ level = Least(Levels)
    /\ heap = IF alg \in Priority THEN [i \in DOMAIN InOrder(Seed) |->
                                          <<val[InOrder(Seed)[i]], InOrder(Seed)[i]>>]
              ELSE <<>>
    /\ settled = {}
    /\ dirty = IF alg = "ordered" THEN {s \in State : Moves(s)} ELSE {}
    /\ queue = <<>>
    /\ thr = [w \in Threads |->
                IF alg = "multi"
                THEN [Resting EXCEPT !.todo = Repeat(SweepOrder(w % 6), Times)]
                ELSE Resting]
    /\ phase = "round" /\ outcome = "running"

-----------------------------------------------------------------------------
(* Solvers that go in rounds and update vi.states in place.                *)

\* Rounds this level may take; a coarse level of the pyramid has a budget of
\* its own, whatever is left of max_iter.
Budget ==
    IF level < LastLevel THEN CoarseBudget
    ELSE Max({0, MaxIter - total})

StartRound ==
    /\ phase = "round" /\ alg \in InPlace /\ front # {} /\ iters < Budget
    /\ iters' = iters + 1
    /\ visits' = Candidates(front) /\ moved' = {}
    /\ phase' = "eval"
    /\ UNCHANGED <<alg, world, val, act, hot, front, total, level, work, heap, settled, threadVars,
                   outcome>>

\* Mutant: only a lower cost counts as a move.
EvaluateLower ==
    /\ phase = "eval" /\ alg \in InPlace /\ visits # {}
    /\ LET visit == Earliest(visits)
           s == visit[2]
           g == UpdateAt(map, [val |-> val, act |-> act], s)
       IN  /\ visits' = visits \ {visit}
           /\ val' = g.val /\ act' = g.act
           /\ moved' = IF g.val[s] < val[s] THEN moved \cup {s} ELSE moved
    /\ UNCHANGED <<alg, world, hot, phase, front, iters, total, level, work, heap, settled,
                   threadVars, outcome>>

\* value_iteration_raw of the next state; a move in either direction counts.
Evaluate ==
    /\ phase = "eval" /\ alg \in InPlace /\ visits # {}
    /\ LET visit == Earliest(visits)
           s == visit[2]
           g == UpdateAt(map, [val |-> val, act |-> act], s)
       IN  /\ visits' = visits \ {visit}
           /\ val' = g.val /\ act' = g.act
           /\ moved' = IF g.val[s] # val[s] THEN moved \cup {s} ELSE moved
    /\ UNCHANGED <<alg, world, hot, phase, front, iters, total, level, work, heap, settled,
                   threadVars, outcome>>

\* How a solve ends that the observer or the caller's bound ends.
Ending(flow) == IF flow = "Stop" THEN "stopped" ELSE "cancelled"

\* BoundaryPacer::due.
Due == iters % Interval = 0

\* The original solver only looks at states that are reached.
Progress == IF alg \in {"reference", "stream"} THEN {s \in moved : val[s] < ReachThresh} ELSE moved

\* After a round that moved something, the observer may look at vi.states and
\* end the solve.  The original solver checks max_iter before, the others after.
EndRound ==
    /\ phase = "eval" /\ alg \in InPlace /\ visits = {}
    /\ front' = Progress
    /\ LET boundary == /\ front' # {} /\ Due
                       /\ alg \in {"reference", "stream"} => iters < MaxIter
       IN  \E flow \in IF boundary THEN Flows ELSE {"Continue"} :
             IF flow = "Continue"
             THEN phase' = "round" /\ UNCHANGED outcome
             ELSE phase' = "done" /\ outcome' = Ending(flow)
    /\ UNCHANGED <<alg, world, val, act, hot, visits, moved, iters, total, level, work, heap,
                   settled, threadVars>>

\* The frontier is empty or the budget is used up.  The pyramid goes on with
\* the next level, which seeds its frontier anew, unless max_iter is reached.
EndLevel ==
    /\ phase = "round" /\ alg \in InPlace /\ (front = {} \/ iters >= Budget)
    /\ total' = total + iters
    /\ IF level < LastLevel /\ total' < MaxIter
       THEN /\ level' = Least({n \in Levels : n > level}) /\ iters' = 0 /\ front' = Seed
            /\ UNCHANGED <<phase, outcome>>
       ELSE /\ phase' = "done"
            /\ outcome' = IF front = {} THEN "converged" ELSE "exhausted"
            /\ UNCHANGED <<level, iters, front>>
    /\ UNCHANGED <<alg, world, val, act, hot, visits, moved, work, heap, settled, threadVars>>

-----------------------------------------------------------------------------
(* frontier2d_par: the threads of a round only read, and their results are *)
(* applied afterwards.                                                     *)

\* Mutant: the policy is not written back.
WriteBackCosts(v) == val' = v /\ UNCHANGED act

\* Padded::write_back.
WriteBack(v) == val' = v /\ act' = PadPolicies(v)

\* MaterializeProbe: the field is written back if the observer looks at it.
Materialize(v) == WriteBack(v) \/ UNCHANGED <<val, act>>

\* compute_round and the serial part after it.  A stopped solve writes its field
\* back, a cancelled one does not.
JacobiRound ==
    /\ phase = "round" /\ alg = "par" /\ front # {} /\ iters < MaxIter
    /\ iters' = iters + 1
    /\ LET cells == Dilate(CellsOf(front))
           moves == {s \in State : s[1] \in cells /\ Moves(s) /\ PadLeast(s, hot) # hot[s]}
           boundary == moves # {} /\ iters' % Interval = 0
       IN  /\ hot' = [s \in State |-> IF s \in moves THEN PadLeast(s, hot) ELSE hot[s]]
           /\ front' = moves
           /\ \E flow \in IF boundary THEN Flows ELSE {"Continue"} :
                /\ CASE flow = "Stop" -> WriteBack(hot')
                     [] flow # "Stop" /\ boundary -> Materialize(hot')
                     [] OTHER -> UNCHANGED <<val, act>>
                /\ IF flow = "Continue" THEN UNCHANGED <<phase, outcome>>
                   ELSE phase' = "done" /\ outcome' = Ending(flow)
    /\ UNCHANGED <<alg, world, visits, moved, total, level, work, heap, settled, threadVars>>

JacobiEnd ==
    /\ phase = "round" /\ alg = "par" /\ (front = {} \/ iters >= MaxIter)
    /\ WriteBack(hot)
    /\ phase' = "done"
    /\ outcome' = IF front = {} THEN "converged" ELSE "exhausted"
    /\ UNCHANGED <<alg, world, hot, roundVars, heap, settled, threadVars>>

-----------------------------------------------------------------------------
(* frontier_gpu: a round is a kernel that lists the cells around the ones  *)
(* that moved, then a kernel with a thread per candidate state, all of     *)
(* which read and write the same costs.                                    *)

gpuFixed == <<alg, world, val, act, total, level, work, heap, settled, queue, dirty, outcome>>

\* vi_dilate: cells that are occupied are left out.
GpuDilate ==
    /\ phase = "round" /\ alg = "gpu" /\ front # {} /\ iters < MaxIter
    /\ iters' = iters + 1
    /\ visits' = ByHeading({c \in Dilate(CellsOf(front)) : map.free[c]} \X Theta)
    /\ moved' = {} /\ phase' = "eval"
    /\ UNCHANGED <<gpuFixed, hot, front, thr>>

\* vi_update of one candidate: the costs around it are read ...
GpuRead(w) ==
    /\ phase = "eval" /\ alg = "gpu" /\ visits # {} /\ thr[w].todo = <<>>
    /\ LET visit == Earliest(visits)
           s == visit[2]
       IN  /\ visits' = visits \ {visit}
           /\ thr' = IF ~Moves(s) THEN thr
                     ELSE [thr EXCEPT ![w] = [@ EXCEPT !.pc = "write", !.todo = <<s>>,
                                       !.best = [cost |-> PadLeast(s, hot), action |-> None]]]
    /\ UNCHANGED <<gpuFixed, hot, phase, front, moved, iters>>

\* ... and later its own is written if that is a move.
GpuWrite(w) ==
    /\ alg = "gpu" /\ thr[w].pc = "write"
    /\ LET s == Head(thr[w].todo)
       IN  /\ hot' = [hot EXCEPT ![s] = thr[w].best.cost]
           /\ moved' = IF thr[w].best.cost # hot[s] THEN moved \cup {s} ELSE moved
    /\ thr' = [thr EXCEPT ![w].pc = "free", ![w].todo = <<>>]
    /\ UNCHANGED <<gpuFixed, phase, front, visits, iters>>

\* The host waits for the kernel and reads how many cells moved.
GpuRound ==
    /\ phase = "eval" /\ alg = "gpu" /\ visits = {} /\ \A w \in Threads : thr[w].todo = <<>>
    /\ front' = moved /\ phase' = "round"
    /\ UNCHANGED <<gpuFixed, hot, visits, moved, iters, thr>>

\* download: vi_policy and the costs, converged or not.
GpuEnd ==
    /\ phase = "round" /\ alg = "gpu" /\ (front = {} \/ iters >= MaxIter)
    /\ WriteBack(hot)
    /\ phase' = "done"
    /\ outcome' = IF front = {} THEN "converged" ELSE "exhausted"
    /\ UNCHANGED <<alg, world, hot, roundVars, heap, settled, threadVars>>

-----------------------------------------------------------------------------
(* The priority solvers: labels are popped in ascending order.             *)

\* build_rev_theta: the states an outcome of which is s, sorted by how far they
\* lie and then by heading.
Predecessors(s) ==
    SetToSortSeq({t \in State : \E a \in Action : \E o \in Trans[t[2]][a] :
                     Target(t, o) = s[1] /\ o.th = s[2]},
                 LAMBDA p, q : \/ p[1][1] > q[1][1]
                               \/ p[1][1] = q[1][1] /\ p[1][2] > q[1][2]
                               \/ p[1] = q[1] /\ p[2] < q[2])

Lower(p, q) == p[1] < q[1] \/ (p[1] = q[1] /\ IndexOf(p[2]) < IndexOf(q[2]))
LeastLabel == CHOOSE i \in DOMAIN heap : \A j \in DOMAIN heap : ~Lower(heap[j], heap[i])

\* A label is popped.  It is stale unless it is still the cost of its state;
\* prio_ls takes every state once.  total counts the pops.
Pop ==
    /\ phase = "round" /\ alg \in Priority /\ heap # <<>>
    /\ total' = total + 1
    /\ heap' = RemoveAt(heap, LeastLabel)
    /\ LET label == heap[LeastLabel]
           s == label[2]
           capped == total' > Width * Height * NumTheta * MaxIter
           stale == label[1] # val[s] \/ s \in settled
       IN  \E flow \in IF ~capped /\ total' % Stride = 0 THEN Flows ELSE {"Continue"} :
             IF capped
             THEN /\ phase' = "done" /\ outcome' = "exhausted"
                  /\ UNCHANGED <<settled, work>>
             ELSE IF flow # "Continue"
             THEN /\ phase' = "done" /\ outcome' = Ending(flow)
                  /\ UNCHANGED <<settled, work>>
             ELSE /\ settled' = IF alg = "prio_ls" /\ ~stale THEN settled \cup {s} ELSE settled
                  /\ work' = IF stale THEN <<>> ELSE Predecessors(s)
                  /\ phase' = IF stale THEN "round" ELSE "eval"
                  /\ UNCHANGED outcome
    /\ UNCHANGED <<alg, world, val, act, hot, front, visits, moved, iters, level, threadVars>>

\* relax_cell of the next predecessor: a lower cost is a new label.
RelaxPredecessor ==
    /\ phase = "eval" /\ alg \in Priority
    /\ IF work = <<>>
       THEN phase' = "round" /\ UNCHANGED <<val, act, heap, work>>
       ELSE LET s == Head(work)
                g == UpdateAt(map, [val |-> val, act |-> act], s)
                skip == s \in settled \/ ~Moves(s)
            IN  /\ IF skip THEN UNCHANGED <<val, act, heap>>
                   ELSE /\ val' = g.val /\ act' = g.act
                        /\ heap' = IF g.val[s] < val[s] THEN Append(heap, <<g.val[s], s>>) ELSE heap
                /\ work' = Tail(work)
                /\ UNCHANGED phase
    /\ UNCHANGED <<alg, world, hot, front, visits, moved, iters, total, level, settled, threadVars,
                   outcome>>

HeapEmpty ==
    /\ phase = "round" /\ alg \in Priority /\ heap = <<>>
    /\ phase' = "done" /\ outcome' = "converged"
    /\ UNCHANGED <<alg, world, val, act, hot, roundVars, heap, settled, threadVars>>

-----------------------------------------------------------------------------
(* run_value_iteration_multithread: every thread sweeps the whole map in   *)
(* its own order, and none waits for another.  The costs a thread reads,   *)
(* the cost it stores and the action it stores are apart in time.          *)

serialVars == <<alg, world, hot, roundVars, heap, settled, queue, dirty>>

RaceRead(w) ==
    /\ phase = "round" /\ alg = "multi" /\ thr[w].pc = "free" /\ thr[w].todo # <<>>
    /\ LET s == Head(thr[w].todo)
       IN  thr' = [thr EXCEPT ![w] =
                     IF Moves(s)
                     THEN [@ EXCEPT !.pc = "val", !.best = MinActionCost(s, val, map.free, map.pen)]
                     ELSE [@ EXCEPT !.todo = Tail(@)]]
    /\ UNCHANGED <<serialVars, val, act, phase, outcome>>

RaceWriteCost(w) ==
    /\ alg = "multi" /\ thr[w].pc = "val"
    /\ val' = [val EXCEPT ![Head(thr[w].todo)] = thr[w].best.cost]
    /\ thr' = [thr EXCEPT ![w].pc = "act"]
    /\ UNCHANGED <<serialVars, act, phase, outcome>>

RaceWriteAction(w) ==
    /\ alg = "multi" /\ thr[w].pc = "act"
    /\ act' = [act EXCEPT ![Head(thr[w].todo)] = thr[w].best.action]
    /\ thr' = [thr EXCEPT ![w].pc = "free", ![w].todo = Tail(@)]
    /\ UNCHANGED <<serialVars, val, phase, outcome>>

RaceJoin ==
    /\ phase = "round" /\ alg = "multi" /\ \A w \in Threads : thr[w].todo = <<>>
    /\ phase' = "done" /\ outcome' = "exhausted"
    /\ UNCHANGED <<serialVars, val, act, thr>>

-----------------------------------------------------------------------------
(* ordered_sweep: in a pass the states are processed bucket by bucket in   *)
(* ascending order of cost, by all threads within a bucket.  A flag says   *)
(* that a state is still to be processed, in this pass or in the next; it  *)
(* is lowered before the state is evaluated, so that a successor that      *)
(* moves meanwhile raises it again.  The flags are stored with relaxed     *)
(* ordering: the store waits in the thread's buffer while later loads of   *)
(* the same thread go ahead.  work holds the states of the next pass.      *)

orderedFixed == <<alg, world, front, visits, moved, total, level, heap, settled>>

OrderedPass ==
    /\ phase = "round" /\ alg = "ordered" /\ work # <<>> /\ iters < MaxIter
    /\ iters' = iters + 1
    /\ queue' = Bucketed(work, hot) /\ work' = <<>>
    /\ phase' = "eval"
    /\ UNCHANGED <<orderedFixed, val, act, hot, thr, dirty, outcome>>

OrderedClaim(w) ==
    /\ phase = "eval" /\ alg = "ordered" /\ queue # <<>> /\ Head(queue) # <<>>
    /\ thr[w].pc = "free" /\ thr[w].todo = <<>>
    /\ LET n == Min({Block, Len(Head(queue))})
       IN  /\ thr' = [thr EXCEPT ![w].todo = SubSeq(Head(queue), 1, n)]
           /\ queue' = [queue EXCEPT ![1] = SubSeq(@, n + 1, Len(@))]
    /\ UNCHANGED <<orderedFixed, val, act, hot, phase, work, iters, dirty, outcome>>

OrderedLower(w) ==
    /\ phase = "eval" /\ alg = "ordered" /\ thr[w].pc = "free" /\ thr[w].todo # <<>>
    /\ thr' = [thr EXCEPT ![w].pc = "read", ![w].buf = Append(@, Head(thr[w].todo))]
    /\ UNCHANGED <<orderedFixed, val, act, hot, phase, work, iters, queue, dirty, outcome>>

\* The oldest store of the buffer becomes visible.
OrderedDrain(w) ==
    /\ alg = "ordered" /\ thr[w].buf # <<>>
    /\ dirty' = dirty \ {Head(thr[w].buf)}
    /\ thr' = [thr EXCEPT ![w].buf = Tail(@)]
    /\ UNCHANGED <<orderedFixed, val, act, hot, phase, work, iters, queue, outcome>>

OrderedRead(w) ==
    /\ alg = "ordered" /\ thr[w].pc = "read"
    /\ thr' = [thr EXCEPT ![w].pc = "write",
                          ![w].best = [cost |-> PadLeast(Head(thr[w].todo), hot), action |-> None]]
    /\ UNCHANGED <<orderedFixed, val, act, hot, phase, work, iters, queue, dirty, outcome>>

\* Mutant: the old flag of a predecessor is not looked at.
OrderedWriteAgain(w) ==
    /\ alg = "ordered" /\ thr[w].pc = "write"
    /\ LET s == Head(thr[w].todo)
           raised == SelectSeq(Predecessors(s), Moves)
       IN  IF thr[w].best.cost # hot[s]
           THEN /\ thr[w].buf = <<>>
                /\ hot' = [hot EXCEPT ![s] = thr[w].best.cost]
                /\ dirty' = dirty \cup Range(raised)
                /\ work' = work \o raised
           ELSE UNCHANGED <<hot, dirty, work>>
    /\ thr' = [thr EXCEPT ![w].pc = "free", ![w].todo = Tail(@)]
    /\ UNCHANGED <<orderedFixed, val, act, phase, iters, queue, outcome>>

\* update_state has the least cost.  If that is a move, the predecessors whose
\* flag is down are flagged and are states of the next pass; the exchange of a
\* flag empties the buffer first.
OrderedWrite(w) ==
    /\ alg = "ordered" /\ thr[w].pc = "write"
    /\ LET s == Head(thr[w].todo)
           raised == SelectSeq(Predecessors(s), LAMBDA t : Moves(t) /\ t \notin dirty)
       IN  IF thr[w].best.cost # hot[s]
           THEN /\ thr[w].buf = <<>>
                /\ hot' = [hot EXCEPT ![s] = thr[w].best.cost]
                /\ dirty' = dirty \cup Range(raised)
                /\ work' = work \o raised
           ELSE UNCHANGED <<hot, dirty, work>>
    /\ thr' = [thr EXCEPT ![w].pc = "free", ![w].todo = Tail(@)]
    /\ UNCHANGED <<orderedFixed, val, act, phase, iters, queue, outcome>>

\* The barrier at the end of a bucket, and the join at the end of a pass.
OrderedBarrier ==
    /\ phase = "eval" /\ alg = "ordered"
    /\ \A w \in Threads : thr[w].todo = <<>> /\ thr[w].buf = <<>>
    /\ queue # <<>> => Head(queue) = <<>>
    /\ IF queue = <<>>
       THEN phase' = "round" /\ UNCHANGED queue
       ELSE queue' = Tail(queue) /\ UNCHANGED phase
    /\ UNCHANGED <<orderedFixed, val, act, hot, work, iters, thr, dirty, outcome>>

OrderedEnd ==
    /\ phase = "round" /\ alg = "ordered" /\ (work = <<>> \/ iters >= MaxIter)
    /\ WriteBack(hot)
    /\ phase' = "done"
    /\ outcome' = IF work = <<>> THEN "converged" ELSE "exhausted"
    /\ UNCHANGED <<alg, world, hot, roundVars, heap, settled, threadVars>>

-----------------------------------------------------------------------------
ThreadStep(w) ==
    \/ RaceRead(w) \/ RaceWriteCost(w) \/ RaceWriteAction(w)
    \/ OrderedClaim(w) \/ OrderedLower(w) \/ OrderedDrain(w) \/ OrderedRead(w)
    \/ OrderedWrite(w) \/ GpuRead(w) \/ GpuWrite(w)

SerialStep ==
    \/ StartRound \/ Evaluate \/ EndRound \/ EndLevel
    \/ JacobiRound \/ JacobiEnd \/ GpuDilate \/ GpuRound \/ GpuEnd
    \/ Pop \/ RelaxPredecessor \/ HeapEmpty
    \/ RaceJoin \/ OrderedPass \/ OrderedBarrier \/ OrderedEnd

Next == SerialStep \/ \E w \in Threads : ThreadStep(w)

Spec == Init /\ [][Next]_vars

-----------------------------------------------------------------------------
(* Properties.                                                             *)

\* The costs a solver works on: its padded copy, or vi.states itself.
Costs == IF alg \in {"par", "ordered", "gpu"} THEN hot ELSE val

\* SolverCaps::exact and solvers/mod.rs, "the converged costs of reachable cells
\* are bit-exact with Reference": whatever the schedule, from a fresh field and,
\* where SolverCaps::resweep says so, from a solved field whose costs have
\* changed since.  The ordered sweep is not one of them.  ordered.rs says that it
\* lands on the fixed point in whatever order, but with two threads it need not:
\* the flag a thread lowers is stored relaxed, and a neighbour that moves before
\* the store is visible does not queue the state again.
ConvergedIsOriginal ==
    (outcome = "converged" /\ Exact(alg)) =>
        LET oracle == world.oracle
        IN  \A s \in State :
                oracle.val[s] < ReachThresh =>
                    val[s] = oracle.val[s] /\ act[s] = oracle.act[s]

\* Partiality::UpperBound, "in an unfinished field every value is an upper bound":
\* from a fresh field no step of any solver, the racing threads of the original
\* included, takes a reachable state below its final cost.
UpperBound ==
    world.fresh =>
        LET oracle == world.oracle
        IN  \A s \in State : oracle.val[s] < ReachThresh => Costs[s] >= oracle.val[s]

\* "a greedy descent in a stopped field does not cycle": the stored action costs
\* no more than the stored value.
StoppedFieldDescends ==
    (world.fresh /\ outcome = "stopped") =>
        \A s \in State :
            (Moves(s) /\ val[s] < ReachThresh) =>
                /\ act[s] # None
                /\ ActionCost(s, act[s], val, map.free, map.pen) <= val[s]

\* ordered.rs, "one writer per state, neighbours read relaxed": the threads share
\* out the states of a pass, and the flags let no state into the next one twice,
\* although each is lowered with a store that others see late.
SingleWriter ==
    alg = "ordered" =>
        /\ \A w, u \in Threads : w # u => Range(thr[w].todo) \cap Range(thr[u].todo) = {}
        /\ \A i, j \in DOMAIN work : work[i] = work[j] => i = j

\* The solvers implement Relaxation.  Where racing threads store what may be out
\* of date (multi, ordered) the mapping shows an array that never changes, so
\* that nothing is said of their field; they and prio_ls promise no fixpoint.
Values == IF alg = "multi" THEN hot ELSE IF alg = "ordered" THEN world.oracle.val ELSE Costs
Result == CASE outcome = "running"                   -> "running"
            [] outcome = "converged" /\ Exact(alg) -> "converged"
            [] OTHER                                 -> "ended"
Abstract == INSTANCE Relaxation WITH map <- map, val <- Values, result <- Result
ImplementsRelaxation == Abstract!Spec
=============================================================================
