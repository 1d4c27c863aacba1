--------------------------- MODULE CompactSolver ---------------------------
(***************************************************************************)
(* The solver that works out of core                                       *)
(* (vi_lib/src/solvers/frontier2d_sparse_compact.rs).  Costs are settled   *)
(* in ascending order: a wave lets the columns below a threshold converge, *)
(* the columns well below it are final and go to the sink, and a block of  *)
(* rows whose neighbourhood is final is freed.  A column is a cell with    *)
(* all of its headings.                                                    *)
(*                                                                         *)
(* A world has the occupied cells (occ), the radius and the penalty of the *)
(* safety margin, a goal, the local penalties (local) and max_iter (limit).*)
(***************************************************************************)
EXTENDS GridMap

CONSTANTS
    Worlds,          \* what a solve is started on
    Entries,         \* "slice" (vi.states) or "mapped" (no states at all)
    BandOverride,    \* band_override, or None
    CoupleSafety,    \* COUPLE_SAFETY
    BlockRows,       \* BLOCK_ROWS
    NThreads,        \* nthreads
    MinCols,         \* MIN_COLS_PER_THREAD
    Flows,           \* what the observer may answer at a boundary
    ReachThresh,     \* REACH_THRESH
    MayCancel        \* TRUE: the flag cancel may be raised (mapped only)

ASSUME CompactAssumption ==
    /\ Entries \subseteq {"slice", "mapped"}
    /\ BandOverride \in Nat \cup {None} /\ CoupleSafety \in Nat /\ BlockRows \in Nat \ {0}
    /\ NThreads \in Nat \ {0} /\ MinCols \in Nat \ {0}
    /\ Flows \subseteq {"Continue", "Stop", "Cancel"} /\ "Continue" \in Flows
    /\ MayCancel \in BOOLEAN
    /\ \A w \in Worlds : w.penalty \in Nat /\ w.local \in [Cell -> Nat]

VARIABLES
    entry, world,    \* the entry, and the source with what the original makes of it
    cp,              \* the costs in the blocks, MaxCost for UNREACHED
    block,           \* per block: "none", "resident" or "evicted"
    fin,             \* the evaluated states that are final (n_final counts them)
    colMin, colMax,  \* the least and the largest cost reached in a column
    colFinal, live,  \* columns that are final; columns reached and not final
    front,           \* frontier, in the order of Place
    mask,            \* the states that moved in the last round of this wave
    first,           \* first: the first round of a wave
    t,               \* the threshold of this wave
    iters,           \* rounds so far
    thr,             \* per worker: the states it still has to evaluate
    seen, moved,     \* columns looked at and states that moved in this round
    phase,           \* "round", "relax", "finalize", "end" (of max_iter) or "done"
    sink,            \* the output: val and act, MaxCost and None where not written
    out,             \* vi.states of the slice entry: val and act
    cancel,          \* the flag cancel
    outcome          \* "running" or how the solve ended

inputs == <<entry, world>>
columns == <<colMin, colMax, colFinal, live>>
roundVars == <<front, mask, first, iters, thr, seen, moved>>
vars == <<inputs, cp, block, fin, columns, roundVars, t, phase, sink, out, cancel, outcome>>

map == world.map

-----------------------------------------------------------------------------
\* What StateSource answers.  vi.states has local penalties, which set_goal
\* clears and a scan adds, and all of the map was searched for final states.
Map(w) == FromOccupancy(w.occ, w.margin, w.penalty)
SliceSource(w) ==
    LET m == Map(w)
    IN  [free |-> m.free, pen |-> [c \in Cell |-> m.pen[c] + w.local[c]],
         final |-> SetStateValues(m.free, w.goal)]
MapSource(w) ==
    LET m == Map(w)
    IN  [free |-> m.free, pen |-> m.pen, final |-> ComputeFinals(m.free, w.goal)]

MaxPen == Max({map.pen[c] : c \in Cell})

\* couple_margin.
CoupleMargin == CoupleSafety * Max({Reach, 1}) * Max({MaxPen, 1})
Band == IF BandOverride = None THEN CoupleMargin ELSE BandOverride

EvalOk(s) == Evaluated(map, s)

\* Rows are padded by Reach on either side before they are cut into blocks.
BlockOfRow(row) == row \div BlockRows
NumBlocks == BlockOfRow(Height + 2 * Reach - 1) + 1
BlockOf(c) == BlockOfRow(c[2] + Reach)
\* Mutant: rounded down.
HaloBlocksDown == Reach \div BlockRows
HaloBlocks == (Reach + BlockRows - 1) \div BlockRows
Around(b) == {k \in 0 .. NumBlocks - 1 : k - b \in -HaloBlocks .. HaloBlocks}

\* The blocks that the window of a column touches (ensure_window).
Window(c) == BlockOfRow(c[2]) .. Min({BlockOfRow(c[2] + 2 * Reach), NumBlocks - 1})

\* ensure_block of every window; one that is evicted stays so.
Ensure(blk, S) ==
    [b \in DOMAIN blk |->
        IF blk[b] = "none" /\ \E c \in S : b \in Window(c) THEN "resident" ELSE blk[b]]

\* block_full: as many final states as there are free ones that are no seed.
BlockFull(f, b) ==
    Cardinality({s \in f : BlockOf(s[1]) = b})
        = Cardinality({s \in State : EvalOk(s) /\ BlockOf(s[1]) = b})

\* action_cost_fused.
FusedCost(s, a) ==
    IF \E o \in Trans[s[2]][a] : Target(s, o) \notin Cell \/ cp[<<Target(s, o), o.th>>] = MaxCost
    THEN MaxCost
    ELSE ActionCost(s, a, cp, map.free, map.pen)
FusedLeast(s) == Least({MaxCost} \cup ({FusedCost(s, a) : a \in Action} \cap Cost))
FusedPolicy(s) ==
    IF FusedLeast(s) = MaxCost THEN None
    ELSE Least({a \in Action : FusedCost(s, a) = FusedLeast(s)})

\* The least and the largest cost reached in a column, MaxCost if there is none.
ReachedIn(c) == {cp[<<c, th>>] : th \in Theta} \ {MaxCost}
LowIn(c) == IF ReachedIn(c) = {} THEN MaxCost ELSE Min(ReachedIn(c))
HighIn(c) == IF ReachedIn(c) = {} THEN MaxCost ELSE Max(ReachedIn(c))

Unwritten == [val |-> [s \in State |-> MaxCost], act |-> [s \in State |-> None]]

\* solve_compact_core up to its loop.
Init ==
    /\ entry \in Entries
    /\ \E w \in Worlds :
         LET src == IF entry = "slice" THEN SliceSource(w) ELSE MapSource(w)
             dense == SliceSource(IF entry = "slice" THEN w ELSE [w EXCEPT !.local = [c \in Cell |-> 0]])
             blank(m) == [val |-> [s \in State |-> IF s \in m.final THEN 0 ELSE MaxCost],
                          act |-> [s \in State |-> None]]
         IN  /\ world = [map |-> src, limit |-> w.limit, oracle |-> Original(dense, blank(dense))]
             /\ cp = blank(src).val /\ out = blank(src)
    /\ LET goal == {s[1] : s \in map.final}
       IN  /\ colMin = [c \in Cell |-> IF c \in goal THEN 0 ELSE MaxCost]
           /\ colMax = colMin /\ live = goal
           /\ front = Dilate(goal)
    /\ colFinal = {} /\ fin = {}
    /\ block = [b \in 0 .. NumBlocks - 1 |-> "none"]
    /\ mask = {} /\ first = TRUE /\ t = Band /\ iters = 0
    /\ thr = [w \in 1 .. NThreads |-> {}] /\ seen = {} /\ moved = {}
    /\ phase = "round" /\ sink = Unwritten
    /\ cancel = FALSE /\ outcome = "running"

-----------------------------------------------------------------------------
(* converge_band_async: the rounds of a wave.                              *)

\* The headings of a column that may have changed inputs: the ones within reach
\* of a heading that moved in the window, or all of them in the first round.
EvalMask(c) ==
    LET near == {s[2] : s \in {m \in mask : m[1] \in Near(c)}}
    IN  IF first THEN Theta
        ELSE {th \in Theta : \E h \in near : Circ(th, h) <= ThetaReach}

\* Columns are enumerated row by row, their headings in order.
Place(c) == c[2] * Width + c[1]
Earliest(states) ==
    LET Key(s) == Place(s[1]) * NumTheta + s[2]
    IN  CHOOSE s \in states : \A r \in states : Key(s) <= Key(r)

\* How the columns are cut into chunks, one per worker.
Eff == Min({NThreads, Max({Cardinality(front) \div MinCols, 1})})
Chunk == Max({(Cardinality(front) + Eff - 1) \div Eff, 1})
Part(w) ==
    {c \in front : Cardinality({d \in front : Place(d) < Place(c)}) \div Chunk = w - 1}

\* The windows are made resident and the workers start.
BeginRound ==
    /\ phase = "round" /\ ~cancel
    /\ block' = Ensure(block, front)
    /\ seen' = {c \in front \ colFinal : EvalMask(c) # {}}
    /\ thr' = [w \in 1 .. NThreads |->
                 {s \in State : /\ s[1] \in Part(w) \ colFinal
                                /\ s[2] \in EvalMask(s[1]) /\ EvalOk(s)}]
    /\ moved' = {} /\ phase' = "relax"
    /\ UNCHANGED <<inputs, cp, fin, columns, front, mask, first, iters, t, sink, out, cancel,
                   outcome>>

\* relax_column_async_masked, one heading: only a lower cost is written.
Relax(w) ==
    /\ phase = "relax" /\ thr[w] # {}
    /\ LET s == Earliest(thr[w])
           lower == FusedLeast(s) < cp[s]
       IN  /\ cp' = IF lower THEN [cp EXCEPT ![s] = FusedLeast(s)] ELSE cp
           /\ moved' = IF lower THEN moved \cup {s} ELSE moved
           /\ thr' = [thr EXCEPT ![w] = @ \ {s}]
    /\ UNCHANGED <<inputs, block, fin, columns, front, mask, first, iters, seen, t, phase, sink,
                   out, cancel, outcome>>

\* The serial part of a round.  Only moves of columns that reach below the
\* threshold go on; without one the wave has converged.
Apply ==
    /\ phase = "relax" /\ \A w \in DOMAIN thr : thr[w] = {}
    /\ LET inBand == {s \in moved : LowIn(s[1]) < t}
       IN  /\ colMin' = [c \in Cell |-> IF c \in seen THEN LowIn(c) ELSE colMin[c]]
           /\ colMax' = [c \in Cell |-> IF c \in seen THEN HighIn(c) ELSE colMax[c]]
           /\ live' = live \cup {c \in seen : LowIn(c) # MaxCost}
           /\ IF iters + 1 < world.limit /\ inBand # {}
              THEN /\ mask' = inBand
                   /\ front' = Dilate({s[1] : s \in inBand}) \ colFinal
              ELSE mask' = {} /\ UNCHANGED front
           /\ phase' = IF iters + 1 >= world.limit THEN "end"
                       ELSE IF inBand = {} THEN "finalize" ELSE "round"
    /\ iters' = iters + 1 /\ first' = FALSE
    /\ UNCHANGED <<inputs, cp, block, fin, colFinal, thr, seen, moved, t, sink, out, cancel,
                   outcome>>

-----------------------------------------------------------------------------
(* The end of a wave.                                                      *)

\* Mutant: whatever is below the threshold is final.
WatermarkFlush == t

\* Columns whose costs all lie a band below the threshold.
Watermark == Max({0, t - Band})
Settled == {c \in live : colMax[c] <= Watermark}

\* finalize_column: costs and actions of what is reached in the columns S.
Written(S) ==
    [val |-> [s \in State |-> IF s[1] \in S THEN cp[s] ELSE sink.val[s]],
     act |-> [s \in State |-> IF s[1] \in S
                              THEN (IF EvalOk(s) /\ cp[s] # MaxCost THEN FusedPolicy(s) ELSE None)
                              ELSE sink.act[s]]]

\* Blocks next to one with a settled column whose neighbours are all full.
Evictable(blk, f, S) ==
    {b \in DOMAIN blk : /\ \E c \in S : b \in Around(BlockOf(c))
                        /\ blk[b] = "resident"
                        /\ \A k \in Around(b) : BlockFull(f, k)}

\* Mutant: the columns themselves only.
ReactivatedOnly(S) == S \ colFinal'

\* The columns a wave begins with: all around the ones below its threshold.
Reactivated(S) == Dilate(S) \ colFinal'

\* write_back_sink, slice entry only.
WriteBack(s) == IF entry = "slice" THEN out' = s ELSE UNCHANGED out

\* The wave's settled columns are written, blocks are freed, and the solve ends,
\* is stopped by the observer, or goes on with the next wave.
Finalize ==
    /\ phase = "finalize"
    /\ LET settled == Settled
           f == fin \cup {s \in State : s[1] \in settled /\ EvalOk(s) /\ cp[s] # MaxCost}
           blk == Ensure(block, settled)
       IN  /\ sink' = Written(settled)
           /\ fin' = f
           /\ colFinal' = colFinal \cup settled
           /\ live' = live \ settled
           /\ block' = [b \in DOMAIN blk |->
                          IF b \in Evictable(blk, f, settled) THEN "evicted" ELSE blk[b]]
    /\ \E flow \in IF live' = {} THEN {"Converged"} ELSE Flows :
         \/ /\ flow = "Converged"
            /\ phase' = "done" /\ outcome' = "converged" /\ WriteBack(sink')
            /\ UNCHANGED <<t, first, front>>
         \/ /\ flow = "Continue"
            /\ t' = t + Band /\ first' = TRUE /\ phase' = "round"
            /\ front' = Reactivated({c \in live' : colMin[c] < t'})
            /\ UNCHANGED <<out, outcome>>
         \/ /\ flow = "Stop"
            /\ phase' = "done" /\ outcome' = "stopped" /\ WriteBack(sink')
            /\ UNCHANGED <<t, first, front>>
         \/ /\ flow = "Cancel"
            /\ phase' = "done" /\ outcome' = "cancelled"
            /\ UNCHANGED <<t, first, front, out>>
    /\ UNCHANGED <<inputs, cp, colMin, colMax, mask, iters, thr, seen, moved, cancel>>

\* A wave that is cut short ends the solve: max_iter or the flag cancel.
GiveUp ==
    /\ phase = "end" \/ (phase = "round" /\ cancel)
    /\ phase' = "done"
    /\ outcome' = IF cancel THEN "cancelled" ELSE "exhausted"
    /\ WriteBack(sink)
    /\ UNCHANGED <<inputs, cp, block, fin, columns, roundVars, t, sink, cancel>>

\* Another thread raises the flag.
RaiseCancel ==
    /\ MayCancel /\ entry = "mapped" /\ phase # "done" /\ ~cancel
    /\ cancel' = TRUE
    /\ UNCHANGED <<inputs, cp, block, fin, columns, roundVars, t, phase, sink, out, outcome>>

Next ==
    \/ BeginRound \/ (\E w \in 1 .. NThreads : Relax(w)) \/ Apply
    \/ Finalize \/ GiveUp \/ RaiseCancel

Spec == Init /\ [][Next]_vars

-----------------------------------------------------------------------------
(* Properties.                                                             *)

\* What is in the sink is what the original solver converges to, cost and action,
\* at every moment: the claim Partiality::ExactPrefix of a solve that is stopped.
ExactPrefix ==
    \A s \in State : sink.val[s] < MaxCost =>
        /\ sink.val[s] = world.oracle.val[s]
        /\ sink.act[s] = world.oracle.act[s]

\* A solve that reports convergence has written every state the original
\* reaches; without a next wave, nothing that was put off is lost.
ConvergedIsComplete ==
    outcome = "converged" =>
        \A s \in State : world.oracle.val[s] < ReachThresh => sink.val[s] < MaxCost

\* No block is read that has been freed (get: "read from evicted block"; the
\* threads would follow a null pointer): a worker reads the costs of every column
\* it looks at, occupied ones included, which never become final, and all of the
\* window of a state it evaluates; finalization reads the windows of live columns.
WindowsResident ==
    /\ phase = "relax" =>
          /\ \A c \in seen : block[BlockOf(c)] = "resident"
          /\ \A w \in DOMAIN thr : \A s \in thr[w] :
                \A b \in Window(s[1]) : block[b] = "resident"
    /\ phase # "done" => \A c \in live : \A b \in Window(c) : block[b] # "evicted"
=============================================================================
