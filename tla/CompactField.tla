---------------------------- MODULE CompactField ----------------------------
(***************************************************************************)
(* The shared value field on the out-of-core path                          *)
(* (vi_planner/src/core/compact.rs and the compact branches of core/mod.rs *)
(* and core/global).  The field is a sink that holds values and actions    *)
(* only.  What the follow thread works on is a dense patch, a copy of the  *)
(* sink around the robot; what it observed is kept in an overlay of        *)
(* penalties; and the global worker wakes the map tile by tile.            *)
(*                                                                         *)
(* Every action is one critical section of the core mutex.  A worker       *)
(* computes on its own snapshot without the mutex, so its pass is          *)
(* evaluated where the result is committed.  Global sweeping is on; the    *)
(* order in which queued tiles are taken and in which a tile is swept is   *)
(* left open (first in first out, and by the parity of visits, in the      *)
(* code).  An origin or a tile may stick out of the map: nothing there is  *)
(* free.                                                                   *)
(***************************************************************************)
EXTENDS Original, FiniteSets

CONSTANTS
    Goal, Solved, Early,   \* goals; converged and early fields of each
    MapFree, MapPen,       \* the static map (from_occupancy)
    WinRange, Slack,          \* local_ixy_range, patch_slack_cells
    Interior,              \* repair_interior_cells
    Robot,                 \* cells the robot is seen in
    Pens,                  \* local penalties a scan can leave on a cell
    Margin, Sigma, SigmaPen,   \* the static band, its widening, its penalty
    MapClear, Jacobi,      \* as in module PlannerCore
    Follower, MaxEpoch, MaxSerial, MaxRevision, RecheckLimit

\* new_patch: room for the window, the reach of a transition, and moving.
Half == 2 * WinRange + Reach + Slack
\* new_repair: the frozen border of a tile, and its side.
Halo == IF Reach < 1 THEN 1 ELSE Reach
Side == IF Interior < Halo THEN Halo ELSE Interior

ASSUME CompactAssumption ==
    /\ Robot \subseteq Cell /\ WinRange \in Nat /\ Slack \in Nat /\ Interior \in Nat
    /\ WinRange + Reach < Half          \* otherwise new_patch fails
    /\ MaxEpoch \in Nat /\ MaxSerial \in Nat /\ MaxRevision \in Nat /\ RecheckLimit \in Nat

VARIABLES
    goal, partial, sink, overlay,      \* cached field; PenaltyOverlay
    patch,                             \* Patch, None before it is hydrated
    dist,                              \* its obstacle_dist, None when empty
    window,                            \* the local window, when there is a patch
    queue, dirty,                      \* Repair
    epoch, serial, owner, owned, deferred, certified,       \* Manager
    inFlight, localInFlight, localRev, boundRev, inval,     \* Manager
    gjob, ljob, claim

fieldVars == <<goal, partial, sink, overlay>>
patchVars == <<patch, dist, window>>
ownVars == <<owner, owned, deferred, certified>>
vars == <<fieldVars, patchVars, ownVars, queue, dirty, epoch, serial, inFlight,
          localInFlight, localRev, boundRev, inval, gjob, ljob, claim>>

-----------------------------------------------------------------------------
(* Geometry.                                                               *)

Within(c, p, k) == c[1] - p[1] \in 0 .. k /\ c[2] - p[2] \in 0 .. k
Footprint(p0) == {c \in Cell : Within(c, p0, 2 * Half)}
Window(g) == {c \in Cell : Within(c, <<g[1] - WinRange, g[2] - WinRange>>, 2 * WinRange)}

\* Mutant: only the window itself must lie in the patch.
NeedsRecenterClose(g) ==
    \/ patch = None
    \/ \E i \in 1 .. 2 : \/ g[i] - WinRange < patch.at[i]
                         \/ g[i] - patch.at[i] + WinRange > 2 * Half

\* needs_recenter: the window and all it can reach must lie in the patch.
NeedsRecenter(g) ==
    \/ patch = None
    \/ \E i \in 1 .. 2 : \/ g[i] - (WinRange + Reach) < patch.at[i]
                         \/ g[i] - patch.at[i] + (WinRange + Reach) > 2 * Half

\* Tiles by their column and row, and what is in one.
TileNum(n) == (n + Side - 1) \div Side
Tile == (0 .. TileNum(Width) - 1) \X (0 .. TileNum(Height) - 1)
InteriorOf(t) == {c \in Cell : Within(c, <<t[1] * Side, t[2] * Side>>, Side - 1)}
TileCells(t) ==
    {c \in Cell : Within(c, <<t[1] * Side - Halo, t[2] * Side - Halo>>, Side + 2 * Halo - 1)}

\* Mutant: only the tile of the cell itself.
AroundOnly(c) == {t \in Tile : c \in InteriorOf(t)}

\* enqueue_around, for one cell: every tile within the halo of it.
Around(c) == {t \in Tile : \E d \in InteriorOf(t) : Within(d, <<c[1] - Halo, c[2] - Halo>>, 2 * Halo)}
Enqueue(cells) == UNION {Around(c) : c \in cells}

-----------------------------------------------------------------------------
(* Waking a part of the map.                                               *)

\* hydrate_states: the cells of a region with the inputs of the static map and
\* the overlay.  Outside of it nothing is known and nothing is free.
HydrateStates(p0, cells) ==
    [at   |-> p0,
     val  |-> [s \in State |-> IF s[1] \in cells THEN sink.val[s] ELSE MaxCost],
     act  |-> [s \in State |-> IF s[1] \in cells THEN sink.act[s] ELSE None],
     free |-> [c \in Cell |-> c \in cells /\ MapFree[c]],
     pen  |-> [c \in Cell |-> IF c \in cells THEN MapPen[c] ELSE 1],
     lp   |-> [c \in Cell |-> IF c \in cells THEN overlay[c] ELSE 0]]

Hydrate(p0) == HydrateStates(p0, Footprint(p0))

Recentred(g) ==
    IF NeedsRecenter(g) THEN Hydrate(<<g[1] - Half, g[2] - Half>>) ELSE patch

\* A woken region with other values and actions, and one with other inputs.
WithField(v, f) ==
    [at |-> v.at, val |-> f.val, act |-> f.act, free |-> v.free, pen |-> v.pen, lp |-> v.lp]
WithInputs(v, free, pen, lp) ==
    [at |-> v.at, val |-> v.val, act |-> v.act, free |-> free, pen |-> pen, lp |-> lp]

\* Goals are the states of value 0.
FinalOf(v) == {s \in State : v.val[s] = 0}

\* What the Bellman update of a woken region depends on.
Inputs(v) ==
    [free |-> v.free, pen |-> [c \in Cell |-> v.pen[c] + v.lp[c]], final |-> FinalOf(v)]

\* repair_values
Repaired(v) ==
    [val |-> [s \in State |->
                 IF PolicyInvalidated(v.val[s], v.act[s], v.free[s[1]], s \in FinalOf(v))
                 THEN MaxCost ELSE v.val[s]],
     act |-> v.act]

\* The live patch's inputs, in the interior and in the halo.
WithLivePatch(cells, v) ==
    IF patch = None THEN v
    ELSE LET live == cells \cap Footprint(patch.at)
             Take(mine, theirs) ==
                 [c \in Cell |-> IF c \in live THEN theirs[c] ELSE mine[c]]
         IN  WithInputs(v, Take(v.free, patch.free), Take(v.pen, patch.pen),
                        Take(v.lp, patch.lp))

-----------------------------------------------------------------------------
GlobalQueued == inval # {} \/ queue # {}

Settled ==
    /\ ~GlobalQueued
    /\ inFlight = 0 /\ localInFlight = 0
    /\ owned = {} \/ certified
    /\ deferred = {}

SettleGlobal ==
    /\ dirty' = ~Settled'
    /\ partial' = (partial /\ ~Settled')

IsDirty ==
    \/ dirty
    \/ inFlight # 0 \/ localInFlight # 0
    \/ owned # {} /\ ~certified
    \/ deferred # {}

NoField == [val |-> [s \in State |-> MaxCost], act |-> [s \in State |-> None]]
NoPenalty == [c \in Cell |-> 0]

Init ==
    /\ goal = None /\ partial = FALSE /\ sink = NoField /\ overlay = NoPenalty
    /\ patch = None /\ dist = None /\ window = {}
    /\ queue = {} /\ dirty = FALSE
    /\ epoch = 0 /\ serial = 0 /\ owner = 0
    /\ owned = {} /\ deferred = {} /\ certified = FALSE
    /\ inFlight = 0 /\ localInFlight = 0 /\ localRev = 0 /\ boundRev = 0
    /\ inval = {} /\ gjob = None /\ ljob = None
    /\ claim = [f \in Follower |-> 0]

InvalidateGlobalJobs ==
    /\ epoch < MaxEpoch /\ epoch' = epoch + 1
    /\ inFlight' = 0 /\ localInFlight' = 0
    /\ owned' = {} /\ deferred' = {} /\ certified' = FALSE
    /\ inval' = {}
    /\ patch' = None /\ window' = {}
    /\ UNCHANGED <<serial, owner, localRev, boundRev, gjob, ljob, claim, dist>>

\* solve_compact: a converged sink, one stopped while columns are missing, or
\* an error.
SolveCompact(g) ==
    {[goal |-> g, sink |-> Solved[g], partial |-> FALSE],
     [goal |-> None, sink |-> NoField, partial |-> FALSE]}
    \cup {[goal |-> g, sink |-> f, partial |-> TRUE] : f \in Early[g]}

\* prepare_goal_with_progress on a cache miss: the patch and the penalties of
\* the old goal go; an unfinished field queues the whole map.
PrepareGoal(g) ==
    /\ goal # g
    /\ InvalidateGlobalJobs
    /\ overlay' = NoPenalty
    /\ \E r \in SolveCompact(g) :
          /\ goal' = r.goal /\ sink' = r.sink /\ partial' = r.partial
          /\ queue' = (IF r.partial THEN Tile ELSE {})
          /\ dirty' = r.partial

\* discard_partial leaves the overlay to the next goal.
DiscardPartial ==
    /\ partial
    /\ InvalidateGlobalJobs
    /\ goal' = None /\ sink' = NoField /\ partial' = FALSE
    /\ queue' = {} /\ dirty' = FALSE
    /\ UNCHANGED overlay

-----------------------------------------------------------------------------
(* Ownership, and the ticks of a follow thread.                            *)

\* update_local_ownership as in module PlannerCore, with bumps more revisions
\* and more cells to queue.
UpdateLocalOwnership(own, p, w, cert, bumps, more) ==
    LET new == IF own # 0 /\ p # None THEN w ELSE {}
        released == (IF new # owned /\ ~cert THEN owned \ new ELSE {}) \cup (deferred \ new)
    IN  /\ owned' = new
        /\ deferred' = deferred \cap new
        /\ certified' = (cert /\ new = owned)
        /\ localRev' = localRev + bumps + (IF new # owned THEN 1 ELSE 0)
        /\ queue' = queue \cup Enqueue(released \cup more)
        /\ dirty' = (dirty \/ released \cup more # {})

ClaimLocal(f) ==
    /\ claim[f] = 0 /\ localRev < MaxRevision
    /\ serial < MaxSerial /\ serial' = serial + 1
    /\ claim' = [claim EXCEPT ![f] = serial + 1]
    /\ owner' = serial + 1
    /\ localInFlight' = 0
    /\ UpdateLocalOwnership(serial + 1, patch, window, FALSE, 0, {})
    /\ UNCHANGED <<fieldVars, patchVars, epoch, inFlight, boundRev, inval, gjob, ljob>>

ReleaseLocal(f) ==
    /\ claim[f] # 0
    /\ claim' = [claim EXCEPT ![f] = 0]
    /\ \/ /\ owner = claim[f]
          /\ owner' = 0 /\ localInFlight' = 0
          /\ UpdateLocalOwnership(0, patch, window, certified, 0, {})
       \/ /\ owner # claim[f]
          /\ UNCHANGED <<ownVars, localInFlight, localRev, queue, dirty>>
    /\ UNCHANGED <<fieldVars, patchVars, epoch, serial, inFlight, boundRev, inval, gjob, ljob>>

\* harvest_penalties: what was observed outlives the patch it was observed in.
HarvestPenalties(w, p) == [c \in Cell |-> IF c \in w THEN p.lp[c] ELSE overlay[c]]

\* One tick: the patch follows the robot at g, and its inputs inside the window
\* become those of p.  invalidate_local_window and invalidate_local_inputs each
\* make a new revision; what became more expensive starts a new epoch.
Tick(g, p) ==
    LET w == Window(g)
        old == Recentred(g)
        moved == NeedsRecenter(g)
        fresh == p # old
        Dearer(c) == old.free[c] /\ (~p.free[c] \/ p.pen[c] + p.lp[c] > old.pen[c] + old.lp[c])
        increased == {c \in w : Dearer(c)}
    IN  /\ goal # None /\ \E f \in Follower : claim[f] # 0
        /\ localRev < MaxRevision
        /\ patch' = p /\ window' = w
        /\ UpdateLocalOwnership(owner, p, w, certified /\ ~moved /\ ~fresh,
               (IF moved THEN 1 ELSE 0) + (IF fresh THEN 1 ELSE 0), IF fresh THEN w ELSE {})
        /\ inval' = inval \cup (increased \X Theta)
        /\ \/ increased = {} /\ UNCHANGED <<epoch, boundRev>>
           \/ /\ increased # {}
              /\ epoch < MaxEpoch /\ epoch' = epoch + 1
              /\ boundRev' = boundRev + 1
        /\ UNCHANGED <<goal, partial, sink, owner, serial, inFlight, localInFlight, gjob, ljob, claim>>

SetWindow(g) ==
    /\ Tick(g, Recentred(g))
    /\ UNCHANGED <<overlay, dist>>

\* observe_scan_gated: hits set and beams halve the penalties in the window; a
\* beam can also open a cell, which then costs what open ground costs.
ObserveScan(g) ==
    LET w == Window(g)
        old == Recentred(g)
    IN  \E lp \in [w -> Pens], open \in (IF MapClear THEN SUBSET w ELSE {{}}) :
          LET p == WithInputs(old, [c \in Cell |-> old.free[c] \/ c \in open],
                              [c \in Cell |-> IF c \in open THEN 1 ELSE old.pen[c]],
                              [c \in Cell |-> IF c \in w THEN lp[c] ELSE old.lp[c]])
          IN  /\ Tick(g, p)
              /\ overlay' = HarvestPenalties(w, p)
              /\ UNCHANGED dist

\* dist_linf: how far the nearest obstacle of a patch is from each of its cells,
\* off the map included; Width + Height when there is none.
Offset == (0 .. 2 * Half) \X (0 .. 2 * Half)
DistLinf(p) ==
    LET At(o) == <<p.at[1] + o[1], p.at[2] + o[2]>>
        wall == {o \in Offset : At(o) \notin Cell \/ ~p.free[At(o)]}
        Apart(o, q) == Max({Max({o[i] - q[i], q[i] - o[i]}) : i \in 1 .. 2})
    IN  [o \in Offset |-> Min({Width + Height} \cup {Apart(o, q) : q \in wall})]

\* inflate_by_sigma: a band of penalties outside the static margin.  The
\* distances are computed once and stay when the patch moves.
InflateBySigma(g) ==
    LET w == Window(g)
        old == Recentred(g)
        d == IF dist = None THEN DistLinf(old) ELSE dist
        From(c) == d[<<c[1] - old.at[1], c[2] - old.at[2]>>]
        band == {c \in w : From(c) \in Margin + 1 .. Margin + Sigma}
        p == WithInputs(old, old.free, old.pen,
                        [c \in Cell |-> IF c \in band /\ old.lp[c] < SigmaPen
                                        THEN SigmaPen ELSE old.lp[c]])
    IN  /\ Sigma > 0
        /\ Tick(g, p)
        /\ overlay' = HarvestPenalties(w, p)
        /\ dist' = d

-----------------------------------------------------------------------------
(* Removing obsolete policies.                                             *)

\* invalidate_policy_state: unlike the dense field, the sink does not say which
\* cells are free.
Dependents(s) ==
    {p \in State : /\ sink.val[p] # 0 /\ sink.act[p] # None
                   /\ \E o \in Trans[p[2]][sink.act[p]] : <<Target(p, o), o.th>> = s}

\* In the sink and in the patch, halo included.
DiscardPolicies(hit) ==
    LET Cleared(f) ==
            [val |-> f.val, act |-> [s \in State |-> IF s \in hit THEN None ELSE f.act[s]]]
    IN  /\ sink' = Cleared(sink)
        /\ patch' = IF patch = None THEN None ELSE WithField(patch, Cleared(patch))

AdvanceInvalidations(s) ==
    /\ s \in inval
    /\ gjob = None \/ ljob = None
    /\ LET hit == IF goal = None THEN {} ELSE Dependents(s)
       IN  /\ DiscardPolicies(hit)
           /\ inval' = (inval \ {s}) \cup hit
           /\ queue' = queue \cup Enqueue({p[1] : p \in hit})
           /\ dirty' = (dirty \/ hit # {})
    /\ UNCHANGED <<goal, partial, overlay, dist, window, ownVars, epoch, serial, inFlight,
                   localInFlight, localRev, boundRev, gjob, ljob, claim>>

-----------------------------------------------------------------------------
(* The global worker.                                                      *)

\* restart_global_check and prepare_global_job: one tile, woken with its halo.
PrepareGlobalJob ==
    /\ gjob = None /\ goal # None /\ inval = {} /\ inFlight = 0
    /\ serial < MaxSerial
    /\ queue # {} \/ serial < RecheckLimit
    /\ LET waiting == IF queue = {} THEN Tile ELSE queue
       IN  \E t \in waiting :
             LET at == <<t[1] * Side - Halo, t[2] * Side - Halo>>
                 v == WithLivePatch(TileCells(t), HydrateStates(at, TileCells(t)))
             IN  /\ queue' = waiting \ {t}
                 /\ deferred' = IF certified THEN deferred
                                ELSE deferred \cup (InteriorOf(t) \cap owned)
                 /\ gjob' = [id |-> serial + 1, epoch |-> epoch,
                             cells |-> InteriorOf(t) \ owned, v |-> v]
    /\ serial' = serial + 1 /\ inFlight' = serial + 1
    /\ dirty' = TRUE
    /\ UNCHANGED <<fieldVars, patchVars, owner, owned, certified, epoch, localInFlight,
                   localRev, boundRev, inval, ljob, claim>>

StatesOf(cells) == SelectSeq(AllStates, LAMBDA s : s[1] \in cells)

\* The cells in one of the four directions, the headings of a cell in order.
Directed(cells, rx, ry) ==
    LET Key(s) == ((IF ry THEN -s[1][2] ELSE s[1][2]) * Width
                   + (IF rx THEN -s[1][1] ELSE s[1][1])) * NumTheta + s[2]
    IN  SortSeq(StatesOf(cells), LAMBDA s, t : Key(s) < Key(t))

\* GlobalJob::run: a pass, and one the other way if the first moved a value.
RunGlobal(job, rx, ry) ==
    LET m == Inputs(job.v)
        start == Repaired(job.v)
        once == SweepOver(m, start, Directed(job.cells, rx, ry))
    IN  IF once.val = start.val THEN once
        ELSE SweepOver(m, once, Directed(job.cells, ~rx, ~ry))

GlobalJobCurrent == gjob.epoch = epoch /\ inFlight = gjob.id

Differs(f, h, c) ==
    \E th \in Theta : f.val[<<c, th>>] # h.val[<<c, th>>] \/ f.act[<<c, th>>] # h.act[<<c, th>>]
Write(f, h, cells) ==
    [val |-> [s \in State |-> IF s[1] \in cells THEN h.val[s] ELSE f.val[s]],
     act |-> [s \in State |-> IF s[1] \in cells THEN h.act[s] ELSE f.act[s]]]

\* Mutant: only what lies outside the window is read again.
RefreshLocalBoundaryOutside ==
    patch' = IF patch = None THEN None
             ELSE WithField(patch, Write(patch, sink', Footprint(patch.at) \ window))

\* refresh_local_boundary: all of the patch that the local worker does not own.
RefreshLocalBoundary ==
    patch' = IF patch = None THEN None
             ELSE WithField(patch, Write(patch, sink', Footprint(patch.at) \ owned))

CommitGlobalJob ==
    /\ gjob # None /\ GlobalJobCurrent
    /\ LET mine == gjob.cells \ owned
           retry == {c \in mine : Differs(sink, gjob.v, c)}
       IN  \E rx, ry \in BOOLEAN :
             LET done == RunGlobal(gjob, rx, ry)
                 changed == {c \in mine \ retry : Differs(sink, done, c)}
             IN  /\ sink' = Write(sink, done, changed)
                 /\ queue' = queue \cup Enqueue(changed \cup retry)
                 /\ \/ changed = {} /\ UNCHANGED <<boundRev, patch>>
                    \/ changed # {} /\ boundRev' = boundRev + 1 /\ RefreshLocalBoundary
                 /\ certified' = (certified /\ changed = {})
    /\ deferred' = IF certified THEN deferred ELSE deferred \cup (gjob.cells \cap owned)
    /\ inFlight' = 0
    /\ gjob' = None
    /\ UNCHANGED <<goal, overlay, dist, window, owner, owned, epoch, serial,
                   localInFlight, localRev, inval, ljob, claim>>
    /\ SettleGlobal

RejectGlobalJob ==
    /\ gjob # None /\ ~GlobalJobCurrent
    /\ \/ /\ inFlight = gjob.id
          /\ inFlight' = 0
          /\ queue' = queue \cup Enqueue(gjob.cells)
          /\ dirty' = (dirty \/ gjob.cells # {})
       \/ /\ inFlight # gjob.id
          /\ UNCHANGED <<inFlight, queue, dirty>>
    /\ gjob' = None
    /\ UNCHANGED <<fieldVars, patchVars, ownVars, epoch, serial, localInFlight, localRev,
                   boundRev, inval, ljob, claim>>

-----------------------------------------------------------------------------
(* The local worker.                                                       *)

PrepareLocalJob ==
    /\ ljob = None /\ inval = {} /\ patch # None
    /\ owner # 0 /\ localInFlight = 0 /\ owned # {}
    /\ serial < MaxSerial
    /\ serial' = serial + 1 /\ localInFlight' = serial + 1
    /\ ljob' = [id |-> serial + 1, epoch |-> epoch, owner |-> owner, rev |-> localRev,
                brev |-> boundRev, cells |-> window \cap owned, v |-> patch]
    /\ UNCHANGED <<fieldVars, patchVars, ownVars, queue, dirty, epoch, inFlight, localRev,
                   boundRev, inval, gjob, claim>>

\* LocalJob::run_parallel: with helpers every state reads the snapshot, alone
\* the pass reads its own results, column by column.
RunLocal(job) ==
    LET m == Inputs(job.v)
        start == Repaired(job.v)
        Order == SortSeq(StatesOf(job.cells), LAMBDA s, t :
                     s[1][1] < t[1][1] \/ (s[1][1] = t[1][1] /\ s[1][2] < t[1][2])
                                       \/ (s[1] = t[1] /\ s[2] < t[2]))
        Own(s) == s[1] \in job.cells /\ Evaluated(m, s)
        New(s) == MinActionCost(s, start.val, m.free, m.pen)
    IN  IF Jacobi
        THEN [val |-> [s \in State |-> IF Own(s) THEN New(s).cost ELSE start.val[s]],
              act |-> [s \in State |-> IF Own(s) THEN New(s).action ELSE start.act[s]]]
        ELSE SweepOver(m, start, Order)

LocalJobCurrent ==
    /\ ljob.epoch = epoch /\ owner = ljob.owner /\ localInFlight = ljob.id
    /\ ljob.rev = localRev
    /\ patch # None                     \* local_mut

\* Publish to the patch, write the window back to the sink (commit_window), and
\* certify if neither the pass nor the boundary moved.
CommitLocalJob ==
    /\ ljob # None /\ LocalJobCurrent
    /\ LET done == RunLocal(ljob)
           now == Write(patch, done, ljob.cells)
           changed == {c \in window : Differs(sink, now, c)}
       IN  /\ patch' = WithField(patch, now)
           /\ sink' = Write(sink, now, changed)
           /\ queue' = queue \cup Enqueue(changed)
           /\ certified' = (done.val = Repaired(ljob.v).val /\ ljob.brev = boundRev)
    /\ deferred' = IF certified' THEN {} ELSE deferred
    /\ localInFlight' = 0
    /\ ljob' = None
    /\ UNCHANGED <<goal, overlay, dist, window, owner, owned, epoch, serial, inFlight,
                   localRev, boundRev, inval, gjob, claim>>
    /\ SettleGlobal

RejectLocalJob ==
    /\ ljob # None /\ ~LocalJobCurrent
    /\ localInFlight' = IF localInFlight = ljob.id THEN 0 ELSE localInFlight
    /\ ljob' = None
    /\ UNCHANGED <<fieldVars, patchVars, ownVars, queue, dirty, epoch, serial, inFlight,
                   localRev, boundRev, inval, gjob, claim>>

Next ==
    \/ \E g \in Goal : PrepareGoal(g)
    \/ DiscardPartial
    \/ \E f \in Follower : ClaimLocal(f) \/ ReleaseLocal(f)
    \/ \E c \in Robot : SetWindow(c) \/ ObserveScan(c) \/ InflateBySigma(c)
    \/ \E s \in State : AdvanceInvalidations(s)
    \/ PrepareGlobalJob \/ CommitGlobalJob \/ RejectGlobalJob
    \/ PrepareLocalJob \/ CommitLocalJob \/ RejectLocalJob

Spec == Init /\ [][Next]_vars

-----------------------------------------------------------------------------
(* Properties.                                                             *)

\* The inputs in force: those of the patch where there is one, elsewhere the
\* static map and what the overlay remembers.
Live == WithLivePatch(Cell, HydrateStates(<<0, 0>>, Cell))

\* compact.rs, "the sink becomes the shared field": the patch the robot follows
\* and the sink that plans and tiles are read from never disagree, whoever
\* wrote last, wherever the patch and the window have moved since.
PatchIsSink ==
    patch # None =>
        \A s \in State : s[1] \in Footprint(patch.at) =>
            patch.val[s] = sink.val[s] /\ patch.act[s] = sink.act[s]

\* needs_recenter: wherever the robot went, and whichever patch it found there,
\* the window and all it can reach lie in the patch.  What a pass over the
\* window reads was woken from the sink, and what commit_window writes back was
\* read from it.
WindowFits ==
    patch # None =>
        /\ patch.at \in Int \X Int
        /\ \A c \in window : Near(c) \subseteq Footprint(patch.at)

\* Repair, "when the queue is empty the field is the fixed point of a dense
\* sweep": no tile is missed, although penalties leave the patch, tiles overlap
\* and the patch is woken again and again.
SettledIsFixpoint ==
    (goal # None /\ ~IsDirty) =>
        \A s \in State : Evaluated(Inputs(Live), s) =>
            MinActionCost(s, Repaired(Live).val, Live.free, Inputs(Live).pen)
                = [cost |-> sink.val[s], action |-> sink.act[s]]
=============================================================================
