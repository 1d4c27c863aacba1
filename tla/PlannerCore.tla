----------------------------- MODULE PlannerCore -----------------------------
(***************************************************************************)
(* The shared value field of the planner (vi_planner/src/core) on its      *)
(* dense path, with the two background workers that keep repairing it      *)
(* (node/sweep.rs) and the follow threads that disturb it.                 *)
(*                                                                         *)
(* Every action is one critical section of the core mutex, except RunGlobal*)
(* and RunLocal, in which a worker updates one state of its own snapshot   *)
(* without holding the mutex.  The order in which a batch is taken from    *)
(* the candidates, in which a job visits its states and in which discarded *)
(* policies are propagated is left open; the code fixes one.               *)
(*                                                                         *)
(* The counters epoch, serial, local_revision and boundary_revision are    *)
(* u64 in the code; the bounds Max* only keep TLC's state space finite.    *)
(***************************************************************************)
EXTENDS Bellman, FiniteSets

CONSTANTS
    Goal,                  \* goals a client may ask for
    Final,                 \* Final[g]: the goal region, a set of states
    MapFree, MapPen,       \* the static map: free cells and their penalties
    Pens,                  \* penalties a scan or the margin can leave on a cell
    Solved,                \* Solved[g]: what solve_dense returns on convergence
    Early,                 \* Early[g]: fields it may return when stopped early
    Windows, InitWindow,   \* local windows; the one of a fresh field
    Follower,              \* follow threads
    GlobalSweep, MapClear, \* parameters global_sweep, map_clear_from_scan
    Jacobi,                \* the local worker runs on several threads
    MaxEpoch, MaxSerial, MaxRevision,
    Budgets,               \* batch sizes in cells: max_states / cell_num_t
    RecheckLimit           \* no idle recheck of the map after this serial

Field == [val : [State -> Cost], act : [State -> Action \cup {None}]]

ASSUME CoreAssumption ==
    /\ Final \in [Goal -> SUBSET State]
    /\ MapFree \in [Cell -> BOOLEAN]
    /\ Pens \subseteq Nat /\ MapPen \in [Cell -> Nat]
    /\ Solved \in [Goal -> Field]
    /\ Early \in [Goal -> SUBSET Field]
    /\ Windows \subseteq SUBSET Cell /\ InitWindow \subseteq Cell
    /\ GlobalSweep \in BOOLEAN /\ MapClear \in BOOLEAN /\ Jacobi \in BOOLEAN
    /\ MaxEpoch \in Nat /\ MaxSerial \in Nat /\ MaxRevision \in Nat
    /\ Budgets \subseteq Nat \ {0} /\ RecheckLimit \in Nat
    /\ None \notin Goal

VARIABLES
    goal, partial,       \* cached: its goal (None: nothing loaded), its mark
    val, act,            \* total_cost, optimal_action
    free, pen,           \* free, penalty + local_penalty (uniform in theta)
    window,              \* cells of the local window
    epoch, serial, owner, owned, deferred, certified,     \* Manager
    inFlight, localInFlight, localRev, boundRev, inval,   \* Manager
    pending, cands,      \* DenseSweep: next round's seed, this round's rest
    dirty,
    gjob, ljob,          \* the snapshot each worker has checked out
    gpass, lpass,        \* its working copy: states left to visit, values, actions
    claim                \* the owner number each follow thread holds (0: none)

fieldVars == <<goal, val, act>>
inputVars == <<free, pen, window>>
ownVars == <<owner, owned, deferred, certified>>
jobVars == <<gjob, ljob, gpass, lpass>>
vars == <<fieldVars, inputVars, ownVars, jobVars, partial, epoch, serial, inFlight,
          localInFlight, localRev, boundRev, inval, pending, cands, dirty, claim>>

-----------------------------------------------------------------------------
(* Reading the field.                                                      *)

\* repair_values: a value whose policy was discarded is never calculated with.
Repaired ==
    [s \in State |->
        IF PolicyInvalidated(val[s], act[s], free[s[1]], s \in Final[goal])
        THEN MaxCost ELSE val[s]]

\* value_iteration_at leaves occupied and terminal states alone.
Updatable(s, f, final) == f[s[1]] /\ s \notin final

GlobalQueued == inval # {} \/ cands # {} \/ pending # {}

Settled ==
    /\ ~GlobalQueued
    /\ inFlight = 0 /\ localInFlight = 0
    /\ owned = {} \/ certified
    /\ deferred = {}

\* settle_global: the last call of both commits.
SettleGlobal ==
    /\ dirty' = ~Settled'
    /\ partial' = (partial /\ ~Settled')

IsDirty ==
    \/ dirty
    \/ inFlight # 0 \/ localInFlight # 0
    \/ owned # {} /\ ~certified
    \/ deferred # {}

Init ==
    /\ goal = None /\ partial = FALSE
    /\ val = [s \in State |-> MaxCost] /\ act = [s \in State |-> None]
    /\ free = MapFree /\ pen = MapPen /\ window = InitWindow
    /\ epoch = 0 /\ serial = 0 /\ owner = 0
    /\ owned = {} /\ deferred = {} /\ certified = FALSE
    /\ inFlight = 0 /\ localInFlight = 0 /\ localRev = 0 /\ boundRev = 0
    /\ inval = {} /\ pending = {} /\ cands = {} /\ dirty = FALSE
    /\ gjob = None /\ ljob = None /\ gpass = None /\ lpass = None
    /\ claim = [f \in Follower |-> 0]

-----------------------------------------------------------------------------
(* Loading and dropping a field.                                           *)

\* invalidate_global_jobs; the caller says what becomes of dirty and pending.
InvalidateGlobalJobs ==
    /\ epoch < MaxEpoch /\ epoch' = epoch + 1
    /\ inFlight' = 0 /\ localInFlight' = 0
    /\ owned' = {} /\ deferred' = {} /\ certified' = FALSE
    /\ inval' = {} /\ cands' = {}
    /\ UNCHANGED <<serial, owner, localRev, boundRev, jobVars, claim>>

Load(g, field, isPartial) ==
    /\ goal' = g /\ partial' = isPartial
    /\ val' = field.val /\ act' = field.act
    /\ free' = MapFree /\ pen' = MapPen /\ window' = InitWindow
    /\ pending' = (IF isPartial THEN Cell ELSE {})
    /\ dirty' = isPartial

\* The field is gone: nothing reads it until the next one is loaded.
Unload ==
    /\ goal' = None /\ partial' = FALSE
    /\ val' = [s \in State |-> MaxCost] /\ act' = [s \in State |-> None]
    /\ free' = MapFree /\ pen' = MapPen /\ window' = InitWindow
    /\ pending' = {} /\ dirty' = FALSE

\* prepare_goal_with_progress on a cache miss: solved, stopped early because
\* the robot can already leave, or failed.  A cache hit changes nothing here.
PrepareGoal(g) ==
    /\ goal # g
    /\ InvalidateGlobalJobs
    /\ \/ Load(g, Solved[g], FALSE)
       \/ \E field \in Early[g] : Load(g, field, TRUE)
       \/ Unload

\* prepare_reloc_goal solves again even for the goal it has, and never early.
PrepareRelocGoal(g) ==
    /\ InvalidateGlobalJobs
    /\ Load(g, Solved[g], FALSE) \/ Unload

DiscardPartial ==
    /\ partial
    /\ InvalidateGlobalJobs
    /\ Unload

-----------------------------------------------------------------------------
(* Ownership of the local window, and the ticks of a follow thread.        *)

\* Mutant: deferred cells that leave the region stay deferred.
UpdateLocalOwnershipKeeps(own, w, cert, fresh) ==
    LET new == IF own # 0 /\ goal # None THEN w ELSE {}
        released == IF new # owned /\ ~cert THEN owned \ new ELSE {}
        queued == released \cup (IF fresh THEN w ELSE {})
    IN  /\ owned' = new
        /\ deferred' = deferred
        /\ certified' = (cert /\ new = owned /\ ~fresh)
        /\ localRev' = localRev + (IF new # owned THEN 1 ELSE 0)
                                + (IF fresh THEN 1 ELSE 0)
        /\ pending' = pending \cup queued
        /\ dirty' = (dirty \/ queued # {})

\* Mutant: what leaves the region without a certificate is forgotten.
UpdateLocalOwnershipForgets(own, w, cert, fresh) ==
    LET new == IF own # 0 /\ goal # None THEN w ELSE {}
        queued == IF fresh THEN w ELSE {}
    IN  /\ owned' = new
        /\ deferred' = deferred \cap new
        /\ certified' = (cert /\ new = owned /\ ~fresh)
        /\ localRev' = localRev + (IF new # owned THEN 1 ELSE 0)
                                + (IF fresh THEN 1 ELSE 0)
        /\ pending' = pending \cup queued
        /\ dirty' = (dirty \/ queued # {})

\* update_local_ownership for the owner, window and certificate given: cells
\* that leave the region without a certificate go back to the global queue.
\* fresh says that the inputs inside the window changed as well
\* (invalidate_local_inputs): that spoils the certificate and every pass on
\* the old inputs, and queues the window.
UpdateLocalOwnership(own, w, cert, fresh) ==
    LET new == IF own # 0 /\ goal # None THEN w ELSE {}
        released == (IF new # owned /\ ~cert THEN owned \ new ELSE {})
                    \cup (deferred \ new)
        queued == released \cup (IF fresh THEN w ELSE {})
    IN  /\ owned' = new
        /\ deferred' = deferred \cap new
        /\ certified' = (cert /\ new = owned /\ ~fresh)
        /\ localRev' = localRev + (IF new # owned THEN 1 ELSE 0)
                                + (IF fresh THEN 1 ELSE 0)
        /\ pending' = pending \cup queued
        /\ dirty' = (dirty \/ queued # {})

\* LocalRegion::claim, the latest claim wins.
ClaimLocal(f) ==
    /\ claim[f] = 0
    /\ serial < MaxSerial /\ serial' = serial + 1
    /\ claim' = [claim EXCEPT ![f] = serial + 1]
    /\ owner' = serial + 1
    /\ localInFlight' = 0
    /\ UpdateLocalOwnership(serial + 1, window, FALSE, FALSE)
    /\ UNCHANGED <<fieldVars, inputVars, jobVars, partial, epoch, inFlight,
                   boundRev, inval, cands>>

\* A superseded thread lets go of a number that no longer owns anything.
ReleaseLocal(f) ==
    /\ claim[f] # 0
    /\ claim' = [claim EXCEPT ![f] = 0]
    /\ \/ /\ owner = claim[f]
          /\ owner' = 0 /\ localInFlight' = 0
          /\ UpdateLocalOwnership(0, window, certified, FALSE)
       \/ /\ owner # claim[f]
          /\ UNCHANGED <<ownVars, localInFlight, localRev, pending, dirty>>
    /\ UNCHANGED <<fieldVars, inputVars, jobVars, partial, epoch, serial,
                   inFlight, boundRev, inval, cands>>

\* Mutant: outstanding snapshots are left valid.
QueueCostIncreasesSameEpoch(cells) ==
    IF cells = {} \/ ~GlobalSweep
    THEN UNCHANGED <<inval, epoch, boundRev>>
    ELSE /\ inval' = inval \cup (cells \X Theta)
         /\ UNCHANGED epoch
         /\ boundRev' = boundRev + 1

\* queue_cost_increases: the closure of old policies is still to be removed,
\* and every snapshot taken so far is of an older epoch.
QueueCostIncreases(cells) ==
    IF cells = {} \/ ~GlobalSweep
    THEN UNCHANGED <<inval, epoch, boundRev>>
    ELSE /\ inval' = inval \cup (cells \X Theta)
         /\ epoch < MaxEpoch /\ epoch' = epoch + 1
         /\ boundRev' = boundRev + 1

\* One tick of a thread that follows or settles, superseded or not: the window
\* moves to w, and then its inputs become f and p.  All of it, and the queueing
\* of what became more expensive, is one critical section; further scans of
\* the same tick are further ticks at the same w.
Tick(w, f, p) ==
    /\ goal # None /\ \E i \in Follower : claim[i] # 0
    /\ localRev < MaxRevision
    /\ window' = w /\ free' = f /\ pen' = p
    /\ UpdateLocalOwnership(owner, w, certified, <<f, p>> # <<free, pen>>)
    /\ QueueCostIncreases({c \in w : free[c] /\ (~f[c] \/ p[c] > pen[c])})
    /\ UNCHANGED <<fieldVars, owner, jobVars, partial, serial, inFlight,
                   localInFlight, cands, claim>>

\* set_window alone: no scan has come in.
SetWindow(w) == Tick(w, free, pen)

\* observe_scan_gated: hits raise and beams lower penalties inside the window;
\* with map_clear_from_scan a beam also opens cells the map calls occupied.
ObserveScan(w) ==
    \E p \in [w -> Pens], open \in (IF MapClear THEN SUBSET w ELSE {{}}) :
        Tick(w, [c \in Cell |-> free[c] \/ c \in open],
                [c \in Cell |-> IF c \in w THEN p[c] ELSE pen[c]])

\* inflate_by_sigma only ever raises penalties.
InflateBySigma(w) ==
    \E band \in SUBSET w, p \in Pens :
        Tick(w, free, [c \in Cell |-> IF c \in band /\ pen[c] < p THEN p ELSE pen[c]])

-----------------------------------------------------------------------------
(* Removing obsolete policies.                                             *)

Successors(s) ==
    {<<Target(s, o), o.th>> : o \in Trans[s[2]][act[s]]}

\* States whose stored action may lead to s.
Dependents(s) ==
    {p \in State : /\ Updatable(p, free, Final[goal])
                   /\ act[p] # None /\ s \in Successors(p)}

\* advance_invalidations, one entry of the queue: whichever worker comes for
\* a job does this first and gets none while entries are left.
AdvanceInvalidations(s) ==
    /\ s \in inval
    /\ gjob = None \/ ljob = None
    /\ LET hit == IF goal = None THEN {} ELSE Dependents(s)
       IN  /\ act' = [p \in State |-> IF p \in hit THEN None ELSE act[p]]
           /\ inval' = (inval \ {s}) \cup hit
           /\ pending' = pending \cup {p[1] : p \in hit}
           /\ dirty' = (dirty \/ hit # {})
    /\ UNCHANGED <<goal, val, inputVars, ownVars, jobVars, partial, epoch, serial,
                   inFlight, localInFlight, localRev, boundRev, cands, claim>>

-----------------------------------------------------------------------------
(* The global worker.                                                      *)

\* Candidates are taken row by row; a batch is the first n of them.
Before(c, d) == c[2] < d[2] \/ (c[2] = d[2] /\ c[1] < d[1])
Batch(cells, n) == {c \in cells : Cardinality({d \in cells : Before(d, c)}) < n}

\* restart_global_check and prepare_global_job in one critical section: an
\* exhausted queue starts over with the whole map, a new round dilates its
\* seed by the transition reach, and owned cells are left to the local worker.
PrepareGlobalJob ==
    /\ GlobalSweep
    /\ gjob = None /\ goal # None /\ inval = {} /\ inFlight = 0
    /\ serial < MaxSerial
    /\ GlobalQueued \/ serial < RecheckLimit
    /\ LET seed == IF GlobalQueued THEN pending ELSE Cell
           round == IF cands = {} THEN Dilate(seed) ELSE cands
       IN  \E batch \in {Batch(round, n) : n \in Budgets} :
             /\ pending' = (IF cands = {} THEN {} ELSE seed)
             /\ cands' = round \ batch
             /\ deferred' = IF certified THEN deferred
                            ELSE deferred \cup (batch \cap owned)
             /\ gjob' = [id |-> serial + 1, epoch |-> epoch,
                         cells |-> batch \ owned, val |-> val, act |-> act,
                         free |-> free, pen |-> pen, final |-> Final[goal]]
             /\ gpass' = [todo |-> {s \in State : s[1] \in batch \ owned},
                          val |-> Repaired, act |-> act]
    /\ serial' = serial + 1 /\ inFlight' = serial + 1
    /\ dirty' = TRUE
    /\ UNCHANGED <<fieldVars, inputVars, owner, owned, certified, ljob, lpass, partial,
                   epoch, localInFlight, localRev, boundRev, inval, claim>>

\* One update of the working copy, reading the values from.
Visit(pass, s, from, job) ==
    LET b == MinActionCost(s, from, job.free, job.pen)
        updated == Updatable(s, job.free, job.final)
    IN  [todo |-> pass.todo \ {s},
         val  |-> [pass.val EXCEPT ![s] = IF updated THEN b.cost ELSE @],
         act  |-> [pass.act EXCEPT ![s] = IF updated THEN b.action ELSE @]]

\* GlobalJob::run; each state reads what the pass has left so far.
RunGlobal(s) ==
    /\ gjob # None
    /\ s \in gpass.todo
    /\ gpass' = Visit(gpass, s, gpass.val, gjob)
    /\ UNCHANGED <<fieldVars, inputVars, ownVars, gjob, ljob, lpass, partial, epoch,
                   serial, inFlight, localInFlight, localRev, boundRev, inval,
                   pending, cands, dirty, claim>>

GlobalJobCurrent == gjob.epoch = epoch /\ inFlight = gjob.id

\* The column of c is still what the snapshot saw.
Unchanged(c) ==
    /\ free[c] = gjob.free[c] /\ pen[c] = gjob.pen[c]
    /\ \A th \in Theta :
          val[<<c, th>>] = gjob.val[<<c, th>>] /\ act[<<c, th>>] = gjob.act[<<c, th>>]

Moved(c, pass) ==
    \E th \in Theta :
        val[<<c, th>>] # pass.val[<<c, th>>] \/ act[<<c, th>>] # pass.act[<<c, th>>]

Publish(cells, pass) ==
    /\ val' = [s \in State |-> IF s[1] \in cells THEN pass.val[s] ELSE val[s]]
    /\ act' = [s \in State |-> IF s[1] \in cells THEN pass.act[s] ELSE act[s]]

CommitGlobalJob ==
    /\ gjob # None
    /\ gpass.todo = {} /\ GlobalJobCurrent
    /\ LET fresh == {c \in gjob.cells \ owned : Unchanged(c)}
           retry == (gjob.cells \ owned) \ fresh
           changed == {c \in fresh : Moved(c, gpass)}
       IN  /\ Publish(fresh, gpass)
           /\ pending' = pending \cup changed \cup retry
           /\ boundRev' = IF changed # {} THEN boundRev + 1 ELSE boundRev
           /\ certified' = (certified /\ changed = {})
           /\ deferred' = IF certified THEN deferred
                          ELSE deferred \cup (gjob.cells \cap owned)
    /\ inFlight' = 0
    /\ gjob' = None /\ gpass' = None
    /\ UNCHANGED <<goal, inputVars, owner, owned, ljob, lpass, epoch, serial,
                   localInFlight, localRev, inval, cands, claim>>
    /\ SettleGlobal

\* A job of an older epoch publishes nothing; if it is still the outstanding
\* one, its cells go back to the queue.
RejectGlobalJob ==
    /\ gjob # None
    /\ gpass.todo = {} /\ ~GlobalJobCurrent
    /\ \/ /\ inFlight = gjob.id
          /\ inFlight' = 0
          /\ pending' = pending \cup gjob.cells
          /\ dirty' = (dirty \/ gjob.cells # {})
       \/ /\ inFlight # gjob.id
          /\ UNCHANGED <<inFlight, pending, dirty>>
    /\ gjob' = None /\ gpass' = None
    /\ UNCHANGED <<fieldVars, inputVars, ownVars, ljob, lpass, partial, epoch,
                   serial, localInFlight, localRev, boundRev, inval, cands, claim>>

-----------------------------------------------------------------------------
(* The local worker.                                                       *)

PrepareLocalJob ==
    /\ ljob = None /\ inval = {} /\ goal # None
    /\ owner # 0 /\ localInFlight = 0 /\ owned # {}
    /\ serial < MaxSerial
    /\ serial' = serial + 1 /\ localInFlight' = serial + 1
    /\ ljob' = [id |-> serial + 1, epoch |-> epoch, owner |-> owner,
                rev |-> localRev, brev |-> boundRev,
                cells |-> window \cap owned, val |-> Repaired,
                free |-> free, pen |-> pen, final |-> Final[goal]]
    /\ lpass' = [todo |-> {s \in State : s[1] \in window \cap owned},
                 val |-> Repaired, act |-> act]
    /\ UNCHANGED <<fieldVars, inputVars, ownVars, gjob, gpass, partial, epoch,
                   inFlight, localRev, boundRev, inval, pending, cands, dirty, claim>>

\* run_parallel: with helpers all read the snapshot, alone the pass its own.
RunLocal(s) ==
    /\ ljob # None
    /\ s \in lpass.todo
    /\ lpass' = Visit(lpass, s, IF Jacobi THEN ljob.val ELSE lpass.val, ljob)
    /\ UNCHANGED <<fieldVars, inputVars, ownVars, gjob, ljob, gpass, partial, epoch,
                   serial, inFlight, localInFlight, localRev, boundRev, inval,
                   pending, cands, dirty, claim>>

LocalJobCurrent ==
    ljob.epoch = epoch /\ owner = ljob.owner /\ localInFlight = ljob.id

\* Every state is visited once, so the pass moved a value iff the sum of the
\* differences (delta) is not zero.
LocalDelta == lpass.val # ljob.val

\* Mutant: the boundary is not looked at.
CertifiesLocalAnyway == ~LocalDelta

\* A pass that moved nothing certifies, unless a global commit moved the
\* boundary it read.
CertifiesLocal == ~LocalDelta /\ ljob.brev = boundRev

\* Publish, and certify the window if neither it nor its boundary moved.
CommitLocalJob ==
    /\ ljob # None
    /\ lpass.todo = {} /\ LocalJobCurrent /\ ljob.rev = localRev
    /\ Publish(ljob.cells, lpass)
    /\ pending' = pending \cup {c \in ljob.cells : Moved(c, lpass)}
    /\ certified' = CertifiesLocal
    /\ deferred' = IF certified' THEN {} ELSE deferred
    /\ localInFlight' = 0
    /\ ljob' = None /\ lpass' = None
    /\ UNCHANGED <<goal, inputVars, owner, owned, gjob, gpass, epoch, serial, inFlight,
                   localRev, boundRev, inval, cands, claim>>
    /\ SettleGlobal

RejectLocalJob ==
    /\ ljob # None
    /\ lpass.todo = {}
    /\ ~LocalJobCurrent \/ ljob.rev # localRev
    /\ localInFlight' = IF localInFlight = ljob.id THEN 0 ELSE localInFlight
    /\ ljob' = None /\ lpass' = None
    /\ UNCHANGED <<fieldVars, inputVars, ownVars, gjob, gpass, partial, epoch,
                   serial, inFlight, localRev, boundRev, inval, pending, cands, dirty,
                   claim>>

-----------------------------------------------------------------------------
Clients ==
    \/ \E g \in Goal : PrepareGoal(g) \/ PrepareRelocGoal(g)
    \/ DiscardPartial
    \/ \E f \in Follower : ClaimLocal(f) \/ ReleaseLocal(f)
    \/ \E w \in Windows : SetWindow(w) \/ ObserveScan(w) \/ InflateBySigma(w)

GlobalWorker ==
    \/ PrepareGlobalJob
    \/ \E s \in State : RunGlobal(s)
    \/ CommitGlobalJob
    \/ RejectGlobalJob

LocalWorker ==
    \/ PrepareLocalJob
    \/ \E s \in State : RunLocal(s)
    \/ CommitLocalJob
    \/ RejectLocalJob

Invalidation == \E s \in State : AdvanceInvalidations(s)

Next == Clients \/ GlobalWorker \/ LocalWorker \/ Invalidation

Spec == Init /\ [][Next]_vars

-----------------------------------------------------------------------------
(* Properties.                                                             *)

\* The jobs while they are checked out; None otherwise.
Actions == [State -> Action \cup {None}]
Pass == [todo : SUBSET State, val : [State -> Cost], act : Actions]
GlobalJob ==
    [id : Nat \ {0}, epoch : Nat, cells : SUBSET Cell,
     val : [State -> Cost], act : Actions,
     free : [Cell -> BOOLEAN], pen : [Cell -> Nat], final : SUBSET State]
LocalJob ==
    [id : Nat \ {0}, epoch : Nat, owner : Nat \ {0}, rev : Nat, brev : Nat,
     cells : SUBSET Cell, val : [State -> Cost],
     free : [Cell -> BOOLEAN], pen : [Cell -> Nat], final : SUBSET State]

TypeOK ==
    /\ goal \in Goal \cup {None} /\ partial \in BOOLEAN
    /\ val \in [State -> Cost] /\ act \in Actions
    /\ free \in [Cell -> BOOLEAN] /\ pen \in [Cell -> Nat]
    /\ window \subseteq Cell
    /\ epoch \in Nat /\ serial \in Nat /\ owner \in Nat
    /\ owned \subseteq Cell /\ deferred \subseteq owned /\ certified \in BOOLEAN
    /\ inFlight \in Nat /\ localInFlight \in Nat
    /\ localRev \in Nat /\ boundRev \in Nat
    /\ inval \subseteq State /\ pending \subseteq Cell /\ cands \subseteq Cell
    /\ dirty \in BOOLEAN
    /\ claim \in [Follower -> Nat]
    /\ \/ gjob = None /\ gpass = None
       \/ gjob \in GlobalJob /\ gpass \in Pass
    /\ \/ ljob = None /\ lpass = None
       \/ ljob \in LocalJob /\ lpass \in Pass

\* The stored value and action are what one more Bellman update would store.
Consistent(s) ==
    Updatable(s, free, Final[goal]) =>
        MinActionCost(s, Repaired, free, pen) = [cost |-> val[s], action |-> act[s]]

\* commit_local_job: a certificate is never stale.  As long as the window is
\* certified, no update of an owned state would change anything, whatever
\* was published, scanned, claimed or invalidated since the pass began.
CertifiedIsFixpoint ==
    (goal # None /\ certified) => \A s \in State : s[1] \in owned => Consistent(s)

\* mark_complete's comment: a field that is not dirty any more is a fixed
\* point of the Bellman operator, so no cell's work was lost on the way.
SettledIsFixpoint ==
    (goal # None /\ ~IsDirty) => \A s \in State : Consistent(s)

\* commit_global_job, commit_local_job: "older snapshots cannot publish across
\* the input revision".  What a job that would still be accepted has seen is at
\* least as expensive as the inputs of now, for a local pass exactly as
\* expensive and over exactly the owned cells, however often the goal, the
\* window, the owner and the scans changed since it was handed out.
SnapshotsAreCurrent ==
    /\ (gjob # None /\ GlobalJobCurrent) =>
          \A c \in Cell : gjob.free[c] => free[c] /\ pen[c] <= gjob.pen[c]
    /\ (ljob # None /\ LocalJobCurrent /\ ljob.rev = localRev) =>
          free = ljob.free /\ pen = ljob.pen /\ owned = ljob.cells

\* ownership.rs: "a superseded thread cannot release its successor".  The
\* region changes hands only by a new claim or by its own holder's release.
SuccessorKeepsRegion ==
    [][(owner # 0 /\ owner' # owner) =>
          \/ owner' > serial
          \/ \E f \in Follower : claim[f] = owner /\ claim'[f] = 0]_vars
=============================================================================
