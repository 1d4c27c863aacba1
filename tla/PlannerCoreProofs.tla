-------------------------- MODULE PlannerCoreProofs --------------------------
(***************************************************************************)
(* Type correctness of the shared field, and the two facts the planner's   *)
(* optimistic snapshots rest on: a job that is accepted has seen inputs    *)
(* that are not out of date, and a certificate is never stale.             *)
(***************************************************************************)
EXTENDS PlannerCore, BellmanProofs

USE DEF fieldVars, inputVars, ownVars, jobVars

\* The steps as the proof takes them apart.  Loading and dropping a field are
\* one case, and a field that is not marked partial is a solved one; so are the three ways of changing the window and its inputs, which
\* leave the inputs outside the window alone.
Reload ==
    /\ InvalidateGlobalJobs
    /\ \/ Unload
       \/ \E g \in Goal, field \in Field, p \in BOOLEAN :
             (p \/ field = Solved[g]) /\ Load(g, field, p)

Observation(w, f, p) ==
    /\ Tick(w, f, p)
    /\ \A c \in Cell \ w : f[c] = free[c] /\ p[c] = pen[c]

Step ==
    \/ Reload
    \/ \E f \in Follower : ClaimLocal(f) \/ ReleaseLocal(f)
    \/ \E w \in SUBSET Cell, f \in [Cell -> BOOLEAN], p \in [Cell -> Nat] : Observation(w, f, p)
    \/ Invalidation
    \/ GlobalWorker
    \/ LocalWorker
    \/ UNCHANGED vars

\* Every step of the specification is one of these.
LEMMA StepCases == TypeOK /\ [Next]_vars => Step
<1>. SUFFICES ASSUME TypeOK, [Next]_vars PROVE Step
  OBVIOUS
<1>1. ASSUME NEW g \in Goal, PrepareGoal(g) \/ PrepareRelocGoal(g) PROVE Reload
  <2>1. Solved[g] \in Field /\ Early[g] \subseteq Field
    BY CoreAssumption
  <2>. QED
    BY <1>1, <2>1 DEF PrepareGoal, PrepareRelocGoal, Reload
<1>2. CASE DiscardPartial
  BY <1>2 DEF DiscardPartial, Reload, Step
<1>3. ASSUME NEW w \in Windows, SetWindow(w) \/ ObserveScan(w) \/ InflateBySigma(w)
      PROVE  \E u \in SUBSET Cell, f \in [Cell -> BOOLEAN], p \in [Cell -> Nat] :
                Observation(u, f, p)
  <2>. w \in SUBSET Cell /\ Pens \subseteq Nat
    BY CoreAssumption
  <2>. free \in [Cell -> BOOLEAN] /\ pen \in [Cell -> Nat]
    BY DEF TypeOK
  <2>1. CASE SetWindow(w)
    BY <2>1 DEF SetWindow, Observation
  <2>2. CASE ObserveScan(w)
    <3>1. PICK q \in [w -> Pens], open \in (IF MapClear THEN SUBSET w ELSE {{}}) :
             Tick(w, [c \in Cell |-> free[c] \/ c \in open],
                     [c \in Cell |-> IF c \in w THEN q[c] ELSE pen[c]])
      BY <2>2 DEF ObserveScan
    <3>. DEFINE f == [c \in Cell |-> free[c] \/ c \in open]
                p == [c \in Cell |-> IF c \in w THEN q[c] ELSE pen[c]]
    <3>2. f \in [Cell -> BOOLEAN] /\ p \in [Cell -> Nat]
      OBVIOUS
    <3>3. \A c \in Cell \ w : f[c] = free[c] /\ p[c] = pen[c]
      OBVIOUS
    <3>4. Tick(w, f, p)
      BY <3>1
    <3>. HIDE DEF f, p
    <3>. QED
      BY <3>2, <3>3, <3>4 DEF Observation
  <2>3. CASE InflateBySigma(w)
    <3>1. PICK band \in SUBSET w, q \in Pens :
             Tick(w, free, [c \in Cell |-> IF c \in band /\ pen[c] < q THEN q ELSE pen[c]])
      BY <2>3 DEF InflateBySigma
    <3>. DEFINE p == [c \in Cell |-> IF c \in band /\ pen[c] < q THEN q ELSE pen[c]]
    <3>2. p \in [Cell -> Nat] /\ \A c \in Cell \ w : p[c] = pen[c]
      OBVIOUS
    <3>3. Tick(w, free, p)
      BY <3>1
    <3>. QED
      BY <3>2, <3>3 DEF Observation
  <2>. QED
    BY <1>3, <2>1, <2>2, <2>3
<1>. QED
  BY <1>1, <1>2, <1>3 DEF Next, Clients, Step

\* The values a snapshot starts from are costs.
LEMMA RepairedType == TypeOK => Repaired \in [State -> Cost]
<1>. SUFFICES ASSUME TypeOK, NEW s \in State
              PROVE  (IF PolicyInvalidated(val[s], act[s], free[s[1]], s \in Final[goal])
                      THEN MaxCost ELSE val[s]) \in Cost
  BY DEF Repaired
<1>1. MaxCost \in Cost
  BY BellmanAssumption DEF Cost
<1>2. val[s] \in Cost
  BY DEF TypeOK
<1>. QED
  BY <1>1, <1>2

\* Changing hands keeps the deferred cells inside the region.
LEMMA OwnershipType ==
    ASSUME TypeOK, NEW own, NEW w \in SUBSET Cell, NEW cert, NEW fresh,
           UpdateLocalOwnership(own, w, cert, fresh)
    PROVE  /\ owned' \subseteq Cell /\ deferred' \subseteq owned'
           /\ certified' \in BOOLEAN /\ localRev' \in Nat
           /\ pending' \subseteq Cell /\ dirty' \in BOOLEAN
  BY DEF UpdateLocalOwnership, TypeOK

\* A field without values, and the inputs and the window of a fresh one.
LEMMA FreshType ==
    /\ \A v : v = [s \in State |-> MaxCost] => v \in [State -> Cost]
    /\ \A a : a = [s \in State |-> None] => a \in Actions
    /\ MapFree \in [Cell -> BOOLEAN] /\ MapPen \in [Cell -> Nat]
    /\ InitWindow \subseteq Cell
<1>1. MaxCost \in Cost
  BY BellmanAssumption DEF Cost
<1>. QED
  BY <1>1, CoreAssumption DEF Actions

\* The planner starts, without a field, in a well-typed state.
LEMMA TypeInit == Init => TypeOK
<1>. SUFFICES ASSUME Init PROVE TypeOK
  OBVIOUS
<1>1. val \in [State -> Cost] /\ act \in Actions
  BY Zenon, FreshType DEF Init
<1>2. claim \in [Follower -> Nat]
  BY DEF Init
<1>3. free \in [Cell -> BOOLEAN] /\ pen \in [Cell -> Nat] /\ window \subseteq Cell
  BY FreshType DEF Init
<1>. QED
  BY <1>1, <1>2, <1>3 DEF Init, TypeOK

\* Whatever field a solver returns, or none, leaves a well-typed state.
LEMMA LoadType ==
    ASSUME TypeOK, InvalidateGlobalJobs,
           Unload \/ \E g \in Goal, field \in Field, p \in BOOLEAN : Load(g, field, p)
    PROVE  TypeOK'
<1>0. epoch' \in Nat
  BY DEF TypeOK, InvalidateGlobalJobs
<1>1. /\ inFlight' = 0 /\ localInFlight' = 0
      /\ owned' = {} /\ deferred' = {} /\ inval' = {} /\ cands' = {}
      /\ certified' = FALSE
      /\ serial' = serial /\ owner' = owner /\ localRev' = localRev /\ boundRev' = boundRev
      /\ gjob' = gjob /\ ljob' = ljob /\ gpass' = gpass /\ lpass' = lpass /\ claim' = claim
  BY DEF InvalidateGlobalJobs
<1>2. CASE Unload
  <2>1. val' \in [State -> Cost] /\ act' \in Actions
    BY <1>2, Zenon, FreshType DEF Unload
  <2>2. free' \in [Cell -> BOOLEAN] /\ pen' \in [Cell -> Nat] /\ window' \subseteq Cell
    BY <1>2, FreshType DEF Unload
  <2>. QED
    BY <1>0, <1>1, <1>2, <2>1, <2>2 DEF Unload, TypeOK
<1>3. ASSUME NEW g \in Goal, NEW field \in Field, NEW p \in BOOLEAN, Load(g, field, p)
      PROVE  TypeOK'
  <2>1. val' \in [State -> Cost] /\ act' \in Actions
    BY <1>3 DEF Load, Field, Actions
  <2>2. goal' \in Goal /\ partial' \in BOOLEAN /\ pending' \subseteq Cell /\ dirty' \in BOOLEAN
    BY <1>3 DEF Load
  <2>3. free' = MapFree /\ pen' = MapPen /\ window' = InitWindow
    BY <1>3 DEF Load
  <2>. QED
    BY <1>0, <1>1, <2>1, <2>2, <2>3, FreshType DEF TypeOK
<1>. QED
  BY <1>2, <1>3

\* A tick keeps the types, whatever window and inputs it leaves.
LEMMA TickType ==
    ASSUME TypeOK, NEW w \in SUBSET Cell, NEW f \in [Cell -> BOOLEAN],
           NEW p \in [Cell -> Nat], Tick(w, f, p)
    PROVE  TypeOK'
<1>1. /\ owned' \subseteq Cell /\ deferred' \subseteq owned'
      /\ certified' \in BOOLEAN /\ localRev' \in Nat
      /\ pending' \subseteq Cell /\ dirty' \in BOOLEAN
  BY OwnershipType DEF Tick
<1>2. inval' \subseteq State /\ epoch' \in Nat /\ boundRev' \in Nat
  BY DEF Tick, QueueCostIncreases, TypeOK, State
<1>. QED
  BY <1>1, <1>2 DEF Tick, TypeOK

\* A worker's step on its own snapshot stores a cost and an action.
LEMMA VisitType ==
    ASSUME NEW pass \in Pass, NEW s \in State, NEW from, NEW job
    PROVE  Visit(pass, s, from, job) \in Pass
<1>. DEFINE b == MinActionCost(s, from, job.free, job.pen)
<1>1. b.cost \in Cost /\ b.action \in Action \cup {None}
  BY MinActionCostType
<1>. HIDE DEF b
<1>2. /\ pass.todo \in SUBSET State /\ pass.val \in [State -> Cost]
      /\ pass.act \in [State -> Action \cup {None}]
  BY DEF Pass, Actions
<1>3. Visit(pass, s, from, job) =
        [todo |-> pass.todo \ {s},
         val  |-> [pass.val EXCEPT ![s] =
                      IF Updatable(s, job.free, job.final) THEN b.cost ELSE pass.val[s]],
         act  |-> [pass.act EXCEPT ![s] =
                      IF Updatable(s, job.free, job.final) THEN b.action ELSE pass.act[s]]]
  BY DEF Visit, b
<1>. QED
  BY <1>1, <1>2, <1>3 DEF Pass, Actions

\* Every step keeps the types.
LEMMA TypeStep == TypeOK /\ [Next]_vars => TypeOK'
<1>. SUFFICES ASSUME TypeOK, Step PROVE TypeOK'
  BY StepCases
<1>1. CASE Reload
  BY <1>1, LoadType DEF Reload
<1>2. ASSUME NEW f \in Follower, ClaimLocal(f) PROVE TypeOK'
  <2>1. /\ owned' \subseteq Cell /\ deferred' \subseteq owned'
        /\ certified' \in BOOLEAN /\ localRev' \in Nat
        /\ pending' \subseteq Cell /\ dirty' \in BOOLEAN
    BY <1>2, OwnershipType DEF ClaimLocal, TypeOK
  <2>. QED
    BY <1>2, <2>1 DEF ClaimLocal, TypeOK
<1>3. ASSUME NEW f \in Follower, ReleaseLocal(f) PROVE TypeOK'
  <2>1. CASE owner = claim[f]
    <3>1. /\ owned' \subseteq Cell /\ deferred' \subseteq owned'
          /\ certified' \in BOOLEAN /\ localRev' \in Nat
          /\ pending' \subseteq Cell /\ dirty' \in BOOLEAN
      BY <1>3, <2>1, OwnershipType DEF ReleaseLocal, TypeOK
    <3>. QED
      BY <1>3, <2>1, <3>1 DEF ReleaseLocal, TypeOK
  <2>2. CASE owner # claim[f]
    BY <1>3, <2>2 DEF ReleaseLocal, TypeOK
  <2>. QED
    BY <2>1, <2>2
<1>4. ASSUME NEW w \in SUBSET Cell, NEW f \in [Cell -> BOOLEAN], NEW p \in [Cell -> Nat],
             Observation(w, f, p)
      PROVE  TypeOK'
  BY <1>4, TickType DEF Observation
<1>5. ASSUME NEW s \in State, AdvanceInvalidations(s) PROVE TypeOK'
  <2>. DEFINE hit == IF goal = None THEN {} ELSE Dependents(s)
  <2>1. hit \subseteq State /\ {p[1] : p \in hit} \subseteq Cell
    BY DEF Dependents, State
  <2>. HIDE DEF hit
  <2>2. /\ act' = [p \in State |-> IF p \in hit THEN None ELSE act[p]]
        /\ inval' = (inval \ {s}) \cup hit
        /\ pending' = pending \cup {p[1] : p \in hit}
        /\ dirty' = (dirty \/ hit # {})
    BY <1>5 DEF AdvanceInvalidations, hit
  <2>3. act' \in Actions
    BY <2>2 DEF TypeOK, Actions
  <2>. QED
    BY <1>5, <2>1, <2>2, <2>3 DEF AdvanceInvalidations, TypeOK
<1>6. CASE PrepareGlobalJob
  <2>. DEFINE seed == IF GlobalQueued THEN pending ELSE Cell
              round == IF cands = {} THEN Dilate(seed) ELSE cands
  <2>1. round \subseteq Cell /\ seed \subseteq Cell
    BY DEF Dilate, Near, TypeOK
  <2>2. PICK n \in Budgets :
           LET batch == Batch(round, n)
           IN  /\ pending' = (IF cands = {} THEN {} ELSE seed)
               /\ cands' = round \ batch
               /\ deferred' = IF certified THEN deferred
                              ELSE deferred \cup (batch \cap owned)
               /\ gjob' = [id |-> serial + 1, epoch |-> epoch,
                           cells |-> batch \ owned, val |-> val, act |-> act,
                           free |-> free, pen |-> pen, final |-> Final[goal]]
               /\ gpass' = [todo |-> {s \in State : s[1] \in batch \ owned},
                            val |-> Repaired, act |-> act]
    BY <1>6 DEF PrepareGlobalJob
  <2>. DEFINE batch == Batch(round, n)
  <2>3. batch \subseteq round
    BY DEF Batch
  <2>. HIDE DEF batch, round, seed
  <2>4. Repaired \in [State -> Cost] /\ Final[goal] \subseteq State
    BY <1>6, RepairedType, CoreAssumption DEF PrepareGlobalJob, TypeOK
  <2>5. gjob' \in GlobalJob /\ gpass' \in Pass
    BY <2>1, <2>2, <2>3, <2>4 DEF TypeOK, GlobalJob, Pass, batch
  <2>. QED
    BY <1>6, <2>1, <2>2, <2>3, <2>5 DEF PrepareGlobalJob, TypeOK, batch
<1>7. ASSUME NEW s \in State, RunGlobal(s) PROVE TypeOK'
  BY <1>7, VisitType DEF RunGlobal, TypeOK
<1>8. CASE CommitGlobalJob
  <2>1. gpass.val \in [State -> Cost] /\ gpass.act \in Actions /\ gjob.cells \subseteq Cell
    BY <1>8 DEF CommitGlobalJob, TypeOK, Pass, GlobalJob
  <2>2. val' \in [State -> Cost] /\ act' \in Actions
    BY <1>8, <2>1 DEF CommitGlobalJob, Publish, TypeOK, Actions
  <2>3. /\ pending' \subseteq Cell /\ deferred' \subseteq owned
        /\ boundRev' \in Nat /\ certified' \in BOOLEAN
    BY <1>8, <2>1 DEF CommitGlobalJob, TypeOK
  <2>. QED
    BY <1>8, <2>2, <2>3 DEF CommitGlobalJob, SettleGlobal, TypeOK
<1>9. CASE RejectGlobalJob
  <2>1. gjob.cells \subseteq Cell
    BY <1>9 DEF RejectGlobalJob, TypeOK, GlobalJob
  <2>2. inFlight' \in Nat /\ pending' \subseteq Cell
    BY <1>9, <2>1 DEF RejectGlobalJob, TypeOK
  <2>3. dirty' \in BOOLEAN
    BY <1>9 DEF RejectGlobalJob, TypeOK
  <2>. QED
    BY <1>9, <2>2, <2>3 DEF RejectGlobalJob, TypeOK
<1>10. CASE PrepareLocalJob
  <2>1. Repaired \in [State -> Cost] /\ Final[goal] \subseteq State
    BY <1>10, RepairedType, CoreAssumption DEF PrepareLocalJob, TypeOK
  <2>2. ljob' \in LocalJob /\ lpass' \in Pass
    BY <1>10, <2>1 DEF PrepareLocalJob, TypeOK, LocalJob, Pass
  <2>. QED
    BY <1>10, <2>2 DEF PrepareLocalJob, TypeOK
<1>11. ASSUME NEW s \in State, RunLocal(s) PROVE TypeOK'
  BY <1>11, VisitType DEF RunLocal, TypeOK
<1>12. CASE CommitLocalJob
  <2>1. lpass.val \in [State -> Cost] /\ lpass.act \in Actions /\ ljob.cells \subseteq Cell
    BY <1>12 DEF CommitLocalJob, TypeOK, Pass, LocalJob
  <2>2. val' \in [State -> Cost] /\ act' \in Actions
    BY <1>12, <2>1 DEF CommitLocalJob, Publish, TypeOK, Actions
  <2>3. pending' \subseteq Cell /\ deferred' \subseteq owned /\ certified' \in BOOLEAN
    BY <1>12, <2>1 DEF CommitLocalJob, CertifiesLocal, LocalDelta, TypeOK
  <2>. QED
    BY <1>12, <2>2, <2>3 DEF CommitLocalJob, SettleGlobal, TypeOK
<1>13. CASE RejectLocalJob
  BY <1>13 DEF RejectLocalJob, TypeOK
<1>14. CASE UNCHANGED vars
  BY <1>14 DEF vars, TypeOK
<1>. QED
  BY <1>1, <1>2, <1>3, <1>4, <1>5, <1>6, <1>7, <1>8, <1>9, <1>10, <1>11, <1>12, <1>13, <1>14
  DEF Step, Invalidation, GlobalWorker, LocalWorker

\* The type invariant of the shared field, for every map, transition table,
\* penalty set and set of windows, and whatever the bounds on the counters.
THEOREM TypeCorrect == Spec => []TypeOK
  BY TypeInit, TypeStep, PTL DEF Spec

-----------------------------------------------------------------------------
(* The inductive invariant.  The two claims are not inductive: that a job is  *)
(* out of date is seen by comparing numbers, so the numbers have to be known  *)
(* never to come back (Numbered), and that a certificate holds depends on     *)
(* what the pass behind it read, from its first update on (PassIsJacobi).     *)

\* Tokens only grow, the region is the window, and without global repair there
\* is no global job.
Numbered ==
    /\ gjob # None => GlobalSweep /\ gjob.epoch <= epoch
    /\ ljob # None => /\ ljob.epoch <= epoch
                      /\ ljob.rev <= localRev /\ ljob.brev <= boundRev
    /\ owned \subseteq window
    /\ goal = None => owned = {}

\* What a global job that would be accepted has seen.
GlobalSnapshot ==
    (gjob # None /\ GlobalJobCurrent) =>
        \A c \in Cell : gjob.free[c] => free[c] /\ pen[c] <= gjob.pen[c]

\* What a local job that would be accepted has seen: everything but the values
\* around it, and those too while the boundary revision is the same.
LocalCurrent == ljob # None /\ LocalJobCurrent /\ ljob.rev = localRev

LocalSeen ==
    /\ goal # None /\ inval = {}
    /\ free = ljob.free /\ pen = ljob.pen /\ owned = ljob.cells
    /\ ljob.final = Final[goal]
    /\ ljob.brev = boundRev => Repaired = ljob.val

LocalSnapshot == LocalCurrent => LocalSeen

\* As long as a local pass has moved no value, every update it has made read
\* the snapshot, in whatever order it goes.
PassIsJacobi ==
    ljob # None =>
        /\ \A s \in lpass.todo : lpass.val[s] = ljob.val[s]
        /\ lpass.val = ljob.val =>
              \A s \in State :
                  (s[1] \in ljob.cells /\ s \notin lpass.todo
                   /\ Updatable(s, ljob.free, ljob.final)) =>
                      MinActionCost(s, ljob.val, ljob.free, ljob.pen)
                        = [cost |-> lpass.val[s], action |-> lpass.act[s]]

Certificate ==
    certified => inval = {} /\ (goal # None => \A s \in State : s[1] \in owned => Consistent(s))

Inv ==
    /\ TypeOK
    /\ Numbered
    /\ GlobalSnapshot
    /\ LocalSnapshot
    /\ PassIsJacobi
    /\ Certificate

\* Every step keeps the tokens in order: no token is ever handed out twice.
LEMMA NumberedStep == TypeOK /\ Numbered /\ [Next]_vars => Numbered'
<1>. SUFFICES ASSUME TypeOK, Numbered, Step PROVE Numbered'
  BY StepCases
<1>1. CASE Reload
  BY <1>1 DEF Reload, InvalidateGlobalJobs, TypeOK, Numbered, GlobalJob, LocalJob
<1>2. ASSUME NEW f \in Follower, ClaimLocal(f) \/ ReleaseLocal(f) PROVE Numbered'
  BY <1>2 DEF ClaimLocal, ReleaseLocal, UpdateLocalOwnership, TypeOK, Numbered, LocalJob
<1>3. ASSUME NEW w \in SUBSET Cell, NEW f, NEW p, Observation(w, f, p) PROVE Numbered'
  BY <1>3 DEF Observation, Tick, UpdateLocalOwnership, QueueCostIncreases, TypeOK, Numbered,
              GlobalJob, LocalJob
<1>4. CASE Invalidation
  BY <1>4 DEF Invalidation, AdvanceInvalidations, Numbered
<1>5. CASE PrepareGlobalJob
  <2>1. gjob'.epoch = epoch
    BY <1>5 DEF PrepareGlobalJob
  <2>. QED
    BY <1>5, <2>1 DEF PrepareGlobalJob, Numbered, TypeOK
<1>6. ASSUME NEW s \in State, RunGlobal(s) PROVE Numbered'
  BY <1>6 DEF RunGlobal, Numbered
<1>7. CASE CommitGlobalJob
  BY <1>7 DEF CommitGlobalJob, Numbered, TypeOK, LocalJob
<1>8. CASE RejectGlobalJob
  BY <1>8 DEF RejectGlobalJob, Numbered
<1>9. CASE PrepareLocalJob
  BY <1>9 DEF PrepareLocalJob, Numbered, TypeOK
<1>10. ASSUME NEW s \in State, RunLocal(s) PROVE Numbered'
  BY <1>10 DEF RunLocal, Numbered
<1>11. CASE CommitLocalJob
  BY <1>11 DEF CommitLocalJob, Numbered
<1>12. CASE RejectLocalJob
  BY <1>12 DEF RejectLocalJob, Numbered
<1>13. CASE UNCHANGED vars
  BY <1>13 DEF vars, Numbered
<1>. QED
  BY <1>1, <1>2, <1>3, <1>4, <1>5, <1>6, <1>7, <1>8, <1>9, <1>10, <1>11, <1>12, <1>13
  DEF Step, GlobalWorker, LocalWorker

\* A global commit that leaves a certificate or the boundary revision alone has
\* published what was there before.
LEMMA NothingMoved ==
    ASSUME TypeOK, CommitGlobalJob, certified' \/ boundRev' = boundRev
    PROVE  val' = val /\ act' = act
<1>. DEFINE fresh == {c \in gjob.cells \ owned : Unchanged(c)}
            changed == {c \in fresh : Moved(c, gpass)}
<1>1. /\ Publish(fresh, gpass)
      /\ boundRev' = IF changed # {} THEN boundRev + 1 ELSE boundRev
      /\ certified' = (certified /\ changed = {})
  BY DEF CommitGlobalJob
<1>2. changed = {}
  <2>. HIDE DEF changed
  <2>1. CASE certified'
    BY <1>1, <2>1, Zenon
  <2>2. CASE boundRev' = boundRev
    <3>1. boundRev + 1 # boundRev
      BY DEF TypeOK
    <3>. QED
      BY <1>1, <2>2, <3>1
  <2>. QED
    BY <2>1, <2>2
<1>3. ASSUME NEW s \in State, s[1] \in fresh
      PROVE  gpass.val[s] = val[s] /\ gpass.act[s] = act[s]
  <2>1. s[2] \in Theta /\ s = <<s[1], s[2]>>
    BY DEF State
  <2>2. ~Moved(s[1], gpass)
    BY <1>2, <1>3
  <2>. QED
    BY <2>1, <2>2 DEF Moved
<1>. HIDE DEF fresh
<1>4. val' = [s \in State |-> val[s]] /\ act' = [s \in State |-> act[s]]
  BY <1>1, <1>3 DEF Publish
<1>. QED
  BY <1>4 DEF TypeOK, Actions

\* The repaired values are a function of the field and of what is free.
LEMMA SameRepaired ==
    ASSUME val' = val, act' = act, free' = free, goal' = goal
    PROVE  Repaired' = Repaired
  BY DEF Repaired

\* Only an observation can make inputs more expensive than a global snapshot has
\* seen, and then it starts a new epoch (queue_cost_increases).
LEMMA GlobalSnapshotStep ==
    TypeOK /\ Numbered /\ GlobalSnapshot /\ [Next]_vars => GlobalSnapshot'
<1>. SUFFICES ASSUME TypeOK, Numbered, GlobalSnapshot, Step,
                     gjob' # None, GlobalJobCurrent',
                     NEW c \in Cell, gjob'.free[c]
              PROVE  free'[c] /\ pen'[c] <= gjob'.pen[c]
  BY StepCases DEF GlobalSnapshot
<1>. USE DEF GlobalJobCurrent, GlobalSnapshot
<1>1. CASE Reload
  BY <1>1 DEF Reload, InvalidateGlobalJobs, TypeOK, Numbered, GlobalJob
<1>2. ASSUME NEW f \in Follower, ClaimLocal(f) \/ ReleaseLocal(f)
      PROVE  free'[c] /\ pen'[c] <= gjob'.pen[c]
  BY <1>2 DEF ClaimLocal, ReleaseLocal
<1>3. ASSUME NEW w \in SUBSET Cell, NEW f \in [Cell -> BOOLEAN], NEW p \in [Cell -> Nat],
             Observation(w, f, p)
      PROVE  free'[c] /\ pen'[c] <= gjob'.pen[c]
  <2>. DEFINE up == {d \in w : free[d] /\ (~f[d] \/ p[d] > pen[d])}
  <2>1. gjob' = gjob /\ inFlight' = inFlight /\ free' = f /\ pen' = p /\ QueueCostIncreases(up)
    BY <1>3 DEF Observation, Tick
  <2>2. gjob \in GlobalJob
    BY <2>1 DEF TypeOK
  <2>3. GlobalSweep /\ gjob.epoch \in Nat /\ gjob.epoch <= epoch /\ epoch \in Nat
    BY <2>1, <2>2 DEF Numbered, TypeOK, GlobalJob
  <2>4. epoch' = epoch /\ up = {}
    BY <2>1, <2>3 DEF QueueCostIncreases
  <2>5. free[c] /\ pen[c] <= gjob.pen[c]
    BY <2>1, <2>4
  <2>6. f[c] /\ p[c] <= pen[c]
    BY <1>3, <2>4, <2>5 DEF Observation, TypeOK
  <2>7. pen[c] \in Nat /\ gjob.pen[c] \in Nat /\ p[c] \in Nat
    BY <2>2 DEF TypeOK, GlobalJob
  <2>. QED
    BY <2>1, <2>5, <2>6, <2>7
<1>4. CASE Invalidation
  BY <1>4 DEF Invalidation, AdvanceInvalidations
<1>5. CASE PrepareGlobalJob
  <2>1. gjob'.free = free /\ gjob'.pen = pen /\ free' = free /\ pen' = pen
    BY <1>5 DEF PrepareGlobalJob
  <2>. QED
    BY <2>1 DEF TypeOK
<1>6. ASSUME NEW s \in State, RunGlobal(s) PROVE free'[c] /\ pen'[c] <= gjob'.pen[c]
  BY <1>6 DEF RunGlobal
<1>7. CASE CommitGlobalJob
  BY <1>7 DEF CommitGlobalJob
<1>8. CASE RejectGlobalJob
  BY <1>8 DEF RejectGlobalJob
<1>9. CASE PrepareLocalJob
  BY <1>9 DEF PrepareLocalJob
<1>10. ASSUME NEW s \in State, RunLocal(s) PROVE free'[c] /\ pen'[c] <= gjob'.pen[c]
  BY <1>10 DEF RunLocal
<1>11. CASE CommitLocalJob
  BY <1>11 DEF CommitLocalJob
<1>12. CASE RejectLocalJob
  BY <1>12 DEF RejectLocalJob
<1>13. CASE UNCHANGED vars
  BY <1>13 DEF vars
<1>. QED
  BY <1>1, <1>2, <1>3, <1>4, <1>5, <1>6, <1>7, <1>8, <1>9, <1>10, <1>11, <1>12, <1>13
  DEF Step, GlobalWorker, LocalWorker

\* Every step that changes what a local snapshot has seen changes one of the
\* tokens commit_local_job compares.
LEMMA LocalSnapshotStep ==
    TypeOK /\ Numbered /\ LocalSnapshot /\ [Next]_vars => LocalSnapshot'
<1>. SUFFICES ASSUME TypeOK, Numbered, LocalSnapshot, Step, LocalCurrent'
              PROVE  LocalSeen'
  BY StepCases DEF LocalSnapshot
<1>0. LocalCurrent => LocalSeen
  BY DEF LocalSnapshot
<1>a. ASSUME ljob' = ljob, goal' = goal, inval' = inval, free' = free, pen' = pen,
             owned' = owned, LocalCurrent,
             ljob.brev = boundRev' => boundRev' = boundRev /\ val' = val /\ act' = act
      PROVE  LocalSeen'
  <2>1. ljob.brev = boundRev' => Repaired' = Repaired /\ boundRev' = boundRev
    BY <1>a, SameRepaired
  <2>. QED
    BY <1>0, <1>a, <2>1 DEF LocalSeen
<1>1. CASE Reload
  BY <1>1 DEF Reload, InvalidateGlobalJobs, TypeOK, Numbered, LocalJob, LocalCurrent,
              LocalJobCurrent
<1>2. ASSUME NEW f \in Follower, ClaimLocal(f) \/ ReleaseLocal(f) PROVE LocalSeen'
  <2>1. ljob' = ljob /\ ljob \in LocalJob
    BY <1>2 DEF ClaimLocal, ReleaseLocal, LocalCurrent, TypeOK
  <2>2. localInFlight' # 0
    BY <2>1 DEF LocalCurrent, LocalJobCurrent, LocalJob
  <2>. QED
    BY <1>2, <1>a, <2>2 DEF ClaimLocal, ReleaseLocal, LocalCurrent, LocalJobCurrent
<1>3. ASSUME NEW w \in SUBSET Cell, NEW f, NEW p, Observation(w, f, p) PROVE LocalSeen'
  <2>1. /\ ljob' = ljob /\ goal' = goal /\ val' = val /\ act' = act
        /\ owner' = owner /\ localInFlight' = localInFlight
    BY <1>3 DEF Observation, Tick
  <2>2. /\ ljob.epoch \in Nat /\ ljob.epoch <= epoch
        /\ ljob.rev \in Nat /\ ljob.rev <= localRev
        /\ epoch \in Nat /\ localRev \in Nat /\ boundRev \in Nat
    BY <2>1 DEF TypeOK, Numbered, LocalCurrent, LocalJob
  <2>3. localRev' = localRev /\ owned' = owned /\ <<f, p>> = <<free, pen>>
    BY <1>3, <2>1, <2>2 DEF Observation, Tick, UpdateLocalOwnership, LocalCurrent
  <2>4. free' = free /\ pen' = pen
    BY <1>3, <2>3 DEF Observation, Tick
  <2>5. epoch' = epoch /\ inval' = inval /\ boundRev' = boundRev
    BY <1>3, <2>1, <2>2 DEF Observation, Tick, QueueCostIncreases, LocalCurrent, LocalJobCurrent
  <2>6. LocalCurrent
    BY <2>1, <2>3, <2>5 DEF LocalCurrent, LocalJobCurrent
  <2>. QED
    BY <1>a, <2>1, <2>3, <2>4, <2>5, <2>6
<1>4. CASE Invalidation
  BY <1>0, <1>4 DEF Invalidation, AdvanceInvalidations, LocalCurrent, LocalJobCurrent, LocalSeen
<1>5. CASE PrepareGlobalJob
  BY <1>5, <1>a DEF PrepareGlobalJob, LocalCurrent, LocalJobCurrent
<1>6. ASSUME NEW s \in State, RunGlobal(s) PROVE LocalSeen'
  BY <1>6, <1>a DEF RunGlobal, LocalCurrent, LocalJobCurrent
<1>7. CASE CommitGlobalJob
  <2>1. /\ ljob' = ljob /\ goal' = goal /\ inval' = inval /\ free' = free /\ pen' = pen
        /\ owned' = owned /\ LocalCurrent
    BY <1>7 DEF CommitGlobalJob, LocalCurrent, LocalJobCurrent
  <2>2. ljob.brev \in Nat /\ ljob.brev <= boundRev /\ boundRev \in Nat
    BY <2>1 DEF TypeOK, Numbered, LocalCurrent, LocalJob
  <2>3. boundRev' = boundRev \/ boundRev' = boundRev + 1
    BY <1>7 DEF CommitGlobalJob
  <2>4. ljob.brev = boundRev' => boundRev' = boundRev
    BY <2>2, <2>3
  <2>. QED
    BY <1>7, <1>a, <2>1, <2>4, NothingMoved
<1>8. CASE RejectGlobalJob
  BY <1>8, <1>a DEF RejectGlobalJob, LocalCurrent, LocalJobCurrent
<1>9. CASE PrepareLocalJob
  <2>1. /\ ljob'.cells = window \cap owned /\ ljob'.val = Repaired
        /\ ljob'.free = free /\ ljob'.pen = pen /\ ljob'.final = Final[goal]
    BY <1>9 DEF PrepareLocalJob
  <2>2. Repaired' = Repaired
    BY <1>9, SameRepaired DEF PrepareLocalJob
  <2>. QED
    BY <1>9, <2>1, <2>2 DEF PrepareLocalJob, Numbered, LocalSeen
<1>10. ASSUME NEW s \in State, RunLocal(s) PROVE LocalSeen'
  BY <1>10, <1>a DEF RunLocal, LocalCurrent, LocalJobCurrent
<1>11. CASE CommitLocalJob
  BY <1>11 DEF CommitLocalJob, LocalCurrent
<1>12. CASE RejectLocalJob
  BY <1>12 DEF RejectLocalJob, LocalCurrent
<1>13. CASE UNCHANGED vars
  BY <1>13, <1>a DEF vars, LocalCurrent, LocalJobCurrent
<1>. QED
  BY <1>1, <1>2, <1>3, <1>4, <1>5, <1>6, <1>7, <1>8, <1>9, <1>10, <1>11, <1>12, <1>13
  DEF Step, GlobalWorker, LocalWorker

\* The local worker's updates keep PassIsJacobi: each state is visited once, so
\* a value that moved stays different from the snapshot's to the end.
LEMMA PassStep == TypeOK /\ PassIsJacobi /\ [Next]_vars => PassIsJacobi'
<1>. SUFFICES ASSUME TypeOK, PassIsJacobi, Step PROVE PassIsJacobi'
  BY StepCases
<1>a. ASSUME ljob' = ljob, lpass' = lpass PROVE PassIsJacobi'
  BY <1>a DEF PassIsJacobi, Updatable
<1>b. ASSUME ljob' = None PROVE PassIsJacobi'
  BY <1>b DEF PassIsJacobi
<1>1. CASE Reload
  BY <1>1, <1>a DEF Reload, InvalidateGlobalJobs
<1>2. ASSUME NEW f \in Follower, ClaimLocal(f) \/ ReleaseLocal(f) PROVE PassIsJacobi'
  BY <1>2, <1>a DEF ClaimLocal, ReleaseLocal
<1>3. ASSUME NEW w, NEW f, NEW p, Observation(w, f, p) PROVE PassIsJacobi'
  BY <1>3, <1>a DEF Observation, Tick
<1>4. CASE Invalidation
  BY <1>4, <1>a DEF Invalidation, AdvanceInvalidations
<1>5. CASE PrepareGlobalJob
  BY <1>5, <1>a DEF PrepareGlobalJob
<1>6. ASSUME NEW s \in State, RunGlobal(s) PROVE PassIsJacobi'
  BY <1>6, <1>a DEF RunGlobal
<1>7. CASE CommitGlobalJob \/ RejectGlobalJob
  BY <1>7, <1>a DEF CommitGlobalJob, RejectGlobalJob
<1>8. CASE PrepareLocalJob
  <2>1. /\ ljob'.cells = window \cap owned /\ ljob'.val = Repaired
        /\ lpass'.todo = {s \in State : s[1] \in window \cap owned} /\ lpass'.val = Repaired
    BY <1>8 DEF PrepareLocalJob
  <2>. QED
    BY <2>1 DEF PassIsJacobi
<1>9. ASSUME NEW s \in State, RunLocal(s) PROVE PassIsJacobi'
  <2>. DEFINE from == IF Jacobi THEN ljob.val ELSE lpass.val
              b == MinActionCost(s, from, ljob.free, ljob.pen)
              upd == Updatable(s, ljob.free, ljob.final)
  <2>1. /\ ljob' = ljob /\ ljob # None /\ s \in lpass.todo
        /\ lpass'.todo = lpass.todo \ {s}
        /\ lpass'.val = [lpass.val EXCEPT ![s] = IF upd THEN b.cost ELSE lpass.val[s]]
        /\ lpass'.act = [lpass.act EXCEPT ![s] = IF upd THEN b.action ELSE lpass.act[s]]
    BY <1>9 DEF RunLocal, Visit
  <2>2. /\ ljob.val \in [State -> Cost] /\ lpass.val \in [State -> Cost]
        /\ lpass.act \in [State -> Action \cup {None}] /\ lpass.todo \subseteq State
    BY <2>1 DEF TypeOK, LocalJob, Pass, Actions
  <2>b. b = [cost |-> b.cost, action |-> b.action]
    BY MinActionCostType
  <2>c. from = IF Jacobi THEN ljob.val ELSE lpass.val
    OBVIOUS
  <2>. HIDE DEF b, from, upd
  <2>3. \A t \in lpass'.todo : lpass'.val[t] = ljob.val[t]
    BY <2>1, <2>2 DEF PassIsJacobi
  <2>4. ASSUME lpass'.val = ljob.val,
               NEW t \in State, t[1] \in ljob.cells, t \notin lpass'.todo,
               Updatable(t, ljob.free, ljob.final)
        PROVE  MinActionCost(t, ljob.val, ljob.free, ljob.pen)
                 = [cost |-> lpass'.val[t], action |-> lpass'.act[t]]
    <3>1. lpass.val = ljob.val
      <4>1. lpass.val[s] = ljob.val[s]
        BY <2>1 DEF PassIsJacobi
      <4>2. \A u \in State : u # s => lpass.val[u] = ljob.val[u]
        BY <2>1, <2>2, <2>4
      <4>. QED
        BY <2>2, <4>1, <4>2
    <3>2. from = ljob.val
      BY <3>1, <2>c
    <3>3. CASE t = s
      <4>1. lpass'.val[s] = b.cost /\ lpass'.act[s] = b.action
        BY <2>1, <2>2, <2>4, <3>3 DEF upd
      <4>. QED
        BY <2>b, <3>2, <3>3, <4>1 DEF b
    <3>4. CASE t # s
      <4>1. lpass'.val[t] = lpass.val[t] /\ lpass'.act[t] = lpass.act[t] /\ t \notin lpass.todo
        BY <2>1, <2>2, <2>4, <3>4
      <4>. QED
        BY <2>1, <2>4, <3>1, <4>1 DEF PassIsJacobi
    <3>. QED
      BY <3>3, <3>4
  <2>. QED
    BY <2>1, <2>3, <2>4 DEF PassIsJacobi, Updatable
<1>10. CASE CommitLocalJob \/ RejectLocalJob
  BY <1>10, <1>b DEF CommitLocalJob, RejectLocalJob
<1>11. CASE UNCHANGED vars
  BY <1>11, <1>a DEF vars
<1>. QED
  BY <1>1, <1>2, <1>3, <1>4, <1>5, <1>6, <1>7, <1>8, <1>9, <1>10, <1>11
  DEF Step, GlobalWorker, LocalWorker

\* The commit of a local pass that certifies: publishing its actions leaves the
\* repaired values what they were, because an update returns no action exactly
\* when it returns MaxCost, and so every owned state is consistent.
LEMMA CommitCertifies ==
    ASSUME TypeOK, LocalSnapshot, PassIsJacobi, CommitLocalJob, certified'
    PROVE  inval' = {} /\ \A s \in State : s[1] \in owned' => Consistent(s)'
<1>1. /\ LocalSeen /\ ljob # None /\ ljob \in LocalJob /\ lpass \in Pass /\ lpass.todo = {}
  BY DEF CommitLocalJob, LocalSnapshot, LocalCurrent, TypeOK
<1>2. /\ Publish(ljob.cells, lpass)
      /\ goal' = goal /\ free' = free /\ pen' = pen /\ owned' = owned /\ inval' = inval
  BY DEF CommitLocalJob
<1>3. lpass.val = ljob.val /\ ljob.brev = boundRev
  <2>1. CertifiesLocal
    BY Zenon DEF CommitLocalJob
  <2>. QED
    BY <2>1 DEF CertifiesLocal, LocalDelta
<1>4. /\ free = ljob.free /\ pen = ljob.pen /\ owned = ljob.cells
      /\ ljob.final = Final[goal] /\ inval = {} /\ Repaired = ljob.val
  BY <1>1, <1>3 DEF LocalSeen
<1>5. ASSUME NEW s \in State, s[1] \in owned, Updatable(s, free, Final[goal])
      PROVE  /\ MinActionCost(s, ljob.val, free, pen) = [cost |-> val'[s], action |-> act'[s]]
             /\ act'[s] = None <=> val'[s] = MaxCost
  <2>1. val'[s] = lpass.val[s] /\ act'[s] = lpass.act[s]
    BY <1>2, <1>4, <1>5 DEF Publish
  <2>2. MinActionCost(s, ljob.val, free, pen) = [cost |-> val'[s], action |-> act'[s]]
    BY <1>1, <1>3, <1>4, <1>5, <2>1 DEF PassIsJacobi
  <2>. DEFINE b == MinActionCost(s, ljob.val, free, pen)
  <2>3. b.action = None <=> b.cost = MaxCost
    BY MinActionCostType
  <2>4. b = [cost |-> val'[s], action |-> act'[s]]
    BY <2>2
  <2>. HIDE DEF b
  <2>5. b.cost = val'[s] /\ b.action = act'[s]
    BY <2>4
  <2>. QED
    BY <2>2, <2>3, <2>5
<1>6. Repaired' = ljob.val
  <2>1. ASSUME NEW s \in State
        PROVE  (IF PolicyInvalidated(val'[s], act'[s], free[s[1]], s \in Final[goal])
                THEN MaxCost ELSE val'[s]) = ljob.val[s]
    <3>1. CASE s[1] \in owned
      <4>1. val'[s] = ljob.val[s]
        BY <1>2, <1>3, <1>4, <3>1 DEF Publish
      <4>2. ~PolicyInvalidated(val'[s], act'[s], free[s[1]], s \in Final[goal])
        <5>1. CASE Updatable(s, free, Final[goal])
          <6>1. act'[s] = None => val'[s] = MaxCost
            BY <1>5, <3>1, <5>1
          <6>2. MaxCost \in Nat
            BY BellmanAssumption
          <6>. QED
            BY <6>1, <6>2 DEF PolicyInvalidated
        <5>2. CASE ~Updatable(s, free, Final[goal])
          BY <5>2 DEF Updatable, PolicyInvalidated
        <5>. QED
          BY <5>1, <5>2
      <4>. QED
        BY <4>1, <4>2
    <3>2. CASE s[1] \notin owned
      <4>1. val'[s] = val[s] /\ act'[s] = act[s]
        BY <1>2, <1>4, <3>2 DEF Publish
      <4>2. Repaired[s] = ljob.val[s]
        BY <1>4
      <4>. QED
        BY <4>1, <4>2 DEF Repaired
    <3>. QED
      BY <3>1, <3>2
  <2>2. Repaired' = [s \in State |->
           IF PolicyInvalidated(val'[s], act'[s], free[s[1]], s \in Final[goal])
           THEN MaxCost ELSE val'[s]]
    BY <1>2 DEF Repaired
  <2>3. Repaired' = [s \in State |-> ljob.val[s]]
    BY <2>1, <2>2
  <2>. QED
    BY <1>1, <2>3 DEF LocalJob
<1>7. ASSUME NEW s \in State, s[1] \in owned PROVE Consistent(s)'
  <2>. SUFFICES ASSUME Updatable(s, free, Final[goal])
                PROVE  MinActionCost(s, ljob.val, free, pen)
                         = [cost |-> val'[s], action |-> act'[s]]
    BY <1>2, <1>6 DEF Consistent, Updatable
  <2>. QED
    BY <1>5, <1>7
<1>. QED
  BY <1>2, <1>4, <1>7

\* Every step that could break a certificate withdraws it.
LEMMA CertificateStep ==
    TypeOK /\ LocalSnapshot /\ PassIsJacobi /\ Certificate /\ [Next]_vars => Certificate'
<1>. SUFFICES ASSUME TypeOK, LocalSnapshot, PassIsJacobi, Certificate, Step, certified'
              PROVE  /\ inval' = {}
                     /\ goal' # None => \A s \in State : s[1] \in owned' => Consistent(s)'
  BY StepCases DEF Certificate
<1>. DEFINE Holds == /\ inval' = {}
                     /\ goal' # None => \A s \in State : s[1] \in owned' => Consistent(s)'
<1>a. ASSUME certified, goal' = goal, inval' = inval, owned' = owned, free' = free, pen' = pen,
             val' = val, act' = act
      PROVE  Holds
  <2>1. Repaired' = Repaired
    BY <1>a, SameRepaired
  <2>2. \A s \in State : Consistent(s) => Consistent(s)'
    BY <1>a, <2>1 DEF Consistent, Updatable
  <2>. QED
    BY <1>a, <2>2 DEF Certificate
<1>1. CASE Reload
  <2>1. certified' = FALSE
    BY <1>1 DEF Reload, InvalidateGlobalJobs
  <2>. QED
    BY <2>1
<1>2. ASSUME NEW f \in Follower, ClaimLocal(f) PROVE Holds
  <2>1. certified' = FALSE
    BY <1>2 DEF ClaimLocal, UpdateLocalOwnership
  <2>. QED
    BY <2>1
<1>3. ASSUME NEW f \in Follower, ReleaseLocal(f) PROVE Holds
  <2>1. CASE owner = claim[f]
    <3>1. owned' = {} /\ inval' = inval /\ certified
      BY <1>3, <2>1 DEF ReleaseLocal, UpdateLocalOwnership
    <3>. QED
      BY <3>1 DEF Certificate
  <2>2. CASE owner # claim[f]
    BY <1>3, <2>2, <1>a DEF ReleaseLocal
  <2>. QED
    BY <2>1, <2>2
<1>4. ASSUME NEW w \in SUBSET Cell, NEW f, NEW p, Observation(w, f, p) PROVE Holds
  <2>1. /\ certified /\ owned' = owned /\ <<f, p>> = <<free, pen>>
        /\ goal' = goal /\ val' = val /\ act' = act /\ free' = f /\ pen' = p
    BY <1>4 DEF Observation, Tick, UpdateLocalOwnership
  <2>2. {c \in w : free[c] /\ (~f[c] \/ p[c] > pen[c])} = {}
    BY <2>1 DEF TypeOK
  <2>3. inval' = inval
    BY <1>4, <2>2 DEF Observation, Tick, QueueCostIncreases
  <2>. QED
    BY <1>a, <2>1, <2>3
<1>5. CASE Invalidation
  BY <1>5 DEF Invalidation, AdvanceInvalidations, Certificate
<1>6. CASE PrepareGlobalJob
  BY <1>6, <1>a DEF PrepareGlobalJob
<1>7. ASSUME NEW s \in State, RunGlobal(s) PROVE Holds
  BY <1>7, <1>a DEF RunGlobal
<1>8. CASE CommitGlobalJob
  <2>1. certified /\ goal' = goal /\ inval' = inval /\ owned' = owned /\ free' = free /\ pen' = pen
    BY <1>8 DEF CommitGlobalJob
  <2>. QED
    BY <1>8, <1>a, <2>1, NothingMoved
<1>9. CASE RejectGlobalJob
  BY <1>9, <1>a DEF RejectGlobalJob
<1>10. CASE PrepareLocalJob
  BY <1>10, <1>a DEF PrepareLocalJob
<1>11. ASSUME NEW s \in State, RunLocal(s) PROVE Holds
  BY <1>11, <1>a DEF RunLocal
<1>12. CASE CommitLocalJob
  BY <1>12, CommitCertifies
<1>13. CASE RejectLocalJob
  BY <1>13, <1>a DEF RejectLocalJob
<1>14. CASE UNCHANGED vars
  BY <1>14, <1>a DEF vars
<1>. QED
  BY <1>1, <1>2, <1>3, <1>4, <1>5, <1>6, <1>7, <1>8, <1>9, <1>10, <1>11, <1>12, <1>13, <1>14
  DEF Step, GlobalWorker, LocalWorker

\* The invariant holds before anything is loaded.
LEMMA InvInit == Init => Inv
  BY TypeInit DEF Init, Inv, Numbered, GlobalSnapshot, LocalSnapshot, LocalCurrent, PassIsJacobi,
                  Certificate

\* The invariant is inductive.
LEMMA InvStep == Inv /\ [Next]_vars => Inv'
  BY TypeStep, NumberedStep, GlobalSnapshotStep, LocalSnapshotStep, PassStep, CertificateStep
  DEF Inv

\* The inductive invariant of the shared field.
LEMMA InvCorrect == Spec => []Inv
  BY InvInit, InvStep, PTL DEF Spec

\* A job that would still be accepted has seen inputs at least as expensive as
\* those of now, a local one exactly those and exactly the owned cells: what
\* commit_global_job and commit_local_job compare is enough.
THEOREM AcceptedSnapshotsAreCurrent == Spec => []SnapshotsAreCurrent
<1>1. Inv => SnapshotsAreCurrent
  BY DEF Inv, GlobalSnapshot, LocalSnapshot, LocalCurrent, LocalSeen, SnapshotsAreCurrent
<1>. QED
  BY <1>1, InvCorrect, PTL

\* A certificate is never stale: while it stands, no Bellman update of an owned
\* state would change its value or its action.
THEOREM CertificatesHold == Spec => []CertifiedIsFixpoint
<1>1. Inv => CertifiedIsFixpoint
  BY DEF Inv, Certificate, CertifiedIsFixpoint
<1>. QED
  BY <1>1, InvCorrect, PTL

\* The region changes hands only by a new claim or by its holder's own release:
\* a superseded thread cannot release its successor.
THEOREM RegionIsKept == Spec => SuccessorKeepsRegion
<1>. DEFINE Kept == (owner # 0 /\ owner' # owner) =>
                       \/ owner' > serial
                       \/ \E f \in Follower : claim[f] = owner /\ claim'[f] = 0
<1>1. TypeOK /\ [Next]_vars => [Kept]_vars
  <2>. SUFFICES ASSUME TypeOK, Step, owner' # owner, owner # 0
                PROVE  \/ owner' > serial
                       \/ \E f \in Follower : claim[f] = owner /\ claim'[f] = 0
    BY StepCases
  <2>1. PICK f \in Follower : ClaimLocal(f) \/ ReleaseLocal(f)
    BY DEF Step, Reload, InvalidateGlobalJobs, Observation, Tick, Invalidation,
           AdvanceInvalidations, GlobalWorker, PrepareGlobalJob, RunGlobal, CommitGlobalJob,
           RejectGlobalJob, LocalWorker, PrepareLocalJob, RunLocal, CommitLocalJob,
           RejectLocalJob, vars
  <2>2. CASE ClaimLocal(f)
    BY <2>2 DEF ClaimLocal, TypeOK
  <2>3. CASE ReleaseLocal(f)
    BY <2>3 DEF ReleaseLocal, TypeOK
  <2>. QED
    BY <2>1, <2>2, <2>3
<1>. QED
  BY <1>1, TypeInit, TypeStep, PTL DEF Spec, SuccessorKeepsRegion

-----------------------------------------------------------------------------
(* A settled field.  That nothing is forgotten is an invariant of the queues: *)
(* a state that an update would change is waiting in one of them, and a       *)
(* global batch carries its share away and brings it back.                    *)
(*                                                                            *)
(* There are two ways past the queues.  A solver may return a field that an   *)
(* update would change (it is loaded without being queued), and a batch that  *)
(* leaves out the cells the window has taken over (core/global.rs:195)        *)
(* publishes what it computed from them.  The history variable unsure names   *)
(* the cells concerned, and nothing else is ever in it.                       *)

VARIABLE unsure

\* The cells somebody will look at again.
Waiting ==
    Dilate(pending) \cup cands \cup deferred \cup (IF certified THEN {} ELSE owned)

InBatch(c) == inFlight # 0 /\ inFlight = gjob.id /\ c \in gjob.cells

Vouched(c) == c \in Waiting \/ InBatch(c) \/ (certified /\ c \in owned)

\* An update of the loaded field would change something at c.
Wrong(c) == goal # None /\ \E th \in Theta : ~Consistent(<<c, th>>)

\* The batch that comes back has computed c from a cell it does not publish.
Stale(c) ==
    /\ CommitGlobalJob
    /\ c \in gjob.cells \ owned
    /\ \E d \in Near(c) \cap gjob.cells \cap owned : Moved(d, gpass)

\* A cell gets into the ledger when a field is loaded or a batch returns, if it
\* is wrong and nobody will look at it; it stays until somebody does, or until
\* the next field.
Enters(c) == (Reload \/ Stale(c)) /\ Wrong(c)'
Stays(c) == c \in unsure /\ ~Reload
Ledger == unsure' = {c \in Cell : (Enters(c) \/ Stays(c)) /\ ~Vouched(c)'}

ledgerVars == <<vars, unsure>>

\* Spec with the ledger kept beside it: unsure occurs in no guard, so every
\* behaviour of Spec is one of LedgerSpec for exactly one value of it.
LedgerSpec == Init /\ unsure = {} /\ [][Next /\ Ledger]_ledgerVars

\* A state that an update would change is looked at again, or in the ledger.
Covered ==
    goal # None =>
        \A s \in State :
            s[1] \in unsure \/ Consistent(s) \/ s[1] \in Waiting \/ InBatch(s[1])

\* dirty is up as long as a queue holds a cell.
Queued == ~dirty => pending = {} /\ cands = {}

\* What has changed under a batch that would be accepted is queued.
GlobalSeen ==
    (gjob # None /\ GlobalJobCurrent) =>
        /\ goal # None /\ gjob.final = Final[goal]
        /\ \A c \in Cell : c \in pending \/ Unchanged(c)

\* The values a global pass starts from.
JobRepaired ==
    [s \in State |->
        IF PolicyInvalidated(gjob.val[s], gjob.act[s], gjob.free[s[1]], s \in gjob.final)
        THEN MaxCost ELSE gjob.val[s]]

\* A global pass moves the values of its cells only, each once; what it has
\* stored for s is one update of the snapshot unless something s reads moved.
GlobalPass ==
    gjob # None =>
        /\ \A s \in gpass.todo : s[1] \in gjob.cells
        /\ \A s \in State :
              (s \in gpass.todo \/ s[1] \notin gjob.cells) =>
                  gpass.val[s] = JobRepaired[s]
        /\ \A s \in State :
              (s[1] \in gjob.cells /\ s \notin gpass.todo
               /\ Updatable(s, gjob.free, gjob.final)) =>
                  /\ gpass.act[s] = None <=> gpass.val[s] = MaxCost
                  /\ (\A t \in State : t[1] \in Near(s[1]) => gpass.val[t] = JobRepaired[t]) =>
                        MinActionCost(s, JobRepaired, gjob.free, gjob.pen)
                          = [cost |-> gpass.val[s], action |-> gpass.act[s]]

QueueInv == Inv /\ Queued /\ GlobalSeen /\ GlobalPass /\ Covered

\* A field that is not dirty is a fixed point everywhere but in the ledger.
SettledIsSound ==
    (goal # None /\ ~IsDirty) => \A s \in State : s[1] \in unsure \/ Consistent(s)

\* Where neither the field nor the inputs around a state change, an update of
\* it is worth what it was worth.
LEMMA Undisturbed ==
    ASSUME NEW s \in State, goal' = goal,
           \A t \in State : t[1] \in Near(s[1]) => val'[t] = val[t] /\ act'[t] = act[t],
           \A c \in Near(s[1]) : free'[c] = free[c] /\ pen'[c] = pen[c],
           Consistent(s)
    PROVE  Consistent(s)'
<1>0. s[1] \in Near(s[1])
  BY DilateContains DEF State
<1>1. val'[s] = val[s] /\ act'[s] = act[s] /\ free'[s[1]] = free[s[1]]
  BY <1>0
<1>2. ASSUME NEW t \in State, t[1] \in Near(s[1]) PROVE Repaired'[t] = Repaired[t]
  <2>1. val'[t] = val[t] /\ act'[t] = act[t] /\ free'[t[1]] = free[t[1]]
    BY <1>2
  <2>. QED
    BY <2>1 DEF Repaired
<1>. DEFINE v == Repaired
            w == Repaired'
            f == free'
            p == pen'
<1>3. \A t \in State : t[1] \in Near(s[1]) => v[t] = w[t]
  BY <1>2
<1>4. \A c \in Near(s[1]) : free[c] = f[c] /\ pen[c] = p[c]
  OBVIOUS
<1>. HIDE DEF v, w, f, p
<1>5. MinActionCost(s, v, free, pen) = MinActionCost(s, w, f, p)
  BY <1>3, <1>4, CostsDependOnNear
<1>6. Updatable(s, free', Final[goal']) = Updatable(s, free, Final[goal])
  BY <1>1 DEF Updatable
<1>. QED
  BY <1>1, <1>5, <1>6 DEF Consistent, v, w, f, p

\* A step that queues every cell it changes leaves the states outside the
\* halo of the queue as consistent as they were.
LEMMA Disturbed ==
    ASSUME NEW s \in State, NEW D, D \subseteq Cell, goal' = goal,
           \A t \in State : t[1] \notin D => val'[t] = val[t] /\ act'[t] = act[t],
           \A c \in Cell \ D : free'[c] = free[c] /\ pen'[c] = pen[c],
           s[1] \notin Dilate(D), Consistent(s)
    PROVE  Consistent(s)'
<1>1. s[1] \in Cell
  BY DEF State
<1>2. \A c \in Near(s[1]) : c \notin D /\ c \in Cell
  BY <1>1, DilateContains DEF Near
<1>3. \A t \in State : t[1] \in Near(s[1]) => val'[t] = val[t] /\ act'[t] = act[t]
  BY <1>2
<1>4. \A c \in Near(s[1]) : free'[c] = free[c] /\ pen'[c] = pen[c]
  BY <1>2
<1>. QED
  BY <1>3, <1>4, Undisturbed

\* A cell leaves the ledger only for somebody who looks at it, or with the field.
LEMMA LedgerKeeps ==
    ASSUME Ledger \/ UNCHANGED ledgerVars, NEW c \in Cell, c \notin unsure',
           ~Vouched(c)', ~Reload
    PROVE  c \notin unsure
  BY DEF Ledger, ledgerVars, Stays

\* What is taken out of one queue is put into another.
LEMMA CoveredSame ==
    ASSUME TypeOK, TypeOK', Certificate', Covered, goal' = goal,
           Ledger \/ UNCHANGED ledgerVars, ~Reload,
           \A t \in State : t[1] \notin pending' => val'[t] = val[t] /\ act'[t] = act[t],
           \A c \in Cell \ pending' : free'[c] = free[c] /\ pen'[c] = pen[c],
           pending \subseteq pending', cands \subseteq cands',
           \A c \in Cell : InBatch(c) => c \in pending' \/ InBatch(c)',
           \A c \in deferred : c \in pending' \/ c \in deferred' \/ (certified' /\ c \in owned'),
           \A c \in owned : certified \/ c \in pending' \/ c \in owned'
    PROVE  Covered'
<1>. SUFFICES ASSUME goal' # None, NEW s \in State, s[1] \notin unsure',
                     s[1] \notin Waiting', ~InBatch(s[1])'
              PROVE  Consistent(s)'
  BY DEF Covered
<1>1. pending' \subseteq Cell /\ s[1] \in Cell
  BY DEF TypeOK, State
<1>2. pending' \subseteq Dilate(pending') /\ Dilate(pending) \subseteq Dilate(pending')
  BY <1>1, DilateContains DEF Dilate
<1>3. s[1] \notin Dilate(pending') /\ s[1] \notin cands' /\ s[1] \notin deferred'
  BY DEF Waiting
<1>4. s[1] \notin pending'
  BY <1>2, <1>3
<1>5. CASE certified' /\ s[1] \in owned'
  BY <1>5 DEF Certificate
<1>6. CASE ~(certified' /\ s[1] \in owned')
  <2>1. s[1] \notin owned'
    BY <1>6 DEF Waiting
  <2>2. s[1] \notin Waiting
    BY <1>2, <1>3, <1>4, <2>1 DEF Waiting
  <2>3. ~InBatch(s[1])
    BY <1>1, <1>4
  <2>4. s[1] \notin unsure
    BY <1>1, <1>6, LedgerKeeps DEF Vouched
  <2>5. Consistent(s)
    BY <2>2, <2>3, <2>4 DEF Covered
  <2>. DEFINE D == pending'
  <2>6. /\ \A t \in State : t[1] \notin D => val'[t] = val[t] /\ act'[t] = act[t]
        /\ \A c \in Cell \ D : free'[c] = free[c] /\ pen'[c] = pen[c]
        /\ s[1] \notin Dilate(D) /\ D \subseteq Cell
    BY <1>1, <1>3
  <2>. HIDE DEF D
  <2>. QED
    BY <2>5, <2>6, Disturbed
<1>. QED
  BY <1>5, <1>6

\* Every step that queues a cell raises dirty, and the commits compute it anew.
LEMMA QueuedStep == TypeOK /\ Queued /\ [Next]_vars => Queued'
<1>. SUFFICES ASSUME TypeOK, Queued, Step, ~dirty' PROVE pending' = {} /\ cands' = {}
  BY StepCases DEF Queued
<1>. USE DEF Queued
<1>1. CASE Reload
  BY <1>1 DEF Reload, InvalidateGlobalJobs, Unload, Load
<1>2. ASSUME NEW f \in Follower, ClaimLocal(f) PROVE pending' = {} /\ cands' = {}
  BY <1>2 DEF ClaimLocal, UpdateLocalOwnership
<1>3. ASSUME NEW f \in Follower, ReleaseLocal(f) PROVE pending' = {} /\ cands' = {}
  <2>1. CASE owner = claim[f]
    BY <1>3, <2>1 DEF ReleaseLocal, UpdateLocalOwnership
  <2>2. CASE owner # claim[f]
    <3>1. dirty' = dirty /\ pending' = pending /\ cands' = cands
      BY <1>3, <2>2 DEF ReleaseLocal
    <3>. QED
      BY <3>1
  <2>. QED
    BY <2>1, <2>2
<1>4. ASSUME NEW w, NEW f, NEW p, Observation(w, f, p) PROVE pending' = {} /\ cands' = {}
  BY <1>4 DEF Observation, Tick, UpdateLocalOwnership
<1>5. ASSUME NEW s \in State, AdvanceInvalidations(s) PROVE pending' = {} /\ cands' = {}
  <2>. DEFINE hit == IF goal = None THEN {} ELSE Dependents(s)
  <2>1. /\ pending' = pending \cup {p[1] : p \in hit} /\ dirty' = (dirty \/ hit # {})
        /\ cands' = cands
    BY <1>5 DEF AdvanceInvalidations
  <2>. HIDE DEF hit
  <2>. QED
    BY <2>1
<1>6. CASE PrepareGlobalJob
  BY <1>6 DEF PrepareGlobalJob
<1>7. ASSUME NEW s \in State, RunGlobal(s) \/ RunLocal(s) PROVE pending' = {} /\ cands' = {}
  BY <1>7 DEF RunGlobal, RunLocal
<1>8. CASE CommitGlobalJob \/ CommitLocalJob
  <2>1. dirty' = ~Settled'
    BY <1>8 DEF CommitGlobalJob, CommitLocalJob, SettleGlobal
  <2>. QED
    BY <2>1 DEF Settled, GlobalQueued
<1>9. CASE RejectGlobalJob
  <2>1. CASE inFlight = gjob.id
    BY <1>9, <2>1 DEF RejectGlobalJob
  <2>2. CASE inFlight # gjob.id
    BY <1>9, <2>2 DEF RejectGlobalJob
  <2>. QED
    BY <2>1, <2>2
<1>10. CASE PrepareLocalJob \/ RejectLocalJob
  BY <1>10 DEF PrepareLocalJob, RejectLocalJob
<1>11. CASE UNCHANGED vars
  BY <1>11 DEF vars
<1>. QED
  BY <1>1, <1>2, <1>3, <1>4, <1>5, <1>6, <1>7, <1>8, <1>9, <1>10, <1>11
  DEF Step, Invalidation, GlobalWorker, LocalWorker

\* A change under an outstanding batch is queued, or the batch is out of date.
LEMMA GlobalSeenStep == TypeOK /\ Numbered /\ GlobalSeen /\ [Next]_vars => GlobalSeen'
<1>. DEFINE Seen == /\ goal' # None /\ gjob'.final = Final[goal']
                    /\ \A c \in Cell : c \in pending' \/ Unchanged(c)'
<1>. SUFFICES ASSUME TypeOK, Numbered, GlobalSeen, Step, gjob' # None, GlobalJobCurrent'
              PROVE  Seen
  BY StepCases DEF GlobalSeen
<1>a. ASSUME gjob' = gjob, goal' = goal, epoch' = epoch, inFlight' = inFlight,
             pending \subseteq pending',
             \A c \in Cell \ pending' :
                /\ free'[c] = free[c] /\ pen'[c] = pen[c]
                /\ \A th \in Theta : val'[<<c, th>>] = val[<<c, th>>] /\ act'[<<c, th>>] = act[<<c, th>>]
      PROVE  Seen
  <2>1. GlobalJobCurrent /\ gjob # None
    BY <1>a DEF GlobalJobCurrent
  <2>2. \A c \in Cell : c \in pending' \/ Unchanged(c)
    BY <1>a, <2>1 DEF GlobalSeen
  <2>3. \A c \in Cell : c \in pending' \/ Unchanged(c)'
    BY <1>a, <2>2 DEF Unchanged
  <2>. QED
    BY <1>a, <2>1, <2>3 DEF GlobalSeen
<1>1. CASE Reload
  BY <1>1 DEF Reload, InvalidateGlobalJobs, TypeOK, GlobalJob, GlobalJobCurrent
<1>2. ASSUME NEW f \in Follower, ClaimLocal(f) PROVE Seen
  BY <1>2, <1>a DEF ClaimLocal, UpdateLocalOwnership
<1>3. ASSUME NEW f \in Follower, ReleaseLocal(f) PROVE Seen
  BY <1>3, <1>a DEF ReleaseLocal, UpdateLocalOwnership
<1>4. ASSUME NEW w \in SUBSET Cell, NEW f \in [Cell -> BOOLEAN], NEW p \in [Cell -> Nat],
             Observation(w, f, p)
      PROVE  Seen
  <2>. DEFINE up == {d \in w : free[d] /\ (~f[d] \/ p[d] > pen[d])}
  <2>1. /\ gjob' = gjob /\ inFlight' = inFlight /\ goal' = goal /\ val' = val /\ act' = act
        /\ free' = f /\ pen' = p /\ QueueCostIncreases(up)
    BY <1>4 DEF Observation, Tick
  <2>2. gjob.epoch \in Nat /\ gjob.epoch <= epoch /\ epoch \in Nat
    BY <2>1 DEF Numbered, TypeOK, GlobalJob
  <2>3. epoch' = epoch
    BY <2>1, <2>2 DEF QueueCostIncreases, GlobalJobCurrent
  <2>4. pending \subseteq pending' /\ (<<f, p>> # <<free, pen>> => w \subseteq pending')
    BY <1>4 DEF Observation, Tick, UpdateLocalOwnership
  <2>5. \A c \in Cell \ pending' : f[c] = free[c] /\ p[c] = pen[c]
    BY <1>4, <2>4 DEF Observation
  <2>. HIDE DEF Seen
  <2>. QED
    BY <1>a, <2>1, <2>3, <2>4, <2>5
<1>5. ASSUME NEW s \in State, AdvanceInvalidations(s) PROVE Seen
  <2>. DEFINE hit == IF goal = None THEN {} ELSE Dependents(s)
  <2>1. /\ act' = [p \in State |-> IF p \in hit THEN None ELSE act[p]]
        /\ pending' = pending \cup {p[1] : p \in hit}
        /\ gjob' = gjob /\ goal' = goal /\ epoch' = epoch /\ inFlight' = inFlight
        /\ val' = val /\ free' = free /\ pen' = pen
    BY <1>5 DEF AdvanceInvalidations
  <2>. HIDE DEF hit, Seen
  <2>2. ASSUME NEW c \in Cell \ pending', NEW th \in Theta PROVE act'[<<c, th>>] = act[<<c, th>>]
    <3>1. <<c, th>> \in State /\ <<c, th>>[1] = c
      BY DEF State
    <3>2. <<c, th>> \notin hit
      BY <2>1, <3>1
    <3>. QED
      BY <2>1, <3>1, <3>2
  <2>. QED
    BY <1>a, <2>1, <2>2
<1>6. CASE PrepareGlobalJob
  <2>1. /\ gjob'.free = free /\ gjob'.pen = pen /\ gjob'.val = val /\ gjob'.act = act
        /\ gjob'.final = Final[goal] /\ goal' = goal /\ goal # None
        /\ val' = val /\ act' = act /\ free' = free /\ pen' = pen
    BY <1>6 DEF PrepareGlobalJob
  <2>. QED
    BY <2>1 DEF Unchanged
<1>7. ASSUME NEW s \in State, RunGlobal(s) \/ RunLocal(s) PROVE Seen
  BY <1>7, <1>a DEF RunGlobal, RunLocal
<1>8. CASE CommitGlobalJob \/ RejectGlobalJob
  BY <1>8 DEF CommitGlobalJob, RejectGlobalJob
<1>9. CASE PrepareLocalJob \/ RejectLocalJob
  BY <1>9, <1>a DEF PrepareLocalJob, RejectLocalJob
<1>10. CASE CommitLocalJob
  <2>1. /\ pending' = pending \cup {c \in ljob.cells : Moved(c, lpass)}
        /\ Publish(ljob.cells, lpass)
        /\ gjob' = gjob /\ goal' = goal /\ epoch' = epoch /\ inFlight' = inFlight
        /\ free' = free /\ pen' = pen
    BY <1>10 DEF CommitLocalJob
  <2>. HIDE DEF Seen
  <2>2. ASSUME NEW c \in Cell \ pending', NEW th \in Theta
        PROVE  val'[<<c, th>>] = val[<<c, th>>] /\ act'[<<c, th>>] = act[<<c, th>>]
    <3>1. <<c, th>> \in State /\ <<c, th>>[1] = c
      BY DEF State
    <3>2. c \notin ljob.cells \/ ~Moved(c, lpass)
      BY <2>1
    <3>3. c \in ljob.cells => lpass.val[<<c, th>>] = val[<<c, th>>] /\ lpass.act[<<c, th>>] = act[<<c, th>>]
      BY <3>2 DEF Moved
    <3>. QED
      BY <2>1, <3>1, <3>3 DEF Publish
  <2>. QED
    BY <1>a, <2>1, <2>2
<1>11. CASE UNCHANGED vars
  BY <1>11, <1>a DEF vars
<1>. QED
  BY <1>1, <1>2, <1>3, <1>4, <1>5, <1>6, <1>7, <1>8, <1>9, <1>10, <1>11
  DEF Step, Invalidation, GlobalWorker, LocalWorker

\* A global pass visits each of its states once, so what it has moved is
\* different from the snapshot to the end.
LEMMA GlobalPassStep == TypeOK /\ GlobalPass /\ [Next]_vars => GlobalPass'
<1>. SUFFICES ASSUME TypeOK, GlobalPass, Step PROVE GlobalPass'
  BY StepCases
<1>a. ASSUME gjob' = gjob, gpass' = gpass PROVE GlobalPass'
  BY <1>a DEF GlobalPass, JobRepaired, Updatable
<1>b. ASSUME gjob' = None PROVE GlobalPass'
  BY <1>b DEF GlobalPass
<1>1. CASE Reload
  BY <1>1, <1>a DEF Reload, InvalidateGlobalJobs
<1>2. ASSUME NEW f \in Follower, ClaimLocal(f) \/ ReleaseLocal(f) PROVE GlobalPass'
  BY <1>2, <1>a DEF ClaimLocal, ReleaseLocal
<1>3. ASSUME NEW w, NEW f, NEW p, Observation(w, f, p) PROVE GlobalPass'
  BY <1>3, <1>a DEF Observation, Tick
<1>4. CASE Invalidation
  BY <1>4, <1>a DEF Invalidation, AdvanceInvalidations
<1>5. CASE PrepareGlobalJob
  <2>1. /\ gjob'.val = val /\ gjob'.act = act /\ gjob'.free = free /\ gjob'.final = Final[goal]
        /\ gpass'.todo = {s \in State : s[1] \in gjob'.cells} /\ gpass'.val = Repaired
    BY <1>5 DEF PrepareGlobalJob
  <2>2. JobRepaired' = Repaired
    BY <2>1 DEF JobRepaired, Repaired
  <2>. QED
    BY <2>1, <2>2 DEF GlobalPass
<1>6. ASSUME NEW s \in State, RunGlobal(s) PROVE GlobalPass'
  <2>. DEFINE b == MinActionCost(s, gpass.val, gjob.free, gjob.pen)
              upd == Updatable(s, gjob.free, gjob.final)
  <2>1. /\ gjob' = gjob /\ gjob # None /\ s \in gpass.todo
        /\ gpass'.todo = gpass.todo \ {s}
        /\ gpass'.val = [gpass.val EXCEPT ![s] = IF upd THEN b.cost ELSE gpass.val[s]]
        /\ gpass'.act = [gpass.act EXCEPT ![s] = IF upd THEN b.action ELSE gpass.act[s]]
    BY <1>6 DEF RunGlobal, Visit
  <2>2. /\ gpass.val \in [State -> Cost] /\ gpass.todo \subseteq State
        /\ gpass.act \in [State -> Action \cup {None}]
    BY <2>1 DEF TypeOK, Pass, Actions
  <2>b. b = [cost |-> b.cost, action |-> b.action] /\ (b.action = None <=> b.cost = MaxCost)
    BY MinActionCostType
  <2>3. JobRepaired' = JobRepaired
    BY <2>1 DEF JobRepaired
  <2>. HIDE DEF b, upd
  <2>4. \A t \in State : t # s => gpass'.val[t] = gpass.val[t] /\ gpass'.act[t] = gpass.act[t]
    BY <2>1, <2>2
  <2>5. gpass.val[s] = JobRepaired[s]
    BY <2>1 DEF GlobalPass
  <2>6. ASSUME NEW t \in State, t \in gpass'.todo \/ t[1] \notin gjob.cells
        PROVE  gpass'.val[t] = JobRepaired[t]
    <3>1. CASE t # s
      BY <2>1, <2>4, <2>6, <3>1 DEF GlobalPass
    <3>2. CASE t = s
      <4>1. t[1] \in gjob.cells
        BY <2>1, <3>2 DEF GlobalPass
      <4>. QED
        BY <2>1, <2>6, <3>2, <4>1
    <3>. QED
      BY <3>1, <3>2
  <2>7. ASSUME NEW t \in State, t[1] \in gjob.cells, t \notin gpass'.todo,
               Updatable(t, gjob.free, gjob.final)
        PROVE  /\ gpass'.act[t] = None <=> gpass'.val[t] = MaxCost
               /\ (\A u \in State : u[1] \in Near(t[1]) => gpass'.val[u] = JobRepaired[u]) =>
                     MinActionCost(t, JobRepaired, gjob.free, gjob.pen)
                       = [cost |-> gpass'.val[t], action |-> gpass'.act[t]]
    <3>1. ASSUME \A u \in State : u[1] \in Near(t[1]) => gpass'.val[u] = JobRepaired[u]
          PROVE  \A u \in State : u[1] \in Near(t[1]) => gpass.val[u] = JobRepaired[u]
      BY <2>4, <2>5, <3>1
    <3>2. CASE t # s
      <4>1. t \notin gpass.todo
        BY <2>1, <2>7, <3>2
      <4>. QED
        BY <2>1, <2>4, <2>7, <3>1, <3>2, <4>1 DEF GlobalPass
    <3>3. CASE t = s
      <4>1. gpass'.val[s] = b.cost /\ gpass'.act[s] = b.action
        BY <2>1, <2>2, <2>7, <3>3 DEF upd
      <4>2. ASSUME \A u \in State : u[1] \in Near(t[1]) => gpass'.val[u] = JobRepaired[u]
            PROVE  MinActionCost(s, JobRepaired, gjob.free, gjob.pen) = b
        <5>1. \A u \in State : u[1] \in Near(s[1]) => JobRepaired[u] = gpass.val[u]
          BY <3>1, <3>3, <4>2
        <5>. QED
          BY <5>1, CostsDependOnNear DEF b
      <4>. QED
        BY <2>b, <3>3, <4>1, <4>2
    <3>. QED
      BY <3>2, <3>3
  <2>8. \A t \in gpass'.todo : t[1] \in gjob.cells
    BY <2>1 DEF GlobalPass
  <2>. QED
    BY <2>1, <2>3, <2>6, <2>7, <2>8 DEF GlobalPass, Updatable
<1>7. CASE CommitGlobalJob \/ RejectGlobalJob
  BY <1>7, <1>b DEF CommitGlobalJob, RejectGlobalJob
<1>8. CASE LocalWorker
  BY <1>8, <1>a DEF LocalWorker, PrepareLocalJob, RunLocal, CommitLocalJob, RejectLocalJob
<1>9. CASE UNCHANGED vars
  BY <1>9, <1>a DEF vars
<1>. QED
  BY <1>1, <1>2, <1>3, <1>4, <1>5, <1>6, <1>7, <1>8, <1>9 DEF Step, GlobalWorker

\* Loading a field: a partial one is queued whole, and what is wrong in a solved
\* one is in the ledger.
LEMMA CoveredLoad ==
    ASSUME TypeOK, TypeOK', Reload, Ledger
    PROVE  Covered'
<1>. SUFFICES ASSUME goal' # None, NEW s \in State, s[1] \notin Waiting', ~InBatch(s[1])',
                     ~Consistent(s)'
              PROVE  s[1] \in unsure'
  BY DEF Covered
<1>1. s[1] \in Cell /\ s[2] \in Theta /\ s = <<s[1], s[2]>>
  BY DEF State
<1>2. Wrong(s[1])'
  BY <1>1 DEF Wrong
<1>3. ~Vouched(s[1])'
  BY DEF Vouched, Reload, InvalidateGlobalJobs
<1>. QED
  BY <1>1, <1>2, <1>3 DEF Ledger, Enters

\* Handing out a batch: its cells come from the candidates, and those that are
\* owned are deferred or certified.
LEMMA CoveredPrepare ==
    ASSUME TypeOK, TypeOK', Certificate, Covered, PrepareGlobalJob,
           Ledger \/ UNCHANGED ledgerVars, ~Reload
    PROVE  Covered'
<1>. SUFFICES ASSUME goal' # None, NEW s \in State, s[1] \notin unsure',
                     s[1] \notin Waiting', ~InBatch(s[1])'
              PROVE  Consistent(s)'
  BY DEF Covered
<1>. DEFINE seed == IF GlobalQueued THEN pending ELSE Cell
            round == IF cands = {} THEN Dilate(seed) ELSE cands
<1>1. PICK n \in Budgets :
         LET batch == Batch(round, n)
         IN  /\ pending' = (IF cands = {} THEN {} ELSE seed)
             /\ cands' = round \ batch
             /\ deferred' = IF certified THEN deferred
                            ELSE deferred \cup (batch \cap owned)
             /\ gjob' = [id |-> serial + 1, epoch |-> epoch,
                         cells |-> batch \ owned, val |-> val, act |-> act,
                         free |-> free, pen |-> pen, final |-> Final[goal]]
  BY DEF PrepareGlobalJob
<1>. DEFINE batch == Batch(round, n)
<1>2. /\ goal' = goal /\ val' = val /\ act' = act /\ free' = free /\ pen' = pen
      /\ owned' = owned /\ certified' = certified /\ inFlight' = serial + 1
      /\ inFlight = 0 /\ inFlight' # 0
  BY DEF PrepareGlobalJob, TypeOK
<1>3. gjob'.cells = batch \ owned /\ gjob'.id = serial + 1
  BY <1>1
<1>4. s[1] \notin batch \ owned
  BY <1>2, <1>3 DEF InBatch
<1>5. ASSUME Consistent(s) PROVE Consistent(s)'
  BY <1>2, <1>5, Undisturbed
<1>6. CASE s[1] \in owned
  <2>1. certified
    BY <1>2, <1>6 DEF Waiting
  <2>2. Consistent(s)
    BY <1>2, <1>6, <2>1 DEF Certificate
  <2>. QED
    BY <1>5, <2>2
<1>7. CASE s[1] \notin owned
  <2>1. s[1] \notin round
    BY <1>1, <1>4, <1>7 DEF Waiting
  <2>2. s[1] \notin cands /\ s[1] \notin Dilate(pending)
    <3>1. CASE cands = {}
      <4>1. pending # {} => GlobalQueued
        BY DEF GlobalQueued
      <4>2. Dilate({}) = {}
        BY DEF Dilate
      <4>. QED
        BY <2>1, <3>1, <4>1, <4>2
    <3>2. CASE cands # {}
      <4>1. pending' = pending
        BY <1>1, <3>2 DEF GlobalQueued
      <4>. QED
        BY <2>1, <3>2, <4>1 DEF Waiting
    <3>. QED
      BY <3>1, <3>2
  <2>3. s[1] \notin Waiting /\ ~InBatch(s[1])
    BY <1>2, <1>7, <2>2 DEF Waiting, InBatch, TypeOK
  <2>4. s[1] \notin unsure
    BY <1>2, <1>7, LedgerKeeps DEF Vouched, State
  <2>. QED
    BY <1>2, <1>5, <2>3, <2>4 DEF Covered
<1>. QED
  BY <1>6, <1>7

\* A batch comes back: outside the halo of what it moved or has to try again,
\* it publishes no change, so every state of it was updated from the field of
\* now unless something next to it was left out.
LEMMA CoveredCommit ==
    ASSUME TypeOK, TypeOK', Certificate', GlobalSeen, GlobalPass, Covered, CommitGlobalJob,
           Ledger, ~Reload
    PROVE  Covered'
<1>. SUFFICES ASSUME goal' # None, NEW s \in State, s[1] \notin unsure', s[1] \notin Waiting',
                     ~InBatch(s[1])'
              PROVE  Consistent(s)'
  BY DEF Covered
<1>. DEFINE fresh == {c \in gjob.cells \ owned : Unchanged(c)}
            retry == (gjob.cells \ owned) \ fresh
            changed == {c \in fresh : Moved(c, gpass)}
<1>1. /\ gjob # None /\ gpass.todo = {} /\ GlobalJobCurrent
      /\ Publish(fresh, gpass)
      /\ pending' = pending \cup changed \cup retry
      /\ goal' = goal /\ free' = free /\ pen' = pen /\ owned' = owned /\ cands' = cands
  BY DEF CommitGlobalJob
<1>2. s[1] \in Cell /\ pending' \subseteq Cell /\ gjob \in GlobalJob /\ gpass \in Pass
  BY <1>1 DEF State, TypeOK
<1>3. \A c \in Near(s[1]) : c \in Cell /\ c \notin pending'
  BY <1>2, DilateContains DEF Waiting, Near
<1>4. \A c \in Near(s[1]) : Unchanged(c) /\ (c \in gjob.cells \ owned => ~Moved(c, gpass))
  <2>1. \A c \in Near(s[1]) : c \notin pending /\ c \notin changed /\ c \notin retry
    BY <1>1, <1>3
  <2>2. \A c \in Near(s[1]) : Unchanged(c)
    BY <1>1, <1>3, <2>1 DEF GlobalSeen
  <2>. QED
    BY <2>1, <2>2
<1>. HIDE DEF fresh, retry, changed
<1>5. ASSUME NEW t \in State, t[1] \in Near(s[1])
      PROVE  /\ val'[t] = val[t] /\ act'[t] = act[t] /\ free[t[1]] = gjob.free[t[1]]
             /\ gjob.val[t] = val[t] /\ gjob.act[t] = act[t]
  <2>1. t[2] \in Theta /\ t = <<t[1], t[2]>>
    BY DEF State
  <2>2. gjob.val[t] = val[t] /\ gjob.act[t] = act[t] /\ free[t[1]] = gjob.free[t[1]]
    BY <1>4, <1>5, <2>1 DEF Unchanged
  <2>3. t[1] \in gjob.cells \ owned => gpass.val[t] = val[t] /\ gpass.act[t] = act[t]
    BY <1>4, <1>5, <2>1 DEF Moved
  <2>4. t[1] \in fresh => t[1] \in gjob.cells \ owned
    BY DEF fresh
  <2>. QED
    BY <1>1, <2>2, <2>3, <2>4 DEF Publish
<1>6. CASE s[1] \in owned
  <2>1. certified'
    BY <1>1, <1>6 DEF Waiting
  <2>. QED
    BY <1>1, <1>6, <2>1 DEF Certificate
<1>7. CASE s[1] \notin owned /\ s[1] \notin gjob.cells
  <2>1. Dilate(pending) \subseteq Dilate(pending')
    BY <1>1 DEF Dilate
  <2>2. s[1] \notin Waiting /\ ~InBatch(s[1])
    BY <1>1, <1>7, <2>1 DEF Waiting, InBatch, TypeOK
  <2>3. s[1] \notin unsure
    BY <1>1, <1>2, <1>7, LedgerKeeps DEF Vouched
  <2>4. Consistent(s)
    BY <1>1, <2>2, <2>3 DEF Covered
  <2>. QED
    BY <1>1, <1>5, <2>4, Undisturbed
<1>8. CASE s[1] \notin owned /\ s[1] \in gjob.cells
  <2>. SUFFICES ASSUME ~Consistent(s)' PROVE FALSE
    OBVIOUS
  <2>a. ~Stale(s[1])
    <3>1. Wrong(s[1])'
      <4>1. s[2] \in Theta /\ s = <<s[1], s[2]>>
        BY DEF State
      <4>. QED
        BY <4>1 DEF Wrong
    <3>2. ~Vouched(s[1])'
      BY <1>1, <1>8 DEF Vouched
    <3>. QED
      BY <1>2, <3>1, <3>2 DEF Ledger, Enters
  <2>b. \A c \in Near(s[1]) : c \in gjob.cells => ~Moved(c, gpass)
    BY <1>4, <1>8, <2>a DEF Stale
  <2>0. s[1] \in Near(s[1]) /\ MaxCost \in Nat /\ gjob.final = Final[goal]
    BY <1>1, <1>2, DilateContains, BellmanAssumption DEF GlobalSeen
  <2>c. ASSUME NEW t \in State, t[1] \in Near(s[1]), t[1] \in gjob.cells
        PROVE  gpass.val[t] = val[t] /\ gpass.act[t] = act[t]
    <3>1. t[2] \in Theta /\ t = <<t[1], t[2]>>
      BY DEF State
    <3>. QED
      BY <2>b, <2>c, <3>1 DEF Moved
  <2>1. val'[s] = gpass.val[s] /\ act'[s] = gpass.act[s] /\ free[s[1]] = gjob.free[s[1]]
    BY <1>5, <1>8, <2>0, <2>c
  <2>2. ASSUME NEW t \in State, t[1] \in Near(s[1]) PROVE gpass.val[t] = JobRepaired[t]
    <3>1. CASE t[1] \notin gjob.cells
      BY <1>1, <3>1 DEF GlobalPass
    <3>2. CASE t[1] \in gjob.cells
      <4>1. gpass.val[t] = gjob.val[t] /\ gpass.act[t] = gjob.act[t]
        BY <1>5, <2>2, <2>c, <3>2
      <4>2. Updatable(t, gjob.free, gjob.final) =>
              (gpass.act[t] = None <=> gpass.val[t] = MaxCost)
        BY <1>1, <3>2 DEF GlobalPass
      <4>3. ~PolicyInvalidated(gjob.val[t], gjob.act[t], gjob.free[t[1]], t \in gjob.final)
        BY <2>0, <4>1, <4>2 DEF PolicyInvalidated, Updatable
      <4>. QED
        BY <4>1, <4>3 DEF JobRepaired
    <3>. QED
      BY <3>1, <3>2
  <2>3. ASSUME NEW t \in State, t[1] \in Near(s[1]) PROVE Repaired'[t] = JobRepaired[t]
    <3>1. /\ val'[t] = gjob.val[t] /\ act'[t] = gjob.act[t]
          /\ free'[t[1]] = gjob.free[t[1]] /\ Final[goal'] = gjob.final
      BY <1>1, <1>5, <2>0, <2>3
    <3>. QED
      BY <3>1 DEF Repaired, JobRepaired
  <2>. DEFINE v == JobRepaired
              w == Repaired'
              f == gjob.free
              p == gjob.pen
  <2>4. \A t \in State : t[1] \in Near(s[1]) => v[t] = w[t]
    BY <2>3
  <2>5. \A c \in Near(s[1]) : f[c] = free[c] /\ p[c] = pen[c]
    BY <1>4 DEF Unchanged
  <2>6. Updatable(s, free, Final[goal]) =>
           MinActionCost(s, v, f, p) = [cost |-> gpass.val[s], action |-> gpass.act[s]]
    BY <1>1, <1>8, <2>0, <2>1, <2>2 DEF GlobalPass, Updatable
  <2>. HIDE DEF v, w, f, p
  <2>7. MinActionCost(s, v, f, p) = MinActionCost(s, w, free, pen)
    BY <2>4, <2>5, CostsDependOnNear
  <2>8. Updatable(s, free, Final[goal]) =>
           MinActionCost(s, w, free, pen) = [cost |-> val'[s], action |-> act'[s]]
    BY <2>1, <2>6, <2>7
  <2>9. Consistent(s)'
    BY <1>1, <2>8 DEF Consistent, Updatable, w
  <2>. QED
    BY <2>9
<1>. QED
  BY <1>6, <1>7, <1>8

\* Every step keeps track of what an update would change.
LEMMA CoveredStep ==
    QueueInv /\ Inv' /\ [Next /\ Ledger]_ledgerVars => Covered'
<1>. SUFFICES ASSUME QueueInv, Inv', [Next /\ Ledger]_ledgerVars PROVE Covered'
  OBVIOUS
<1>0. /\ TypeOK /\ TypeOK' /\ Certificate /\ Certificate' /\ Covered /\ GlobalSeen /\ GlobalPass
      /\ Step /\ deferred \subseteq owned /\ (Ledger \/ UNCHANGED ledgerVars)
  BY StepCases DEF QueueInv, Inv, TypeOK, ledgerVars
<1>1. CASE Reload
  <2>1. ~UNCHANGED ledgerVars
    BY <1>0, <1>1 DEF Reload, InvalidateGlobalJobs, ledgerVars, vars, TypeOK
  <2>. QED
    BY <1>0, <1>1, <2>1, CoveredLoad
<1>. SUFFICES ASSUME ~Reload PROVE Covered'
  BY <1>1
<1>. USE <1>0
<1>2. ASSUME NEW f \in Follower, ClaimLocal(f) PROVE Covered'
  <2>1. /\ goal' = goal /\ val' = val /\ act' = act /\ free' = free /\ pen' = pen
        /\ cands' = cands /\ inFlight' = inFlight /\ gjob' = gjob
    BY <1>2 DEF ClaimLocal
  <2>2. /\ pending \subseteq pending'
        /\ \A c \in deferred : c \in pending' \/ c \in deferred'
        /\ \A c \in owned : c \in pending' \/ c \in owned'
    BY <1>2 DEF ClaimLocal, UpdateLocalOwnership
  <2>. QED
    BY <2>1, <2>2, CoveredSame DEF InBatch
<1>3. ASSUME NEW f \in Follower, ReleaseLocal(f) PROVE Covered'
  <2>1. /\ goal' = goal /\ val' = val /\ act' = act /\ free' = free /\ pen' = pen
        /\ cands' = cands /\ inFlight' = inFlight /\ gjob' = gjob
    BY <1>3 DEF ReleaseLocal
  <2>2. /\ pending \subseteq pending'
        /\ \A c \in deferred : c \in pending' \/ c \in deferred'
        /\ \A c \in owned : certified \/ c \in pending' \/ c \in owned'
    BY <1>3 DEF ReleaseLocal, UpdateLocalOwnership
  <2>. QED
    BY <2>1, <2>2, CoveredSame DEF InBatch
<1>4. ASSUME NEW w \in SUBSET Cell, NEW f \in [Cell -> BOOLEAN], NEW p \in [Cell -> Nat],
             Observation(w, f, p)
      PROVE  Covered'
  <2>1. /\ goal' = goal /\ val' = val /\ act' = act /\ free' = f /\ pen' = p
        /\ cands' = cands /\ inFlight' = inFlight /\ gjob' = gjob
    BY <1>4 DEF Observation, Tick
  <2>2. /\ pending \subseteq pending'
        /\ \A c \in deferred : c \in pending' \/ c \in deferred'
        /\ \A c \in owned : certified \/ c \in pending' \/ c \in owned'
        /\ <<f, p>> # <<free, pen>> => w \subseteq pending'
    BY <1>4 DEF Observation, Tick, UpdateLocalOwnership
  <2>3. \A c \in Cell \ pending' : f[c] = free[c] /\ p[c] = pen[c]
    BY <1>4, <2>2 DEF Observation
  <2>. QED
    BY <2>1, <2>2, <2>3, CoveredSame DEF InBatch
<1>5. ASSUME NEW s \in State, AdvanceInvalidations(s) PROVE Covered'
  <2>. DEFINE hit == IF goal = None THEN {} ELSE Dependents(s)
  <2>1. /\ act' = [p \in State |-> IF p \in hit THEN None ELSE act[p]]
        /\ pending' = pending \cup {p[1] : p \in hit}
        /\ gjob' = gjob /\ goal' = goal /\ inFlight' = inFlight /\ cands' = cands
        /\ val' = val /\ free' = free /\ pen' = pen /\ deferred' = deferred /\ owned' = owned
    BY <1>5 DEF AdvanceInvalidations
  <2>. HIDE DEF hit
  <2>2. \A t \in State : t[1] \notin pending' => act'[t] = act[t]
    BY <2>1
  <2>. QED
    BY <2>1, <2>2, CoveredSame DEF InBatch
<1>6. CASE PrepareGlobalJob
  BY <1>6, CoveredPrepare
<1>7. ASSUME NEW s \in State, RunGlobal(s) \/ RunLocal(s) PROVE Covered'
  BY <1>7, CoveredSame DEF RunGlobal, RunLocal, InBatch
<1>8. CASE CommitGlobalJob
  <2>1. gjob' # gjob
    BY <1>8 DEF CommitGlobalJob
  <2>2. Ledger
    BY <2>1 DEF ledgerVars, vars
  <2>. QED
    BY <1>8, <2>2, CoveredCommit
<1>9. CASE RejectGlobalJob
  <2>1. /\ goal' = goal /\ val' = val /\ act' = act /\ free' = free /\ pen' = pen
        /\ cands' = cands /\ deferred' = deferred /\ owned' = owned
    BY <1>9 DEF RejectGlobalJob
  <2>2. pending \subseteq pending' /\ \A c \in Cell : InBatch(c) => c \in pending'
    BY <1>9 DEF RejectGlobalJob, InBatch
  <2>. QED
    BY <2>1, <2>2, CoveredSame
<1>10. CASE PrepareLocalJob \/ RejectLocalJob
  BY <1>10, CoveredSame DEF PrepareLocalJob, RejectLocalJob, InBatch
<1>11. CASE CommitLocalJob
  <2>1. /\ pending' = pending \cup {c \in ljob.cells : Moved(c, lpass)}
        /\ Publish(ljob.cells, lpass)
        /\ gjob' = gjob /\ goal' = goal /\ inFlight' = inFlight /\ cands' = cands
        /\ free' = free /\ pen' = pen /\ owned' = owned
        /\ deferred' = IF certified' THEN {} ELSE deferred
    BY <1>11 DEF CommitLocalJob
  <2>2. ASSUME NEW t \in State, t[1] \notin pending'
        PROVE  val'[t] = val[t] /\ act'[t] = act[t]
    <3>1. t[2] \in Theta /\ t = <<t[1], t[2]>>
      BY DEF State
    <3>2. t[1] \notin ljob.cells \/ ~Moved(t[1], lpass)
      BY <2>1, <2>2
    <3>3. t[1] \in ljob.cells => lpass.val[t] = val[t] /\ lpass.act[t] = act[t]
      BY <3>1, <3>2 DEF Moved
    <3>. QED
      BY <2>1, <3>3 DEF Publish
  <2>. QED
    BY <2>1, <2>2, CoveredSame DEF InBatch
<1>12. CASE UNCHANGED vars
  BY <1>12, CoveredSame DEF vars, InBatch
<1>. QED
  BY <1>1, <1>2, <1>3, <1>4, <1>5, <1>6, <1>7, <1>8, <1>9, <1>10, <1>11, <1>12
  DEF Step, Invalidation, GlobalWorker, LocalWorker

\* Nothing is loaded and nothing is queued at first.
LEMMA QueueInit == Init => QueueInv
  BY InvInit DEF Init, QueueInv, Queued, GlobalSeen, GlobalPass, Covered

\* The invariant of the queues is inductive.
LEMMA QueueStep == QueueInv /\ [Next /\ Ledger]_ledgerVars => QueueInv'
<1>. SUFFICES ASSUME QueueInv, [Next /\ Ledger]_ledgerVars PROVE QueueInv'
  OBVIOUS
<1>0. [Next]_vars
  BY DEF ledgerVars
<1>1. Inv' /\ TypeOK /\ Numbered
  BY <1>0, InvStep DEF QueueInv, Inv
<1>2. Queued' /\ GlobalSeen' /\ GlobalPass'
  BY <1>0, <1>1, QueuedStep, GlobalSeenStep, GlobalPassStep DEF QueueInv
<1>. QED
  BY <1>1, <1>2, CoveredStep DEF QueueInv

\* When dirty is down and nobody holds a job or a region without a certificate,
\* nothing waits any more.
LEMMA NothingWaits == QueueInv => SettledIsSound
<1>. SUFFICES ASSUME QueueInv, goal # None, ~IsDirty, NEW s \in State
              PROVE  s[1] \in unsure \/ Consistent(s)
  BY DEF SettledIsSound
<1>1. /\ inFlight = 0 /\ deferred = {} /\ (owned = {} \/ certified)
      /\ pending = {} /\ cands = {}
  BY DEF IsDirty, QueueInv, Queued
<1>2. s[1] \notin Waiting /\ ~InBatch(s[1])
  BY <1>1 DEF Waiting, Dilate, InBatch
<1>. QED
  BY <1>2 DEF QueueInv, Covered

\* No work is lost between a scan and the moment the field is called clean: a
\* field that is not dirty is a fixed point of the Bellman update everywhere
\* but at cells that were already wrong in the field as loaded, or that a batch
\* computed from a cell it then left out (core/global.rs:195), and that nobody
\* has looked at since.
THEOREM NothingIsLost == LedgerSpec => []SettledIsSound
<1>1. Init /\ unsure = {} => QueueInv
  BY QueueInit
<1>. QED
  BY <1>1, QueueStep, NothingWaits, PTL DEF LedgerSpec

\* mark_complete's claim: as long as neither of the two has left a wrong cell
\* behind, a field that is not dirty any more is a fixed point of the Bellman
\* operator, whatever was scanned, claimed, repaired and thrown away before.
THEOREM SettledFields == LedgerSpec => [](unsure = {} => SettledIsFixpoint)
<1>1. SettledIsSound => (unsure = {} => SettledIsFixpoint)
  BY DEF SettledIsSound, SettledIsFixpoint
<1>. QED
  BY <1>1, NothingIsLost, PTL

\* restart_global_check: an idle worker starts over with the whole map, and
\* with that every cell is in its batch, a candidate, deferred to the local
\* worker or certified: whatever was left behind before is looked at again.
THEOREM RecheckHeals ==
    LedgerSpec => [][PrepareGlobalJob /\ ~GlobalQueued => unsure' = {}]_ledgerVars
<1>1. ASSUME TypeOK, PrepareGlobalJob, ~GlobalQueued, Ledger
      PROVE  unsure' = {}
  <2>. SUFFICES ASSUME NEW c \in Cell PROVE Vouched(c)'
    BY <1>1 DEF Ledger
  <2>1. cands = {} /\ c \in Dilate(Cell)
    BY <1>1, DilateContains DEF GlobalQueued
  <2>2. PICK n \in Budgets :
           LET batch == Batch(Dilate(Cell), n)
           IN  /\ cands' = Dilate(Cell) \ batch
               /\ deferred' = IF certified THEN deferred
                              ELSE deferred \cup (batch \cap owned)
               /\ gjob' = [id |-> serial + 1, epoch |-> epoch,
                           cells |-> batch \ owned, val |-> val, act |-> act,
                           free |-> free, pen |-> pen, final |-> Final[goal]]
    BY <1>1, <2>1 DEF PrepareGlobalJob
  <2>. DEFINE batch == Batch(Dilate(Cell), n)
  <2>3. gjob'.id = serial + 1 /\ gjob'.cells = batch \ owned
    BY <2>2
  <2>4. /\ inFlight' = serial + 1 /\ inFlight' # 0
        /\ owned' = owned /\ certified' = certified
    BY <1>1 DEF PrepareGlobalJob, TypeOK
  <2>. HIDE DEF batch
  <2>5. CASE c \notin batch
    BY <2>1, <2>2, <2>5 DEF Vouched, Waiting, batch
  <2>6. CASE c \in batch \ owned
    BY <2>3, <2>4, <2>6 DEF Vouched, InBatch
  <2>7. CASE c \in batch \cap owned
    BY <2>2, <2>4, <2>7 DEF Vouched, Waiting, batch
  <2>. QED
    BY <2>5, <2>6, <2>7
<1>2. ASSUME TypeOK, [Next /\ Ledger]_ledgerVars
      PROVE  [PrepareGlobalJob /\ ~GlobalQueued => unsure' = {}]_ledgerVars
  BY <1>1, <1>2 DEF ledgerVars
<1>3. Init /\ unsure = {} => QueueInv
  BY QueueInit
<1>4. QueueInv => TypeOK
  BY DEF QueueInv, Inv
<1>. QED
  BY <1>2, <1>3, <1>4, QueueStep, PTL DEF LedgerSpec
=============================================================================
