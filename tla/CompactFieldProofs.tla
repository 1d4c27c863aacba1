------------------------- MODULE CompactFieldProofs -------------------------
(***************************************************************************)
(* The patch the robot follows is the shared field: for every map, every   *)
(* transition table, any number of follow threads and any sequence of      *)
(* observations, moves of the patch and commits of the two workers.        *)
(*                                                                         *)
(* No type is needed of what a pass computes: the argument is about who    *)
(* writes which cells, and reads no value.                                 *)
(***************************************************************************)
EXTENDS CompactField, TLAPS

USE DEF fieldVars, patchVars, ownVars

-----------------------------------------------------------------------------
(* The inductive invariant.                                                *)

\* The local worker owns cells of the window only, and all of it while there
\* is an owner and a patch.
Held ==
    /\ owned \subseteq window
    /\ owner # 0 /\ patch # None => owned = window

\* A local job that is in flight was prepared at an earlier or the present
\* revision, and if at the present one, for the cells that are owned now.
JobFits ==
    /\ serial \in Nat /\ localRev \in Nat /\ localInFlight \in 0 .. serial
    /\ ljob # None => ljob.id \in 1 .. serial
    /\ ljob # None /\ localInFlight = ljob.id =>
          /\ ljob.rev \in 0 .. localRev
          /\ ljob.rev = localRev => ljob.cells = owned

Inv == Held /\ WindowFits /\ JobFits /\ PatchIsSink

-----------------------------------------------------------------------------
(* What a tick finds.                                                      *)

\* A woken region shows the sink, and so does a patch that stays.
LEMMA RecentredIsSink ==
    ASSUME PatchIsSink, NEW g, NEW s \in State, s[1] \in Footprint(Recentred(g).at)
    PROVE  Recentred(g).val[s] = sink.val[s] /\ Recentred(g).act[s] = sink.act[s]
<1>1. CASE NeedsRecenter(g)
  BY <1>1 DEF Recentred, Hydrate, HydrateStates
<1>2. CASE ~NeedsRecenter(g)
  BY <1>2 DEF Recentred, NeedsRecenter, PatchIsSink
<1>. QED
  BY <1>1, <1>2

\* needs_recenter looks far enough: around a patch that stays, and around one
\* that was just woken, nothing the window can reach is missing.
LEMMA RecentredFits ==
    ASSUME WindowFits, NEW g \in Cell
    PROVE  /\ Recentred(g).at \in Int \X Int
           /\ \A c \in Window(g) : Near(c) \subseteq Footprint(Recentred(g).at)
<1>. DEFINE at == Recentred(g).at
<1>0. /\ g[1] \in Int /\ g[2] \in Int
      /\ Reach \in Nat /\ WinRange \in Nat /\ Half \in Int /\ WinRange + Reach < Half
  BY BellmanAssumption, CompactAssumption DEF Cell, Half
<1>1. /\ at \in Int \X Int
      /\ \A i \in 1 .. 2 : at[i] <= g[i] - (WinRange + Reach)
      /\ \A i \in 1 .. 2 : g[i] - at[i] + (WinRange + Reach) <= 2 * Half
  <2>1. CASE NeedsRecenter(g)
    <3>1. at = <<g[1] - Half, g[2] - Half>>
      BY <2>1 DEF Recentred, Hydrate, HydrateStates
    <3>. QED
      BY <3>1, <1>0
  <2>2. CASE ~NeedsRecenter(g)
    <3>1. at = patch.at /\ patch # None
      BY <2>2 DEF Recentred, NeedsRecenter
    <3>2. /\ patch.at[1] \in Int /\ patch.at[2] \in Int /\ patch.at \in Int \X Int
      BY <3>1 DEF WindowFits
    <3>3. \A i \in 1 .. 2 : ~(g[i] - (WinRange + Reach) < patch.at[i])
                         /\ ~(g[i] - patch.at[i] + (WinRange + Reach) > 2 * Half)
      BY <2>2 DEF NeedsRecenter
    <3>. QED
      BY <3>1, <3>2, <3>3, <1>0
  <2>. QED
    BY <2>1, <2>2
<1>. HIDE DEF at
<1>2. ASSUME NEW c \in Window(g), NEW d \in Near(c) PROVE d \in Footprint(at)
  <2>1. /\ c[1] \in Int /\ c[2] \in Int
        /\ c[1] - (g[1] - WinRange) \in 0 .. 2 * WinRange
        /\ c[2] - (g[2] - WinRange) \in 0 .. 2 * WinRange
    BY DEF Window, Within, Cell
  <2>2. /\ d \in Cell /\ d[1] \in Int /\ d[2] \in Int
        /\ d[1] - c[1] \in -Reach .. Reach /\ d[2] - c[2] \in -Reach .. Reach
    BY DEF Near, Cell
  <2>3. d[1] - at[1] \in 0 .. 2 * Half
    BY <2>1, <2>2, <1>0, <1>1
  <2>4. d[2] - at[2] \in 0 .. 2 * Half
    BY <2>1, <2>2, <1>0, <1>1
  <2>. QED
    BY <2>2, <2>3, <2>4 DEF Footprint, Within
<1>. QED
  BY <1>1, <1>2 DEF at

\* The three ways the follow thread changes the window are one: a tick with a
\* patch that has the values of the one it found.
Observation ==
    \E g \in Cell : \E p :
        /\ Tick(g, p)
        /\ p.at = Recentred(g).at /\ p.val = Recentred(g).val /\ p.act = Recentred(g).act

LEMMA Observations ==
    ASSUME NEW g \in Robot, SetWindow(g) \/ ObserveScan(g) \/ InflateBySigma(g)
    PROVE  Observation
<1>0. g \in Cell
  BY CompactAssumption
<1>1. CASE SetWindow(g)
  BY <1>0, <1>1 DEF SetWindow, Observation
<1>2. CASE ObserveScan(g)
  <2>1. PICK free, pen, lp : Tick(g, WithInputs(Recentred(g), free, pen, lp))
    BY <1>2, Zenon DEF ObserveScan
  <2>. QED
    BY <1>0, <2>1 DEF Observation, WithInputs
<1>3. CASE InflateBySigma(g)
  BY <1>0, <1>3 DEF InflateBySigma, Observation, WithInputs
<1>. QED
  BY <1>1, <1>2, <1>3
-----------------------------------------------------------------------------
(* Induction.                                                              *)

LEMMA InvInit == Init => Inv
<1>. SUFFICES ASSUME Init PROVE Inv
  OBVIOUS
<1>1. Held /\ WindowFits
  BY DEF Init, Held, WindowFits
<1>2. JobFits
  BY DEF Init, JobFits
<1>3. PatchIsSink
  BY DEF Init, PatchIsSink
<1>. QED
  BY <1>1, <1>2, <1>3 DEF Inv

\* A new region is a new revision, so a job in flight stays the owner's or
\* becomes out of date.
LEMMA OwnershipFits ==
    ASSUME JobFits, NEW own, NEW p, NEW w, NEW cert, NEW bumps \in Nat, NEW more,
           UpdateLocalOwnership(own, p, w, cert, bumps, more),
           serial' \in Nat, serial <= serial', localInFlight' \in {0, localInFlight},
           UNCHANGED ljob
    PROVE  /\ JobFits'
           /\ owned' \subseteq w
           /\ own # 0 /\ p # None => owned' = w
<1>1. owned' \subseteq w /\ (own # 0 /\ p # None => owned' = w)
  BY DEF UpdateLocalOwnership
<1>2. localRev' \in Nat /\ localRev <= localRev' /\ (owned' # owned => localRev < localRev')
  BY DEF UpdateLocalOwnership, JobFits
<1>3. JobFits'
  BY <1>2 DEF JobFits
<1>. QED
  BY <1>1, <1>3

\* Dropping the field, before the next one is loaded or because it is partial.
LEMMA ReloadInv ==
    ASSUME Inv, InvalidateGlobalJobs
    PROVE  Inv'
<1>1. Held' /\ WindowFits' /\ PatchIsSink'
  BY DEF InvalidateGlobalJobs, Held, WindowFits, PatchIsSink
<1>2. JobFits'
  BY DEF InvalidateGlobalJobs, Inv, JobFits
<1>. QED
  BY <1>1, <1>2 DEF Inv

\* Claiming and releasing the window.
LEMMA ClaimInv ==
    ASSUME Inv, NEW f \in Follower, ClaimLocal(f) \/ ReleaseLocal(f)
    PROVE  Inv'
<1>0. UNCHANGED <<patch, sink, window>>
  BY DEF ClaimLocal, ReleaseLocal
<1>1. WindowFits' /\ PatchIsSink'
  BY <1>0 DEF Inv, WindowFits, PatchIsSink
<1>2. CASE ClaimLocal(f)
  <2>1. JobFits' /\ owned' \subseteq window /\ (owner' # 0 /\ patch # None => owned' = window)
    <3>1. /\ UpdateLocalOwnership(serial + 1, patch, window, FALSE, 0, {})
          /\ owner' = serial + 1 /\ serial' = serial + 1 /\ localInFlight' = 0 /\ ljob' = ljob
      BY <1>2 DEF ClaimLocal
    <3>2. JobFits /\ serial \in Nat
      BY DEF Inv, JobFits
    <3>3. serial' \in Nat /\ serial <= serial' /\ localInFlight' \in {0, localInFlight}
      BY <3>1, <3>2
    <3>. DEFINE own == serial + 1
                cert == FALSE
                more == {}
    <3>4. UpdateLocalOwnership(own, patch, window, cert, 0, more) /\ owner' = own
      BY <3>1
    <3>. HIDE DEF own, cert, more
    <3>. QED
      BY <3>1, <3>2, <3>3, <3>4, OwnershipFits
  <2>. QED
    BY <1>0, <1>1, <2>1 DEF Inv, Held
<1>3. CASE ReleaseLocal(f) /\ owner = claim[f]
  <2>1. /\ JobFits' /\ owned' \subseteq window /\ owner' = 0
    BY <1>3, OwnershipFits DEF ReleaseLocal, Inv, JobFits
  <2>. QED
    BY <1>0, <1>1, <2>1 DEF Inv, Held
<1>4. CASE ReleaseLocal(f) /\ owner # claim[f]
  BY <1>0, <1>1, <1>4 DEF ReleaseLocal, Inv, Held, JobFits
<1>. QED
  BY <1>2, <1>3, <1>4

\* A tick: the patch stays or is woken from the sink, and the window is new.
LEMMA ObservationInv ==
    ASSUME Inv, Observation
    PROVE  Inv'
<1>0. PICK g \in Cell : \E p :
         /\ Tick(g, p)
         /\ p.at = Recentred(g).at /\ p.val = Recentred(g).val /\ p.act = Recentred(g).act
  BY DEF Observation
<1>1. PICK p :
         /\ Tick(g, p)
         /\ p.at = Recentred(g).at /\ p.val = Recentred(g).val /\ p.act = Recentred(g).act
  BY <1>0
<1>2. /\ patch' = p /\ window' = Window(g)
      /\ UNCHANGED <<sink, owner, serial, localInFlight, ljob>>
  BY <1>1 DEF Tick
<1>3. PatchIsSink'
  BY <1>1, <1>2, RecentredIsSink DEF Inv, PatchIsSink
<1>4. WindowFits'
  BY <1>1, <1>2, RecentredFits DEF Inv, WindowFits
<1>5. JobFits' /\ owned' \subseteq window' /\ (owner' # 0 /\ patch' # None => owned' = window')
  <2>. DEFINE moved == NeedsRecenter(g)
              fresh == p # Recentred(g)
              bumps == (IF moved THEN 1 ELSE 0) + (IF fresh THEN 1 ELSE 0)
              more == IF fresh THEN Window(g) ELSE {}
              cert == certified /\ ~moved /\ ~fresh
  <2>1. UpdateLocalOwnership(owner, p, Window(g), cert, bumps, more)
    BY <1>1 DEF Tick
  <2>2. bumps \in Nat
    OBVIOUS
  <2>3. /\ JobFits /\ serial' \in Nat /\ serial <= serial'
        /\ localInFlight' \in {0, localInFlight} /\ ljob' = ljob
    BY <1>2 DEF Inv, JobFits
  <2>. HIDE DEF moved, fresh, bumps, more, cert
  <2>4. JobFits' /\ owned' \subseteq Window(g) /\ (owner # 0 /\ p # None => owned' = Window(g))
    BY <2>1, <2>2, <2>3, OwnershipFits
  <2>. QED
    BY <1>2, <2>4
<1>. QED
  BY <1>3, <1>4, <1>5 DEF Inv, Held

\* A discarded policy is discarded in both copies.
LEMMA InvalidationInv ==
    ASSUME Inv, NEW s \in State, AdvanceInvalidations(s)
    PROVE  Inv'
<1>1. PICK hit : DiscardPolicies(hit)
  BY DEF AdvanceInvalidations
<1>0. UNCHANGED <<window, owner, owned, serial, localRev, localInFlight, ljob>>
  BY DEF AdvanceInvalidations
<1>2. patch' # None => patch # None /\ patch'.at = patch.at
  BY <1>1 DEF DiscardPolicies, WithField
<1>3. PatchIsSink'
  <2>. SUFFICES ASSUME patch' # None, NEW t \in State, t[1] \in Footprint(patch'.at)
                PROVE  patch'.val[t] = sink'.val[t] /\ patch'.act[t] = sink'.act[t]
    BY DEF PatchIsSink
  <2>1. patch.val[t] = sink.val[t] /\ patch.act[t] = sink.act[t]
    BY <1>2 DEF Inv, PatchIsSink
  <2>. QED
    BY <1>1, <1>2, <2>1 DEF DiscardPolicies, WithField
<1>4. WindowFits' /\ Held'
  BY <1>0, <1>2 DEF Inv, WindowFits, Held
<1>5. JobFits'
  BY <1>0 DEF Inv, JobFits
<1>. QED
  BY <1>3, <1>4, <1>5 DEF Inv

\* The global worker writes outside the region, and the patch reads again all
\* of it that is not owned.
LEMMA GlobalInv ==
    ASSUME Inv, PrepareGlobalJob \/ CommitGlobalJob \/ RejectGlobalJob
    PROVE  Inv'
<1>1. CASE PrepareGlobalJob
  <2>1. /\ UNCHANGED <<patch, sink, window, owner, owned, localRev, localInFlight, ljob>>
        /\ serial' = serial + 1
    BY <1>1 DEF PrepareGlobalJob
  <2>. QED
    BY <2>1 DEF Inv, Held, WindowFits, JobFits, PatchIsSink
<1>2. CASE RejectGlobalJob
  BY <1>2 DEF RejectGlobalJob, Inv, Held, WindowFits, JobFits, PatchIsSink
<1>3. CASE CommitGlobalJob
  <2>0. UNCHANGED <<window, owner, owned, serial, localRev, localInFlight, ljob>>
    BY <1>3 DEF CommitGlobalJob
  <2>1. PICK done, changed :
           /\ changed \cap owned = {}
           /\ sink' = Write(sink, done, changed)
           /\ \/ changed = {} /\ patch' = patch
              \/ RefreshLocalBoundary
    BY <1>3, Zenon DEF CommitGlobalJob
  <2>2. patch' # None => patch # None /\ patch'.at = patch.at
    BY <2>1 DEF RefreshLocalBoundary, WithField
  <2>3. PatchIsSink'
    <3>. SUFFICES ASSUME patch' # None, NEW s \in State, s[1] \in Footprint(patch'.at)
                  PROVE  patch'.val[s] = sink'.val[s] /\ patch'.act[s] = sink'.act[s]
      BY DEF PatchIsSink
    <3>1. patch.val[s] = sink.val[s] /\ patch.act[s] = sink.act[s]
      BY <2>2 DEF Inv, PatchIsSink
    <3>2. s[1] \notin changed =>
              sink'.val[s] = sink.val[s] /\ sink'.act[s] = sink.act[s]
      BY <2>1 DEF Write
    <3>3. CASE changed = {} /\ patch' = patch
      BY <3>1, <3>2, <3>3
    <3>4. CASE RefreshLocalBoundary
      <4>1. patch' = WithField(patch, Write(patch, sink', Footprint(patch.at) \ owned))
        BY <3>4, <2>2 DEF RefreshLocalBoundary
      <4>2. s[1] \in owned => s[1] \notin changed
        BY <2>1
      <4>3. CASE s[1] \in owned
        BY <4>1, <4>2, <4>3, <3>1, <3>2 DEF WithField, Write
      <4>4. CASE s[1] \notin owned
        BY <4>1, <4>4, <2>2 DEF WithField, Write
      <4>. QED
        BY <4>3, <4>4
    <3>. QED
      BY <2>1, <3>3, <3>4
  <2>4. WindowFits' /\ Held'
    BY <2>0, <2>2 DEF Inv, WindowFits, Held
  <2>5. JobFits'
    BY <2>0 DEF Inv, JobFits
  <2>. QED
    BY <2>3, <2>4, <2>5 DEF Inv
<1>. QED
  BY <1>1, <1>2, <1>3

\* The local worker publishes cells of the window, which commit_window writes
\* back whole.
LEMMA LocalInv ==
    ASSUME Inv, PrepareLocalJob \/ CommitLocalJob \/ RejectLocalJob
    PROVE  Inv'
<1>1. CASE PrepareLocalJob
  <2>0. /\ UNCHANGED <<patch, sink, window, owner, owned, localRev>>
        /\ serial' = serial + 1 /\ localInFlight' = serial + 1
        /\ ljob'.id = serial + 1 /\ ljob'.rev = localRev /\ ljob'.cells = window \cap owned
    BY <1>1 DEF PrepareLocalJob
  <2>1. ljob'.cells = owned
    BY <2>0 DEF Inv, Held
  <2>2. JobFits'
    BY <2>0, <2>1 DEF Inv, JobFits
  <2>. QED
    BY <2>0, <2>2 DEF Inv, Held, WindowFits, PatchIsSink
<1>2. CASE RejectLocalJob
  <2>1. JobFits'
    BY <1>2 DEF RejectLocalJob, Inv, JobFits
  <2>. QED
    BY <1>2, <2>1 DEF RejectLocalJob, Inv, Held, WindowFits, PatchIsSink
<1>3. CASE CommitLocalJob
  <2>0. /\ UNCHANGED <<window, owner, owned, serial, localRev>>
        /\ localInFlight' = 0 /\ ljob' = None
    BY <1>3 DEF CommitLocalJob
  <2>1. ljob.cells \subseteq window
    BY <1>3 DEF CommitLocalJob, LocalJobCurrent, Inv, JobFits, Held
  <2>. DEFINE done == RunLocal(ljob)
              now == Write(patch, done, ljob.cells)
              changed == {c \in window : Differs(sink, now, c)}
  <2>2. patch' = WithField(patch, now) /\ sink' = Write(sink, now, changed)
    BY <1>3 DEF CommitLocalJob
  <2>3. patch'.at = patch.at
    BY <2>2 DEF WithField
  <2>. HIDE DEF done
  <2>7. patch # None
    BY <1>3 DEF CommitLocalJob, LocalJobCurrent
  <2>4. PatchIsSink'
    <3>. SUFFICES ASSUME patch' # None, NEW s \in State, s[1] \in Footprint(patch'.at)
                  PROVE  patch'.val[s] = sink'.val[s] /\ patch'.act[s] = sink'.act[s]
      BY DEF PatchIsSink
    <3>1. patch.val[s] = sink.val[s] /\ patch.act[s] = sink.act[s]
      BY <2>3, <2>7 DEF Inv, PatchIsSink
    <3>2. patch'.val[s] = now.val[s] /\ patch'.act[s] = now.act[s]
      BY <2>2 DEF WithField
    <3>3. CASE s[1] \in changed
      BY <2>2, <3>2, <3>3 DEF Write
    <3>4. CASE s[1] \notin changed /\ s[1] \in window
      <4>1. PICK c \in Cell, th \in Theta : s = <<c, th>>
        BY DEF State
      <4>2. sink.val[s] = now.val[s] /\ sink.act[s] = now.act[s]
        BY <3>4, <4>1 DEF Differs
      <4>. QED
        BY <2>2, <3>2, <3>4, <4>2 DEF Write
    <3>5. CASE s[1] \notin window
      <4>1. s[1] \notin ljob.cells /\ s[1] \notin changed
        BY <2>1, <3>5
      <4>. QED
        BY <2>2, <3>1, <3>2, <4>1 DEF Write
    <3>. QED
      BY <3>3, <3>4, <3>5
  <2>5. WindowFits' /\ Held'
    BY <2>0, <2>3, <2>7 DEF Inv, WindowFits, Held
  <2>6. JobFits'
    BY <2>0 DEF Inv, JobFits
  <2>. QED
    BY <2>4, <2>5, <2>6 DEF Inv
<1>. QED
  BY <1>1, <1>2, <1>3

LEMMA InvNext == Inv /\ [Next]_vars => Inv'
<1>. SUFFICES ASSUME Inv, [Next]_vars PROVE Inv'
  OBVIOUS
<1>1. CASE \E g \in Goal : PrepareGoal(g)
  BY <1>1, ReloadInv DEF PrepareGoal
<1>2. CASE DiscardPartial
  BY <1>2, ReloadInv DEF DiscardPartial
<1>3. CASE \E f \in Follower : ClaimLocal(f) \/ ReleaseLocal(f)
  BY <1>3, ClaimInv
<1>4. CASE \E c \in Robot : SetWindow(c) \/ ObserveScan(c) \/ InflateBySigma(c)
  BY <1>4, Observations, ObservationInv
<1>5. CASE \E s \in State : AdvanceInvalidations(s)
  BY <1>5, InvalidationInv
<1>6. CASE PrepareGlobalJob \/ CommitGlobalJob \/ RejectGlobalJob
  BY <1>6, GlobalInv
<1>7. CASE PrepareLocalJob \/ CommitLocalJob \/ RejectLocalJob
  BY <1>7, LocalInv
<1>8. CASE UNCHANGED vars
  BY <1>8 DEF vars, Inv, Held, WindowFits, JobFits, PatchIsSink
<1>. QED
  BY <1>1, <1>2, <1>3, <1>4, <1>5, <1>6, <1>7, <1>8 DEF Next

\* compact.rs, "the sink becomes the shared field": patch and sink agree after
\* every step of either worker and of any follow thread.
THEOREM PatchSafety == Spec => []PatchIsSink
<1>1. Inv => PatchIsSink
  BY DEF Inv
<1>. QED
  BY InvInit, InvNext, <1>1, PTL DEF Spec

\* needs_recenter: the window and its transition halo never leave the patch.
THEOREM WindowSafety == Spec => []WindowFits
<1>1. Inv => WindowFits
  BY DEF Inv
<1>. QED
  BY InvInit, InvNext, <1>1, PTL DEF Spec
=============================================================================
