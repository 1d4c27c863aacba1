--------------------------- MODULE PrefetchProofs ---------------------------
(* WithdrawnIsStopped and PrefetchIsNext for every set of goals and every  *)
(* set of waypoint lists.                                                  *)
EXTENDS Prefetch, NaturalsInduction, WellFoundedInduction, TLAPS

-----------------------------------------------------------------------------
(* Facts about the operators.                                              *)

LEMMA RaiseStopFacts ==
    ASSUME RaiseStop, stop \in BOOLEAN, cancel \in BOOLEAN
    PROVE  /\ stop' \in BOOLEAN /\ cancel' = FALSE
           /\ cancel => stop'
           /\ stop => stop'
  BY DEF RaiseStop

LEMMA LeastOf ==
    ASSUME NEW S, S \subseteq Nat, S # {}
    PROVE  \E k \in S : \A j \in S : k <= j
<1> DEFINE R == {ss \in Nat \X Nat : ss[1] < ss[2]}
<1>1. IsWellFoundedOn(R, Nat)
  BY NatLessThanWellFounded DEF OpToRel
<1> HIDE DEF R
<1>2. PICK k \in S : \A j \in S : <<j, k>> \notin R
  BY <1>1, WFMin
<1>3. ASSUME NEW j \in S PROVE k <= j
  <2>1. <<j, k>> \in Nat \X Nat /\ ~(j < k)
    BY <1>2 DEF R
  <2> QED
    BY <2>1
<1> QED
  BY <1>3

\* The goal is a waypoint of the present list.
OnList(g) == \E i \in DOMAIN waypoints : waypoints[i] = g

\* What position() returns: the point after a goal that is not the last one is
\* a goal of the list itself.
LEMMA PositionFacts ==
    ASSUME NEW g, waypoints \in Seq(Goal)
    PROVE  /\ PositionOf(g).kind \in {"Next", "Last", "Unknown"}
           /\ (PositionOf(g).kind = "Unknown") <=> ~OnList(g)
           /\ PositionOf(g).kind = "Next" =>
                /\ PositionOf(g) = [kind |-> "Next", goal |-> PositionOf(g).goal]
                /\ PositionOf(g).goal \in Goal
                /\ OnList(PositionOf(g).goal)
<1> DEFINE hits == {i \in DOMAIN waypoints : waypoints[i] = g}
           i == CHOOSE i \in hits : \A j \in hits : i <= j
<1>1. CASE hits = {}
  <2>1. PositionOf(g) = [kind |-> "Unknown"]
    BY <1>1 DEF PositionOf, PositionIn
  <2>2. ~OnList(g)
    BY <1>1 DEF OnList
  <2> QED
    BY <2>1, <2>2
<1>2. CASE hits # {} /\ i < Len(waypoints)
  <2>1. PositionOf(g) = [kind |-> "Next", goal |-> waypoints[i + 1]]
    BY <1>2 DEF PositionOf, PositionIn
  <2>2. i \in hits
    <3>1. hits \subseteq Nat
      BY DOMAIN waypoints \subseteq Nat
    <3>2. \E k \in hits : \A j \in hits : k <= j
      BY <1>2, <3>1, LeastOf
    <3> QED
      BY <3>2
  <2>3. i \in DOMAIN waypoints /\ i + 1 \in DOMAIN waypoints
    <3>1. i \in DOMAIN waypoints
      BY <2>2
    <3> HIDE DEF i, hits
    <3> QED
      BY <1>2, <3>1
  <2>4. waypoints[i + 1] \in Goal /\ OnList(waypoints[i + 1])
    <3> HIDE DEF i, hits
    <3> QED
      BY <2>3 DEF OnList
  <2>5. OnList(g)
    BY <1>2 DEF OnList
  <2> HIDE DEF i, hits
  <2> QED
    BY <2>1, <2>4, <2>5
<1>3. CASE hits # {} /\ ~(i < Len(waypoints))
  <2>1. PositionOf(g) = [kind |-> "Last"]
    BY <1>3 DEF PositionOf, PositionIn
  <2> QED
    BY <2>1, <1>3 DEF OnList
<1> QED
  BY <1>1, <1>2, <1>3

-----------------------------------------------------------------------------
(* The inductive invariant.                                                *)

Option == Goal \cup {None}

TypeOK ==
    /\ waypoints \in Seq(Goal)
    /\ want \in Option /\ solving \in Option /\ ready \in Option
    /\ cancel \in BOOLEAN /\ stop \in BOOLEAN
    /\ asked \in Option \cup {RelocGoal}
    /\ pc \in {"adopt", "solve", "solving", "note"} => asked \in Goal
    /\ cached \in Option \cup {RelocGoal}
    /\ replaced \subseteq Goal

\* The three slots of State hold different goals and are never all taken, and
\* a solve whose flag is armed has no successor waiting.
Slots ==
    /\ want # None => want \notin {solving, ready}
    /\ solving # None => solving # ready
    /\ None \in {want, solving, ready}
    /\ cancel => solving # None /\ want = None

\* What is held was ordered under the present list, or is tagged.
Listed == \A g \in Goal : g \in {want, solving, ready} => g \in replaced \/ OnList(g)

\* Main side, before it orders the next point.  A call that is going to solve
\* here has withdrawn everything; a call that adopted left at most one of the
\* order and the running solve behind, and adopted a goal of the list.
Loading ==
    /\ pc \in {"adopt", "solve", "solving", "reloc"} => cached = None
    /\ pc = "solving" => InFlight = {}
    /\ pc = "solve" /\ ~giveUp => InFlight = {}
    /\ pc = "note" =>
        /\ cached = asked
        /\ InFlight = {} \/ cached \in replaced \/ OnList(cached) \/ InFlight \subseteq replaced
        /\ InFlight = {} \/ (ready = None /\ None \in {want, solving})

NextInv == TypeOK /\ Slots /\ Listed /\ Loading /\ PrefetchIsNext

-----------------------------------------------------------------------------
(* One critical section orders or withdraws; the rest moves goals between  *)
(* the slots and puts nothing new in flight.                               *)

\* After note_goal of a goal g on the list, what is in flight is its successor
\* or what was in flight before.
LEMMA NoteGoalFacts ==
    ASSUME TypeOK, Slots, Listed, NEW g, NoteGoal(g), History
    PROVE  /\ waypoints' = waypoints
           /\ want' \in Option /\ solving' = solving /\ ready' \in Option
           /\ cancel' \in BOOLEAN /\ stop' \in BOOLEAN
           /\ Slots' /\ Listed'
           /\ \/ \A h \in InFlight' : PositionOf(g) = [kind |-> "Next", goal |-> h]
              \/ /\ UNCHANGED <<want, ready, cancel>>
                 /\ \/ ~OnList(g)
                    \/ /\ PositionOf(g).kind = "Next"
                       /\ PositionOf(g).goal \in {want, solving, ready}
                       /\ PositionOf(g).goal \in Goal
<1> DEFINE p == PositionOf(g)
<1>0. None \notin Goal
  BY PrefetchAssumption
<1>1. CASE p.kind = "Next" /\ p.goal \in {ready, solving, want}
  <2>1. UNCHANGED <<waypoints, want, solving, ready, cancel, stop>>
    BY <1>1 DEF NoteGoal, Request
  <2> QED
    BY <1>1, <2>1, PositionFacts DEF TypeOK, Slots, Listed, History, OnList
<1>2. CASE p.kind = "Next" /\ p.goal \notin {ready, solving, want}
  <2>1. /\ ready' = None /\ want' = p.goal /\ RaiseStop
        /\ UNCHANGED <<waypoints, solving>>
    BY <1>2 DEF NoteGoal, Request
  <2>2. cancel' = FALSE /\ stop' \in BOOLEAN
    BY <2>1, RaiseStopFacts DEF TypeOK
  <2>3. p = [kind |-> "Next", goal |-> p.goal] /\ p.goal \in Goal /\ OnList(p.goal)
    BY <1>2, PositionFacts DEF TypeOK
  <2>4. \A h \in InFlight' : h = p.goal
    BY <2>1, <2>2 DEF InFlight
  <2>5. Listed'
    BY <2>1, <2>3, <1>0 DEF Listed, OnList, History, TypeOK
  <2>6. Slots'
    BY <1>2, <2>1, <2>2, <2>3, <1>0 DEF Slots, TypeOK
  <2> QED
    BY <2>1, <2>2, <2>3, <2>4, <2>5, <2>6, <1>0 DEF TypeOK, Option
<1>3. CASE p.kind = "Last"
  <2>1. /\ ready' = None /\ want' = None /\ RaiseStop
        /\ UNCHANGED <<waypoints, solving>>
    BY <1>3 DEF NoteGoal, Discard, CancelInFlight
  <2>2. cancel' = FALSE /\ stop' \in BOOLEAN
    BY <2>1, RaiseStopFacts DEF TypeOK
  <2>3. InFlight' = {}
    BY <2>1, <2>2, <1>0 DEF InFlight
  <2> QED
    BY <2>1, <2>2, <2>3, <1>0 DEF TypeOK, Option, Slots, Listed, OnList, History
<1>4. CASE p.kind = "Unknown"
  <2>1. UNCHANGED <<waypoints, want, solving, ready, cancel, stop>>
    BY <1>4 DEF NoteGoal
  <2> QED
    BY <1>4, <2>1, PositionFacts DEF TypeOK, Slots, Listed, History, OnList
<1> QED
  BY <1>1, <1>2, <1>3, <1>4, PositionFacts DEF TypeOK

\* InFlight of the next state under a step that leaves the orders alone.
LEMMA SameOrders ==
    ASSUME NextInv, UNCHANGED <<waypoints, orderVars>>, History
    PROVE  /\ InFlight' = InFlight /\ Slots' /\ Listed'
           /\ \A g \in {want, solving, ready} : g \in replaced <=> g \in replaced'
           /\ replaced' \subseteq replaced
  BY DEF NextInv, InFlight, Slots, Listed, OnList, History, orderVars, TypeOK

\* A step that keeps the list tags nobody.
LEMMA TagsFade ==
    ASSUME TypeOK, UNCHANGED waypoints, History
    PROVE  /\ replaced' \subseteq replaced
           /\ \A g \in Goal \cap {want', solving', ready', cached'} :
                 g \in replaced => g \in replaced'
  BY DEF TypeOK, History

LEMMA UnchangedKeeps ==
    ASSUME NextInv, UNCHANGED <<waypoints, orderVars, workerVars, mainVars>>, History
    PROVE  NextInv'
<1>1. InFlight' = InFlight /\ Slots' /\ Listed'
  BY SameOrders
<1>2. \A h \in InFlight \cup ({cached} \cap Goal) : h \in replaced => h \in replaced'
  BY TagsFade DEF InFlight, NextInv, orderVars, mainVars
<1>3. TypeOK'
  BY DEF NextInv, TypeOK, orderVars, workerVars, mainVars, History
<1>4. Loading'
  BY <1>1, <1>2 DEF NextInv, TypeOK, Loading, OnList, orderVars, mainVars
<1>5. PrefetchIsNext'
  BY <1>1, <1>2 DEF NextInv, PrefetchIsNext, PositionOf, mainVars
<1> QED
  BY <1>1, <1>3, <1>4, <1>5 DEF NextInv

LEMMA MainKeeps == ASSUME NextInv, Main, History PROVE NextInv'
<1> USE DEF NextInv
<1>0. None \notin Goal /\ RelocGoal \notin Goal /\ RelocGoal # None
  BY PrefetchAssumption
<1>r. replaced' \subseteq Goal
  BY DEF History
<1>1. CASE AdoptReady
  <2>1. /\ UNCHANGED <<waypoints, want, solving, cancel, stop, wpc, asked, giveUp>>
        /\ cached' = asked /\ ready = asked /\ ready' = None /\ pc' = "note" /\ asked \in Goal
    BY <1>1 DEF AdoptReady, TypeOK, workerVars
  <2>2. InFlight' = InFlight
    BY <2>1 DEF InFlight
  <2>3. asked \in replaced' \/ OnList(asked)
    BY <2>1, TagsFade DEF Listed
  <2>4. InFlight \subseteq replaced => InFlight \subseteq replaced'
    BY <2>1, TagsFade DEF InFlight
  <2>5. TypeOK' /\ Slots' /\ Listed'
    BY <2>1, <1>0, <1>r, TagsFade DEF TypeOK, Option, Slots, Listed, OnList
  <2>6. Loading'
    BY <2>1, <2>2, <2>3, <2>4, <1>0 DEF Loading, OnList, Slots
  <2> QED
    BY <2>1, <2>5, <2>6 DEF PrefetchIsNext
<1>2. CASE AdoptWait
  <2>1. /\ UNCHANGED <<waypoints, want, solving, cancel, stop, wpc, asked, giveUp, cached>>
        /\ ready' = None /\ pc' \in {"adopt", "solve"} /\ (pc' = "solve" => giveUp) /\ asked \in Goal
    BY <1>2 DEF AdoptWait, TypeOK, workerVars
  <2>2. TypeOK' /\ Slots' /\ Listed'
    BY <2>1, <1>0, <1>r, TagsFade DEF TypeOK, Option, Slots, Listed, OnList
  <2>3. cached = None
    BY <1>2 DEF AdoptWait, Loading
  <2> QED
    BY <2>1, <2>2, <2>3 DEF PrefetchIsNext, Loading
<1>3. CASE AdoptElsewhere
  <2>1. /\ UNCHANGED <<waypoints, solving, asked, giveUp, cached>>
        /\ ready' = None /\ want' = None /\ RaiseStop /\ pc' = "solve" /\ asked \in Goal
    BY <1>3 DEF AdoptElsewhere, Discard, CancelInFlight, TypeOK
  <2>2. cancel' = FALSE /\ stop' \in BOOLEAN
    BY <2>1, RaiseStopFacts DEF TypeOK
  <2>3. InFlight' = {}
    BY <2>1, <2>2, <1>0 DEF InFlight
  <2>4. TypeOK' /\ Slots' /\ Listed'
    BY <2>1, <2>2, <1>0, <1>r, TagsFade DEF TypeOK, Option, Slots, Listed, OnList
  <2>5. cached = None
    BY <1>3 DEF AdoptElsewhere, Loading
  <2> QED
    BY <2>1, <2>3, <2>4, <2>5 DEF PrefetchIsNext, Loading
<1>4. CASE SolveStart \/ SolveError
  <2>1. /\ UNCHANGED <<waypoints, orderVars, workerVars, giveUp, cached>>
        /\ \/ pc' = "idle" /\ asked' = None
           \/ pc' = "solving" /\ asked' = asked /\ pc = "solve" /\ ~giveUp
    BY <1>4 DEF SolveStart, SolveError
  <2>2. InFlight' = InFlight /\ Slots' /\ Listed'
    BY <2>1, SameOrders
  <2>3. TypeOK'
    BY <2>1, <1>r DEF TypeOK, orderVars, workerVars, Option
  <2>4. cached = None
    BY <1>4 DEF SolveStart, SolveError, Loading
  <2> QED
    BY <2>1, <2>2, <2>3, <2>4, <1>0 DEF Loading, PrefetchIsNext
<1>5. CASE SolveDone
  <2>1. /\ UNCHANGED <<waypoints, orderVars, workerVars, giveUp, asked>>
        /\ pc' = "note" /\ cached' = asked /\ InFlight = {} /\ asked \in Goal
    BY <1>5 DEF SolveDone, Loading, TypeOK
  <2>2. InFlight' = InFlight /\ Slots' /\ Listed'
    BY <2>1, SameOrders
  <2>3. TypeOK'
    BY <2>1, <1>r DEF TypeOK, orderVars, workerVars, Option
  <2> QED
    BY <2>1, <2>2, <2>3 DEF Loading, PrefetchIsNext
<1>6. CASE RelocDone
  <2>1. /\ UNCHANGED <<waypoints, orderVars, workerVars, giveUp>>
        /\ pc' = "idle" /\ cached' = RelocGoal /\ asked' = None
    BY <1>6 DEF RelocDone
  <2>2. Slots' /\ Listed'
    BY <2>1, SameOrders
  <2>3. TypeOK'
    BY <2>1, <1>r DEF TypeOK, orderVars, workerVars, Option
  <2> QED
    BY <2>1, <2>2, <2>3, <1>0 DEF Loading, PrefetchIsNext
<1>7. CASE RequestNext
  <2>1. /\ NoteGoal(cached) /\ pc = "note" /\ cached = asked /\ asked \in Goal
        /\ pc' = "idle" /\ asked' = None /\ UNCHANGED <<giveUp, cached>>
    BY <1>7 DEF RequestNext, Loading, TypeOK
  <2>2. /\ waypoints' = waypoints
        /\ want' \in Option /\ solving' = solving /\ ready' \in Option
        /\ cancel' \in BOOLEAN /\ stop' \in BOOLEAN
        /\ Slots' /\ Listed'
    BY <2>1, NoteGoalFacts
  <2>3. TypeOK'
    BY <2>1, <2>2, <1>r DEF TypeOK, Option
  <2>4. Loading'
    BY <2>1 DEF Loading
  <2>5. PositionOf(cached)' = PositionOf(cached)
    BY <2>1, <2>2 DEF PositionOf
  <2>6. CASE \A h \in InFlight' : PositionOf(cached) = [kind |-> "Next", goal |-> h]
    BY <2>2, <2>3, <2>4, <2>5, <2>6 DEF PrefetchIsNext
  <2>7. CASE UNCHANGED <<want, ready, cancel>> /\ ~OnList(cached)
    <3>1. InFlight' = InFlight
      BY <2>2, <2>7 DEF InFlight
    <3>2. cached \in replaced => cached \in replaced'
      BY <2>1, <2>2, TagsFade
    <3>3. InFlight \subseteq replaced => InFlight \subseteq replaced'
      BY <2>2, <2>7, TagsFade DEF InFlight
    <3>4. InFlight = {} \/ cached \in replaced \/ InFlight \subseteq replaced
      BY <2>1, <2>7 DEF Loading
    <3> QED
      BY <2>1, <2>2, <2>3, <2>4, <3>1, <3>2, <3>3, <3>4 DEF PrefetchIsNext
  <2>8. ASSUME UNCHANGED <<want, ready, cancel>>,
               PositionOf(cached).kind = "Next",
               PositionOf(cached).goal \in {want, solving, ready},
               PositionOf(cached).goal \in Goal
        PROVE  PrefetchIsNext'
    <3>1. InFlight' = InFlight
      BY <2>2, <2>8 DEF InFlight
    <3>2. InFlight = {} \/ InFlight = {PositionOf(cached).goal}
      BY <2>1, <2>8, <1>0 DEF InFlight, Loading, Slots, TypeOK, Option
    <3>3. PositionOf(cached) = [kind |-> "Next", goal |-> PositionOf(cached).goal]
      BY <2>8, PositionFacts DEF TypeOK
    <3> QED
      BY <2>5, <3>1, <3>2, <3>3 DEF PrefetchIsNext
  <2> QED
    BY <2>1, <2>2, <2>3, <2>4, <2>6, <2>7, <2>8, NoteGoalFacts
<1> QED
  BY <1>1, <1>2, <1>3, <1>4, <1>5, <1>6, <1>7 DEF Main

LEMMA ClientsKeep == ASSUME NextInv, Clients, History PROVE NextInv'
<1> USE DEF NextInv
<1>0. None \notin Goal /\ RelocGoal \notin Goal /\ RelocGoal # None /\ Lists \subseteq Seq(Goal)
  BY PrefetchAssumption
<1>r. replaced' \subseteq Goal
  BY DEF History
<1>1. CASE SetWaypoints /\ waypoints' = waypoints
  <2>1. UNCHANGED <<waypoints, orderVars, workerVars, mainVars>>
    BY <1>1 DEF SetWaypoints
  <2> QED
    BY <2>1, <1>r, UnchangedKeeps
<1>2. CASE SetWaypoints /\ waypoints' # waypoints
  <2>1. UNCHANGED <<orderVars, workerVars, mainVars>> /\ waypoints' \in Seq(Goal)
    BY <1>2, <1>0 DEF SetWaypoints
  <2>2. InFlight' = InFlight
    BY <2>1 DEF InFlight, orderVars
  <2>3. \A g \in Goal : g \in {want', solving', ready'} => g \in replaced'
    BY <1>2 DEF History
  <2>4. InFlight' \subseteq replaced'
    BY <2>3 DEF InFlight
  <2> QED
    BY <2>1, <2>2, <2>3, <2>4, <1>r
       DEF TypeOK, Slots, Listed, Loading, PrefetchIsNext, orderVars, workerVars, mainVars
<1>3. CASE DiscardPartial \/ PrepareReloc
  <2>1. /\ UNCHANGED <<waypoints, orderVars, workerVars>> /\ cached' = None
        /\ \/ pc = "idle" /\ UNCHANGED <<pc, asked, giveUp>>
           \/ pc' = "reloc" /\ asked' = RelocGoal
    BY <1>3 DEF DiscardPartial, PrepareReloc
  <2>2. Slots' /\ Listed'
    BY <2>1, SameOrders
  <2>3. TypeOK'
    BY <2>1, <1>r DEF TypeOK, orderVars, workerVars, Option
  <2> QED
    BY <2>1, <2>2, <2>3, <1>0 DEF Loading, PrefetchIsNext
<1>4. CASE Preempt
  <2>1. UNCHANGED <<waypoints, orderVars, workerVars, pc, asked, cached>> /\ giveUp' = TRUE
        /\ pc \in {"adopt", "solve", "solving", "reloc"}
    BY <1>4 DEF Preempt
  <2>2. InFlight' = InFlight /\ Slots' /\ Listed'
    BY <2>1, SameOrders
  <2>3. TypeOK'
    BY <2>1, <1>r DEF TypeOK, orderVars, workerVars
  <2> QED
    BY <2>1, <2>2, <2>3 DEF Loading, PrefetchIsNext
<1>5. ASSUME NEW g \in Goal, PrepareMiss(g) PROVE NextInv'
  <2>1. /\ UNCHANGED <<waypoints, orderVars, workerVars>>
        /\ pc' = "adopt" /\ asked' = g /\ cached' = None
    BY <1>5 DEF PrepareMiss
  <2>2. Slots' /\ Listed'
    BY <2>1, SameOrders
  <2>3. TypeOK'
    BY <2>1, <1>r DEF TypeOK, orderVars, workerVars, Option
  <2> QED
    BY <2>1, <2>2, <2>3 DEF Loading, PrefetchIsNext
<1>6. ASSUME NEW g \in Goal, PrepareHit(g) PROVE NextInv'
  <2>1. NoteGoal(g) /\ pc = "idle" /\ cached = g /\ UNCHANGED <<pc, asked, giveUp, cached>>
    BY <1>6 DEF PrepareHit, mainVars
  <2>2. /\ waypoints' = waypoints
        /\ want' \in Option /\ solving' = solving /\ ready' \in Option
        /\ cancel' \in BOOLEAN /\ stop' \in BOOLEAN
        /\ Slots' /\ Listed'
    BY <2>1, NoteGoalFacts
  <2>3. TypeOK' /\ Loading'
    BY <2>1, <2>2, <1>r DEF TypeOK, Loading
  <2>4. PositionOf(cached)' = PositionOf(cached)
    BY <2>1, <2>2 DEF PositionOf
  <2>5. CASE \A h \in InFlight' : PositionOf(g) = [kind |-> "Next", goal |-> h]
    BY <2>1, <2>2, <2>3, <2>4, <2>5 DEF PrefetchIsNext
  <2>6. CASE UNCHANGED <<want, ready, cancel>>
    <3>1. InFlight' = InFlight
      BY <2>2, <2>6 DEF InFlight
    <3>2. \A h \in InFlight \cup {cached} : h \in replaced => h \in replaced'
      BY <2>1, <2>2, <2>6, TagsFade DEF InFlight
    <3> QED
      BY <2>1, <2>2, <2>3, <2>4, <3>1, <3>2 DEF PrefetchIsNext
  <2> QED
    BY <2>1, <2>5, <2>6, NoteGoalFacts
<1> QED
  BY <1>1, <1>2, <1>3, <1>4, <1>5, <1>6 DEF Clients

LEMMA WorkerKeeps == ASSUME NextInv, Worker, History PROVE NextInv'
<1> USE DEF NextInv
<1>0. None \notin Goal
  BY PrefetchAssumption
<1>1. UNCHANGED <<waypoints, pc, asked, giveUp, cached>>
  BY DEF Worker, WorkerTake, WorkerSleep, WorkerSolveStart, WorkerCancelled,
         WorkerLastBoundary, WorkerPlace, mainVars
<1>2. \/ UNCHANGED <<orderVars, stop>>
      \/ /\ want # None /\ solving' = want /\ want' = None /\ ready' = ready
         /\ cancel' = TRUE /\ stop' = FALSE
      \/ /\ solving' = None /\ cancel' = FALSE /\ ready' \in {solving, ready}
         /\ UNCHANGED <<want, stop>>
  BY DEF Worker, WorkerTake, WorkerSleep, WorkerSolveStart, WorkerCancelled,
         WorkerLastBoundary, WorkerPlace, orderVars
<1>3. {want', solving', ready'} \subseteq {want, solving, ready, None}
  BY <1>2 DEF orderVars
<1>4. TypeOK'
  BY <1>1, <1>2 DEF TypeOK, Option, orderVars, History
<1>5. Slots'
  BY <1>2, <1>0 DEF Slots, TypeOK, Option, orderVars
<1>6. Listed'
  BY <1>0, <1>1, <1>3, TagsFade DEF Listed, OnList
<1>7. InFlight' \subseteq InFlight
  BY <1>2, <1>0 DEF InFlight, orderVars
<1>8. \A h \in InFlight' \cup ({cached} \cap Goal) : h \in replaced => h \in replaced'
  BY <1>1, TagsFade DEF InFlight
<1>9. ASSUME pc = "note"
      PROVE  InFlight' = {} \/ (ready' = None /\ None \in {want', solving'})
  BY <1>2, <1>7, <1>9, <1>0 DEF Loading, InFlight, orderVars
<1>10. Loading'
  BY <1>1, <1>7, <1>8, <1>9 DEF Loading, OnList, TypeOK
<1>11. PrefetchIsNext'
  BY <1>1, <1>7, <1>8 DEF PrefetchIsNext, PositionOf
<1> QED
  BY <1>4, <1>5, <1>6, <1>10, <1>11

\* The claim that lets adopt cancel what it does not wait for: with a client's
\* goal loaded and no call in progress, an order or an armed solve is for the
\* point after it (prefetch.rs note_goal / adopt / worker), whatever the lists,
\* for everything ordered since the list was last replaced.
THEOREM PrefetchSafety == Spec => []PrefetchIsNext
<1>1. Init => NextInv
  <2> SUFFICES ASSUME Init PROVE NextInv
    OBVIOUS
  <2>1. InFlight = {}
    BY PrefetchAssumption DEF Init, InFlight
  <2>2. TypeOK
    <3>1. waypoints \in Seq(Goal)
      BY DEF Init
    <3> QED
      BY <3>1 DEF Init, TypeOK, Option
  <2>3. Slots /\ Listed
    BY PrefetchAssumption DEF Init, Slots, Listed
  <2>4. Loading /\ PrefetchIsNext
    BY <2>1 DEF Init, Loading, PrefetchIsNext
  <2> QED
    BY <2>2, <2>3, <2>4 DEF NextInv
<1>2. NextInv /\ [Next]_allVars => NextInv'
  <2> SUFFICES ASSUME NextInv, [Next]_allVars PROVE NextInv'
    OBVIOUS
  <2>1. CASE UNCHANGED allVars
    <3>1. /\ UNCHANGED <<waypoints, want, solving, ready, cancel, stop, pc, asked,
                         giveUp, cached, replaced>>
      BY <2>1 DEF allVars, vars, orderVars, workerVars, mainVars
    <3>2. InFlight' = InFlight
      BY <3>1 DEF InFlight
    <3> QED
      BY <3>1, <3>2 DEF NextInv, TypeOK, Slots, Listed, OnList, Loading,
                        PrefetchIsNext, PositionOf
  <2> QED
    BY <2>1, MainKeeps, ClientsKeep, WorkerKeeps DEF Next
<1>3. NextInv => PrefetchIsNext
  BY DEF NextInv
<1> QED
  BY <1>1, <1>2, <1>3, PTL DEF Spec

-----------------------------------------------------------------------------
\* The inductive form: the flags are Booleans, and a solve that holds no flag
\* in State has had its own raised.
WithdrawnInv ==
    /\ cancel \in BOOLEAN
    /\ stop \in BOOLEAN
    /\ WithdrawnIsStopped

\* A running solve whose stop flag the prefetch state no longer holds has been
\* told to stop (prefetch.rs cancel_in_flight / worker), for all constants.
THEOREM WithdrawnSafety == Spec => []WithdrawnIsStopped
<1>1. Init => WithdrawnInv
  BY DEF Init, WithdrawnInv, WithdrawnIsStopped
<1>2. WithdrawnInv /\ [Next]_allVars => WithdrawnInv'
  <2> SUFFICES ASSUME WithdrawnInv, [Next]_allVars PROVE WithdrawnInv'
    OBVIOUS
  <2> USE DEF WithdrawnInv, WithdrawnIsStopped
  <2>1. ASSUME NEW g, NoteGoal(g) PROVE WithdrawnInv'
    BY <2>1, RaiseStopFacts
       DEF NoteGoal, Request, Discard, CancelInFlight, RaiseStop, Notify
  <2>2. CASE Main
    BY <2>2, <2>1, RaiseStopFacts
       DEF Main, AdoptReady, AdoptWait, AdoptElsewhere, SolveStart, SolveDone,
           SolveError, RelocDone, RequestNext, Discard, CancelInFlight,
           orderVars, workerVars
  <2>3. CASE Clients
    BY <2>3, <2>1
       DEF Clients, SetWaypoints, DiscardPartial, PrepareReloc, Preempt,
           PrepareHit, PrepareMiss, orderVars, workerVars
  <2>4. CASE Worker
    BY <2>4
       DEF Worker, WorkerTake, WorkerSleep, WorkerSolveStart, WorkerCancelled,
           WorkerLastBoundary, WorkerPlace, orderVars
  <2>5. CASE UNCHANGED allVars
    BY <2>5 DEF allVars, vars, orderVars, workerVars
  <2> QED
    BY <2>2, <2>3, <2>4, <2>5 DEF Next
<1>3. WithdrawnInv => WithdrawnIsStopped
  BY DEF WithdrawnInv
<1> QED
  BY <1>1, <1>2, <1>3, PTL DEF Spec
=============================================================================
