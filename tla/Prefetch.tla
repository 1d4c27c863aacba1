------------------------------ MODULE Prefetch ------------------------------
(***************************************************************************)
(* The waypoint prefetcher (core/prefetch.rs) and its only client, the     *)
(* prepare_goal_* entry points of PlannerCore (core/mod.rs).               *)
(*                                                                         *)
(* Two threads meet on Prefetcher's State: the MAIN side, whichever node   *)
(* thread holds the core mutex (adopt waits WITHOUT giving that mutex up,  *)
(* so there is never more than one), and the prefetch WORKER, which solves *)
(* with a spare core and never takes the core mutex.  One action is one    *)
(* critical section of State's mutex, or one step outside of it.           *)
(***************************************************************************)
EXTENDS Naturals, Sequences

CONSTANTS
    Goal,        \* goals a client may ask for
    Lists,       \* waypoint lists that may arrive on /waypoints
    Failing,     \* goals whose solve does not converge (NotConverged)
    None,        \* Option::None
    RelocGoal    \* the discriminating point prepare_reloc_goal caches

ASSUME PrefetchAssumption ==
    /\ Lists \subseteq Seq(Goal)
    /\ Failing \subseteq Goal
    /\ None \notin Goal
    /\ RelocGoal \notin Goal
    /\ RelocGoal # None

VARIABLES
    waypoints, want, solving, ready,  \* State of prefetch.rs
    cancel,      \* State.cancel is Some: the running solve can be told to stop
    stop,        \* the worker's AtomicBool behind that flag
    wpc,         \* worker: what it is doing
    pc,          \* main side: where in prepare_goal_with_progress it is
    asked,       \* main side: the goal of the call in progress
    giveUp,      \* main side: the caller's cancel flag (preemption)
    cached,      \* PlannerCore.cached: the goal of the loaded field, or None
    replaced     \* history: goals of the prefetch state that were ordered under
                 \* an earlier list, and the loaded goal while it is one of them

workerVars == <<stop, wpc>>
mainVars == <<pc, asked, giveUp, cached>>
orderVars == <<want, solving, ready, cancel>>
vars == <<waypoints, orderVars, workerVars, mainVars>>
allVars == <<vars, replaced>>

Init ==
    /\ waypoints = <<>>
    /\ want = None /\ solving = None /\ ready = None
    /\ cancel = FALSE /\ stop = FALSE
    /\ wpc = "idle"
    /\ pc = "idle" /\ asked = None /\ giveUp = FALSE /\ cached = None
    /\ replaced = {}

-----------------------------------------------------------------------------
(* Helpers on State; each is used inside one critical section.             *)

\* The first occurrence of the goal decides, as Iterator::position does.
PositionIn(list, g) ==
    LET hits == {i \in DOMAIN list : list[i] = g}
        i == CHOOSE i \in hits : \A j \in hits : i <= j
    IN  CASE hits = {}                      -> [kind |-> "Unknown"]
          [] hits # {} /\ i < Len(list)      -> [kind |-> "Next", goal |-> list[i + 1]]
          [] hits # {} /\ ~(i < Len(list))   -> [kind |-> "Last"]
PositionOf(g) == PositionIn(waypoints, g)

\* Mutant: the flag is let go without being raised.
RaiseStopForgets ==
    /\ cancel' = FALSE
    /\ stop' = stop

\* The running solve, if any, is told to stop, and its flag is let go.
RaiseStop ==
    /\ cancel' = FALSE
    /\ stop' = (stop \/ cancel)

CancelInFlight == want' = None /\ RaiseStop

Discard == ready' = None /\ CancelInFlight

\* notify_all: a worker asleep on the condition variable looks again.
Notify == wpc' = IF wpc = "asleep" THEN "idle" ELSE wpc

Request(next) ==
    IF next \in {ready, solving, want}
    THEN UNCHANGED <<ready, want, cancel, stop, wpc>>
    ELSE /\ ready' = None
         /\ want' = next
         /\ RaiseStop
         /\ Notify

NoteGoal(g) ==
    /\ LET p == PositionOf(g)
       IN  \/ p.kind = "Next" /\ Request(p.goal)
           \/ p.kind = "Last" /\ Discard /\ UNCHANGED wpc
           \/ p.kind = "Unknown" /\ UNCHANGED <<ready, want, cancel, stop, wpc>>
    /\ UNCHANGED <<waypoints, solving>>

-----------------------------------------------------------------------------
(* Main side.                                                              *)

SetWaypoints ==
    /\ waypoints' \in Lists
    /\ UNCHANGED <<orderVars, workerVars, mainVars>>

\* Mutant: a cache hit returns before the next point is ordered.
PrepareHitSilent(g) ==
    /\ pc = "idle" /\ cached = g
    /\ UNCHANGED vars

\* Cache hit: nothing is solved, but the order for the next point goes out
\* again (the behaviour tree replans at 1 Hz while it drives).
PrepareHit(g) ==
    /\ pc = "idle" /\ cached = g
    /\ NoteGoal(g)
    /\ UNCHANGED mainVars

\* Cache miss: the old field is dropped before anything is waited for.
PrepareMiss(g) ==
    /\ pc = "idle" /\ cached # g
    /\ pc' = "adopt" /\ asked' = g /\ giveUp' = FALSE /\ cached' = None
    /\ UNCHANGED <<waypoints, orderVars, workerVars>>

\* The field asked for is there: it moves into the cache as a whole.
AdoptReady ==
    /\ pc = "adopt" /\ ready = asked
    /\ cached' = ready /\ ready' = None
    /\ pc' = "note"
    /\ UNCHANGED <<waypoints, want, solving, cancel, workerVars, asked, giveUp>>

WaitingForIt == asked \in {solving, want}

\* It is being solved or about to be: one turn of the wait_timeout loop.
AdoptWait ==
    /\ pc = "adopt" /\ ready # asked /\ WaitingForIt
    /\ ready' = None
    /\ pc' = IF giveUp THEN "solve" ELSE "adopt"
    /\ UNCHANGED <<waypoints, want, solving, cancel, workerVars, asked, giveUp, cached>>

\* Mutant: the solve of another goal is left running.
AdoptElsewhereKeeps ==
    /\ pc = "adopt" /\ ready # asked /\ ~WaitingForIt
    /\ ready' = None /\ UNCHANGED <<want, cancel, stop>>
    /\ pc' = "solve"
    /\ UNCHANGED <<waypoints, solving, wpc, asked, giveUp, cached>>

\* Somebody else's field: stop that solve and solve here.
AdoptElsewhere ==
    /\ pc = "adopt" /\ ready # asked /\ ~WaitingForIt
    /\ Discard
    /\ pc' = "solve"
    /\ UNCHANGED <<waypoints, solving, wpc, asked, giveUp, cached>>

\* solve_dense / solve_compact: a cancelled call returns before it allocates.
SolveStart ==
    /\ pc = "solve"
    /\ IF giveUp THEN pc' = "idle" /\ asked' = None
                 ELSE pc' = "solving" /\ UNCHANGED asked
    /\ UNCHANGED <<waypoints, orderVars, workerVars, giveUp, cached>>

SolveDone ==
    /\ pc = "solving" /\ asked \notin Failing
    /\ cached' = asked /\ pc' = "note"
    /\ UNCHANGED <<waypoints, orderVars, workerVars, asked, giveUp>>

\* Cancelled at a boundary, or not converged: `?` leaves the cache empty.
SolveError ==
    /\ pc \in {"solving", "reloc"} /\ (giveUp \/ asked \in Failing)
    /\ pc' = "idle" /\ asked' = None
    /\ UNCHANGED <<waypoints, orderVars, workerVars, giveUp, cached>>

RequestNext ==
    /\ pc = "note"
    /\ NoteGoal(cached)
    /\ pc' = "idle" /\ asked' = None
    /\ UNCHANGED <<giveUp, cached>>

\* discard_partial: an early-started field that does not roll out is dropped.
DiscardPartial ==
    /\ pc = "idle" /\ cached \in Goal
    /\ cached' = None
    /\ UNCHANGED <<waypoints, orderVars, workerVars, pc, asked, giveUp>>

\* prepare_reloc_goal replaces the cache without a word to the prefetcher.
PrepareReloc ==
    /\ pc = "idle"
    /\ pc' = "reloc" /\ asked' = RelocGoal /\ giveUp' = FALSE /\ cached' = None
    /\ UNCHANGED <<waypoints, orderVars, workerVars>>

RelocDone ==
    /\ pc = "reloc"
    /\ cached' = RelocGoal /\ pc' = "idle" /\ asked' = None
    /\ UNCHANGED <<waypoints, orderVars, workerVars, giveUp>>

\* The caller is preempted: its cancel flag is raised while the call runs.
Preempt ==
    /\ pc \in {"adopt", "solve", "solving", "reloc"} /\ ~giveUp
    /\ giveUp' = TRUE
    /\ UNCHANGED <<waypoints, orderVars, workerVars, pc, asked, cached>>

-----------------------------------------------------------------------------
(* The worker thread.                                                      *)

WorkerTake ==
    /\ wpc = "idle" /\ want # None
    /\ solving' = want /\ want' = None
    /\ cancel' = TRUE /\ stop' = FALSE
    /\ wpc' = "taken"
    /\ UNCHANGED <<waypoints, ready, mainVars>>

WorkerSleep ==
    /\ wpc = "idle" /\ want = None
    /\ wpc' = "asleep"
    /\ UNCHANGED <<waypoints, orderVars, stop, mainVars>>

\* The spare core checks the flag once more before it allocates the field.
WorkerSolveStart ==
    /\ wpc = "taken"
    /\ wpc' = IF stop THEN "dropped" ELSE "solving"
    /\ UNCHANGED <<waypoints, orderVars, stop, mainVars>>

\* SolveDirector::boundary sees the flag.
WorkerCancelled ==
    /\ wpc = "solving" /\ stop
    /\ wpc' = "dropped"
    /\ UNCHANGED <<waypoints, orderVars, stop, mainVars>>

\* The last boundary is passed with the flag still down; whatever is raised
\* after it is not looked at again.
WorkerLastBoundary ==
    /\ wpc = "solving" /\ ~stop
    /\ wpc' = IF solving \in Failing THEN "dropped" ELSE "solved"
    /\ UNCHANGED <<waypoints, orderVars, stop, mainVars>>

\* Mutant: a solve that ends without a field is left marked as running.
WorkerPlaceOnlyFields ==
    /\ wpc \in {"solved", "dropped"}
    /\ IF wpc = "solved" THEN solving' = None /\ ready' = solving
                         ELSE UNCHANGED <<solving, ready>>
    /\ cancel' = FALSE
    /\ wpc' = "idle"
    /\ UNCHANGED <<waypoints, want, stop, mainVars>>

\* Put the result down; the flag of the finished solve is not consulted.
WorkerPlace ==
    /\ wpc \in {"solved", "dropped"}
    /\ solving' = None /\ cancel' = FALSE
    /\ ready' = IF wpc = "solved" THEN solving ELSE ready
    /\ wpc' = "idle"
    /\ UNCHANGED <<waypoints, want, stop, mainVars>>

-----------------------------------------------------------------------------
Main ==
    \/ AdoptReady \/ AdoptWait \/ AdoptElsewhere
    \/ SolveStart \/ SolveDone \/ SolveError \/ RelocDone \/ RequestNext

Clients ==
    \/ SetWaypoints \/ DiscardPartial \/ PrepareReloc \/ Preempt
    \/ \E g \in Goal : PrepareHit(g) \/ PrepareMiss(g)

Worker ==
    \/ WorkerTake \/ WorkerSleep \/ WorkerSolveStart
    \/ WorkerCancelled \/ WorkerLastBoundary \/ WorkerPlace

\* No code reads it: a goal is tagged when the list changes while it is
\* ordered, solved or waiting, and keeps the tag until it is gone.
History ==
    replaced' = {g \in Goal :
        \/ g \in {want', solving', ready'} /\ (g \in replaced \/ waypoints' # waypoints)
        \/ g = cached' /\ g \in replaced}

Next == (Main \/ Clients \/ Worker) /\ History

\* A thread that can take a step eventually does (both run to completion,
\* neither waits on the other while holding State's mutex); the behaviour
\* tree keeps replanning the goal it is driving to.
Fairness ==
    /\ WF_vars(Main)
    /\ WF_vars(Worker)
    /\ \A g \in Goal : WF_vars(PrepareHit(g))

Spec == Init /\ [][Next]_allVars
FairSpec == Spec /\ Fairness

-----------------------------------------------------------------------------
(* Properties.                                                             *)

\* A prefetch that nobody has withdrawn: ordered, or running with its flag armed.
InFlight == {g \in Goal : want = g \/ (solving = g /\ cancel)}

\* The claim adopt's comment rests its cancelling on (prefetch.rs, "why it
\* may cancel"): whenever a client's goal is loaded and no call is in progress,
\* the prefetch in flight is the point after it in the present list; for a goal
\* off the list nothing is in flight.  The comment concedes that replacing the
\* list breaks it for a while: exactly for what was ordered under the old one.
PrefetchIsNext ==
    (pc = "idle" /\ cached \in Goal \ replaced) =>
        \A g \in InFlight \ replaced :
            PositionOf(cached) = [kind |-> "Next", goal |-> g]

\* A solve whose withdrawal nobody recorded: if the prefetch state no longer
\* holds the stop flag of the running solve, that solve has been told to stop,
\* so an order and an unstopped solve never compete for the one worker.
WithdrawnIsStopped ==
    (wpc \in {"taken", "solving", "solved"} /\ ~cancel) => stop

\* adopt always comes back: with the worker running, the wait_timeout loop
\* ends by adoption, by failure of the awaited solve or by preemption.
AdoptReturns == (pc = "adopt") ~> (pc # "adopt")

\* Driving to g long enough, with the 1 Hz replan going on, has the field of
\* the next waypoint waiting, whatever was cancelled before.
NextIsPrefetched ==
    \A g \in Goal :
        LET p == PositionOf(g)
        IN  <>[](cached = g /\ pc = "idle" /\ p.kind = "Next" /\ p.goal \notin Failing)
              => <>[](p.kind = "Next" /\ ready = p.goal)
=============================================================================
