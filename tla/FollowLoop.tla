----------------------------- MODULE FollowLoop -----------------------------
(***************************************************************************)
(* The threads that drive the robot (node/follow_loop.rs) and the servers  *)
(* that start and preempt them (node/servers.rs): follow_path,             *)
(* navigate_to_pose and /goal_pose, follow_waypoints, and the planning     *)
(* requests of compute_path_to_pose, which share the core with them.       *)
(*                                                                         *)
(* Every request has a thread of its own and a cancel flag; the requests   *)
(* that drive share one preemption slot, the planning requests another.    *)
(* The core mutex is held across steps while a field is solved; the ticks  *)
(* of the loops and the workers of node/sweep.rs take it for a moment, so  *)
(* that a try_lock may fail at any time.  The localizer's mutex is never   *)
(* held across steps.  What the field says (goal, action, no action),      *)
(* where the robot is and how a solve ends are left open.  The field       *)
(* itself is the subject of module PlannerCore.                            *)
(***************************************************************************)
EXTENDS Integers, Sequences

CONSTANTS
    Goal,                  \* goals of the requests
    Request, Plan,         \* driving requests; planning requests
    Kinds,                 \* servers in use: "path", "goal", "tour"
    Routes,                \* goals a driving request may come with, in order
    Failing,               \* goals whose solve to the end does not converge
    RelocGoal,             \* the field of prepare_reloc_goal
    None,
    EarlyStart,            \* early_start: solve may stop once the robot can go
    ActiveReloc, LostCreep,\* active_reloc, belief_recovery
    Contention,            \* loops and workers hold the core for moments
    LostBudget,            \* reloc_ticks_limit
    BusyTicks,             \* BUSY_TICKS_BEFORE_STOP
    RetryLimit,            \* goal_retry_limit, negative: no limit
    StopOnFailure          \* waypoint_stop_on_failure

Thread == Request \cup Plan

ASSUME FollowAssumption ==
    /\ Routes \subseteq Seq(Goal) /\ Failing \subseteq Goal
    /\ Kinds \subseteq {"path", "goal", "tour"}
    /\ Request \cap Plan = {} /\ None \notin Thread
    /\ RelocGoal \notin Goal /\ None \notin Goal /\ RelocGoal # None
    /\ {EarlyStart, ActiveReloc, LostCreep, Contention, StopOnFailure} \subseteq BOOLEAN
    /\ LostBudget \in Nat /\ BusyTicks \in Nat \ {0} /\ RetryLimit \in Int

VARIABLES
    core,                \* who holds the core's mutex
    cached, partial,     \* the goal of the loaded field; it is not complete yet
    known,               \* latest_pose is Some
    slot, planSlot,      \* follow_cancel, plan_cancel: whose flag is in them
    flag,                \* the cancel flag of each request
    cmd,                 \* the last command on cmd_vel: by whom, a motion or a stop
    pc, kind, route,     \* of each thread: where it is, its server, goals to go
    reloc, lost, busy,   \* locals of run_follow
    decision,            \* what the tick decided
    retries, outcome,    \* of run_goal; how run_follow ended
    late, quiet          \* history: motions commanded after the flag was raised;
                         \* ticks since the thread last published a command

fieldVars == <<cached, partial>>
slotVars == <<slot, planSlot, flag, kind>>
cmdVars == <<cmd, late, quiet>>
tickVars == <<reloc, lost, busy, decision>>
goalVars == <<route, retries, outcome>>
vars == <<core, fieldVars, known, slotVars, cmdVars, tickVars, goalVars, pc>>

Init ==
    /\ core = None
    /\ cached = None /\ partial = FALSE /\ known = FALSE
    /\ slot = None /\ planSlot = None
    /\ flag = [t \in Thread |-> FALSE] /\ kind = [t \in Thread |-> None]
    /\ cmd = [by |-> None, move |-> FALSE]
    /\ pc = [t \in Thread |-> "idle"] /\ route = [t \in Thread |-> <<>>]
    /\ reloc = [t \in Request |-> "Idle"] /\ lost = [t \in Request |-> 0]
    /\ busy = [t \in Request |-> 0] /\ retries = [t \in Request |-> 0]
    /\ decision = [t \in Request |-> None]
    /\ outcome = [t \in Thread |-> None]
    /\ late = [t \in Request |-> 0] /\ quiet = [t \in Request |-> 0]

-----------------------------------------------------------------------------
goal(t) == Head(route[t])
Goto(t, label) == pc' = [pc EXCEPT ![t] = label]
EndWith(t, how) == outcome' = [outcome EXCEPT ![t] = how]
AtMost(n, bound) == IF n < bound THEN n ELSE bound

\* A command goes out on cmd_vel.
Say(t, move) ==
    /\ cmd' = [by |-> t, move |-> move]
    /\ late' = [late EXCEPT ![t] = AtMost(@ + (IF move /\ flag[t] THEN 1 ELSE 0), 2)]
    /\ quiet' = [quiet EXCEPT ![t] = 0]
StopCmd(t) == Say(t, FALSE)

\* A motion feeds the motion model: the belief may lose the robot, or find it.
Move(t) == Say(t, TRUE) /\ known' \in BOOLEAN
Halt(t) == StopCmd(t) /\ UNCHANGED known

\* A tick ends and the command of an earlier one stays in force.
Silent(t) ==
    /\ quiet' = [quiet EXCEPT ![t] = AtMost(@ + 1, BusyTicks)]
    /\ UNCHANGED <<cmd, late>>

-----------------------------------------------------------------------------
(* The servers.                                                            *)

\* preempt: the flag in the slot, if there is one, is raised.
Preempt(prev) == flag' = [u \in Thread |-> flag[u] \/ u = prev]

\* follow_path, navigate_to_pose, /goal_pose, follow_waypoints: preempt, accept,
\* start the thread.  Without a goal the request is aborted at once.
Accept(t) ==
    /\ pc[t] = "idle"
    /\ Preempt(slot) /\ slot' = t
    /\ \E k \in Kinds, r \in Routes :
         /\ k # "tour" => Len(r) <= 1
         /\ k = "goal" => r # <<>>
         /\ kind' = [kind EXCEPT ![t] = k]
         /\ route' = [route EXCEPT ![t] = r]
         /\ Goto(t, IF r = <<>> THEN "done" ELSE "begin")
    /\ UNCHANGED <<core, fieldVars, known, planSlot, cmdVars, tickVars,
                   retries, outcome>>

\* compute_path_to_pose: it needs a start, the request's own or the latest pose.
AcceptPlan(t) ==
    /\ pc[t] = "idle"
    /\ Preempt(planSlot) /\ planSlot' = t
    /\ kind' = [kind EXCEPT ![t] = "plan"]
    /\ \E g \in Goal, useStart \in BOOLEAN :
         /\ route' = [route EXCEPT ![t] = <<g>>]
         /\ Goto(t, IF useStart \/ known THEN "begin" ELSE "done")
    /\ UNCHANGED <<core, fieldVars, known, slot, cmdVars, tickVars, retries,
                   outcome>>

\* The client of a driving action asks to cancel.
ClientCancel(t) ==
    /\ pc[t] \notin {"idle", "done"} /\ ~flag[t]
    /\ flag' = [flag EXCEPT ![t] = TRUE]
    /\ UNCHANGED <<core, fieldVars, known, slot, planSlot, kind, cmdVars,
                   tickVars, goalVars, pc>>

-----------------------------------------------------------------------------
(* Preparing the field, with the core locked.                              *)

\* A field of another goal is dropped before the cancel flag is looked at; a
\* driving thread has stopped the robot by then.
Begin(t) ==
    /\ pc[t] = "begin" /\ core = None
    /\ core' = t
    /\ IF cached = goal(t)
       THEN Goto(t, "prepared") /\ UNCHANGED <<fieldVars, cmdVars>>
       ELSE /\ Goto(t, IF EarlyStart /\ (t \in Plan \/ known) THEN "solveEarly" ELSE "solve")
            /\ cached' = None /\ partial' = FALSE
            /\ IF t \in Request THEN StopCmd(t) ELSE UNCHANGED cmdVars
    /\ UNCHANGED <<known, slotVars, tickVars, goalVars>>

\* How solve_dense ends: with the field, possibly an early one when a start is
\* given, without it, or cancelled (at the start or at a boundary).
SolveDone(t, early) ==
    /\ early \/ goal(t) \notin Failing
    /\ cached' = goal(t) /\ partial' = early
SolveFails(t) == goal(t) \in Failing /\ UNCHANGED fieldVars
SolveCancelled(t) == flag[t] /\ UNCHANGED fieldVars

\* prepare_goal_with_progress.
Solve(t) ==
    /\ pc[t] \in {"solve", "solveEarly"}
    /\ \/ /\ SolveDone(t, FALSE) \/ (pc[t] = "solveEarly" /\ SolveDone(t, TRUE))
          /\ Goto(t, "prepared") /\ UNCHANGED <<core, outcome>>
       \/ /\ SolveFails(t)
          /\ Goto(t, "returned") /\ EndWith(t, "Failed") /\ core' = None
       \/ /\ SolveCancelled(t)
          /\ Goto(t, "returned") /\ EndWith(t, "Preempted") /\ core' = None
    /\ UNCHANGED <<known, slotVars, cmdVars, tickVars, route, retries>>

\* The rollout of plan: the planning request's result, for navigate_to_pose and
\* follow_waypoints only a path to draw.  A field that is not complete and does
\* not roll out is discarded and solved again, to the end.
Rollout(t) ==
    /\ pc[t] = "prepared"
    /\ \/ /\ Goto(t, IF t \in Plan THEN "returned" ELSE "claim")
          /\ core' = None /\ UNCHANGED fieldVars
       \/ /\ partial /\ kind[t] # "path" /\ (t \in Plan \/ known)
          /\ cached' = None /\ partial' = FALSE
          /\ Goto(t, "again") /\ UNCHANGED core
    /\ UNCHANGED <<known, slotVars, cmdVars, tickVars, goalVars>>

\* However that ends, a driving thread goes on.
SolveAgain(t) ==
    /\ pc[t] = "again"
    /\ SolveDone(t, FALSE) \/ SolveFails(t) \/ SolveCancelled(t)
    /\ core' = None
    /\ Goto(t, IF t \in Plan THEN "returned" ELSE "claim")
    /\ UNCHANGED <<known, slotVars, cmdVars, tickVars, goalVars>>

\* LocalRegion::claim locks the core once more.
ClaimRegion(t) ==
    /\ pc[t] = "claim" /\ core = None
    /\ Goto(t, "tick")
    /\ UNCHANGED <<core, fieldVars, known, slotVars, cmdVars, tickVars, goalVars>>

-----------------------------------------------------------------------------
(* The control loop.                                                       *)

\* run_follow is left: its locals go, and the region is given back (see Release).
Leave(t, how) ==
    /\ Goto(t, "release") /\ EndWith(t, how)
    /\ reloc' = [reloc EXCEPT ![t] = "Idle"] /\ lost' = [lost EXCEPT ![t] = 0]
    /\ busy' = [busy EXCEPT ![t] = 0] /\ decision' = [decision EXCEPT ![t] = None]

\* Mutant: the flag is looked at only when the pose is known.
TickDeafWhenLost(t) ==
    /\ pc[t] = "tick"
    /\ \/ known /\ flag[t] /\ StopCmd(t) /\ Leave(t, "Preempted")
       \/ /\ ~known \/ ~flag[t]
          /\ Goto(t, CASE ~known                -> "lost"
                       [] reloc[t] = "Driving"  -> "back"
                       [] OTHER                 -> "act")
          /\ UNCHANGED <<cmdVars, tickVars, outcome>>
    /\ UNCHANGED <<core, fieldVars, known, slotVars, route, retries>>

\* The top of the loop: the flag, then the pose.
Tick(t) ==
    /\ pc[t] = "tick"
    /\ \/ flag[t] /\ StopCmd(t) /\ Leave(t, "Preempted")
       \/ /\ ~flag[t]
          /\ Goto(t, CASE ~known                -> "lost"
                       [] reloc[t] = "Driving"  -> "back"
                       [] OTHER                 -> "act")
          /\ UNCHANGED <<cmdVars, tickVars, outcome>>
    /\ UNCHANGED <<core, fieldVars, known, slotVars, route, retries>>

\* A request solves, or somebody is at the core for a moment.
TryLockFails == core # None \/ Contention

\* The own goal's field is loaded again.
Relocalized(t) ==
    /\ reloc' = [reloc EXCEPT ![t] = "Idle"] /\ lost' = [lost EXCEPT ![t] = 0]
    /\ Goto(t, "act")

\* Mutant: the robot is not stopped before the goal is solved again.
BackRolls(t) ==
    /\ pc[t] = "back"
    /\ \/ /\ TryLockFails /\ Silent(t) /\ Goto(t, "tick")
          /\ UNCHANGED <<core, fieldVars, reloc, lost>>
       \/ /\ core = None /\ cached = goal(t)
          /\ StopCmd(t) /\ Relocalized(t)
          /\ UNCHANGED <<core, fieldVars>>
       \/ /\ core = None /\ cached # goal(t)
          /\ UNCHANGED cmdVars
          /\ core' = t /\ cached' = None /\ partial' = FALSE
          /\ Goto(t, "backSolve") /\ UNCHANGED <<reloc, lost>>
    /\ UNCHANGED <<known, slotVars, busy, decision, goalVars>>

\* The pose is back after driving on the relocalization field: solve the own
\* goal again, unless the core is busy.
Back(t) ==
    /\ pc[t] = "back"
    /\ \/ /\ TryLockFails /\ Silent(t) /\ Goto(t, "tick")
          /\ UNCHANGED <<core, fieldVars, reloc, lost>>
       \/ /\ core = None /\ cached = goal(t)
          /\ StopCmd(t) /\ Relocalized(t)
          /\ UNCHANGED <<core, fieldVars>>
       \/ /\ core = None /\ cached # goal(t)
          /\ StopCmd(t)
          /\ core' = t /\ cached' = None /\ partial' = FALSE
          /\ Goto(t, "backSolve") /\ UNCHANGED <<reloc, lost>>
    /\ UNCHANGED <<known, slotVars, busy, decision, goalVars>>

BackSolve(t) ==
    /\ pc[t] = "backSolve" /\ core' = None
    /\ \/ SolveDone(t, FALSE) /\ Relocalized(t) /\ UNCHANGED <<busy, decision, outcome>>
       \/ SolveFails(t) /\ Leave(t, "Failed")
       \/ SolveCancelled(t) /\ Leave(t, "Preempted")
    /\ UNCHANGED <<known, slotVars, cmdVars, route, retries>>

\* Mutant: one tick more than allowed.
CoreBusyLate(t) ==
    /\ busy' = [busy EXCEPT ![t] = AtMost(@ + 1, BusyTicks + 1)]
    /\ IF busy'[t] > BusyTicks THEN StopCmd(t) ELSE Silent(t)

\* Without the core the robot is stopped only after some ticks in a row.
CoreBusy(t) ==
    /\ busy' = [busy EXCEPT ![t] = AtMost(@ + 1, BusyTicks)]
    /\ IF busy'[t] >= BusyTicks THEN StopCmd(t) ELSE Silent(t)

\* The critical section of a tick: window, scans, margin and decision.
Act(t) ==
    /\ pc[t] = "act"
    /\ \/ /\ TryLockFails /\ CoreBusy(t) /\ Goto(t, "tick")
          /\ UNCHANGED <<reloc, lost, decision, outcome>>
       \/ /\ core = None /\ cached # goal(t)
          /\ StopCmd(t) /\ Leave(t, "Preempted")
       \/ /\ core = None /\ cached = goal(t)
          /\ busy' = [busy EXCEPT ![t] = 0]
          /\ \E d \in {"Goal", "Action", "NoAction"} :
               decision' = [decision EXCEPT ![t] = d]
          /\ Goto(t, "decided") /\ UNCHANGED <<cmdVars, reloc, lost, outcome>>
    /\ UNCHANGED <<core, fieldVars, known, slotVars, route, retries>>

\* The core is free again: the flag is looked at once more before publishing.
Recheck(t) ==
    /\ pc[t] = "decided"
    /\ \/ flag[t] /\ StopCmd(t) /\ Leave(t, "Preempted")
       \/ ~flag[t] /\ Goto(t, "publish") /\ UNCHANGED <<cmdVars, tickVars, outcome>>
    /\ UNCHANGED <<core, fieldVars, known, slotVars, route, retries>>

\* The tick is over.
NextTick(t) ==
    /\ Goto(t, "tick") /\ decision' = [decision EXCEPT ![t] = None]
    /\ UNCHANGED <<reloc, lost, busy, outcome>>

\* Mutant: the robot is not stopped on the goal.
PublishNoStop(t) ==
    /\ pc[t] = "publish"
    /\ \/ decision[t] = "Goal" /\ UNCHANGED <<cmdVars, known>> /\ Leave(t, "Reached")
       \/ decision[t] = "Action" /\ Move(t) /\ NextTick(t)
       \/ decision[t] = "NoAction" /\ Halt(t) /\ NextTick(t)
    /\ UNCHANGED <<core, fieldVars, slotVars, route, retries>>

Publish(t) ==
    /\ pc[t] = "publish"
    /\ \/ decision[t] = "Goal" /\ Halt(t) /\ Leave(t, "Reached")
       \/ decision[t] = "Action" /\ Move(t) /\ NextTick(t)
       \/ decision[t] = "NoAction" /\ Halt(t) /\ NextTick(t)
    /\ UNCHANGED <<core, fieldVars, slotVars, route, retries>>

-----------------------------------------------------------------------------
(* Without a pose.                                                         *)

\* Nothing was done for relocalization in this tick: creep by the scan, if there
\* is one and room, or stop.
NotActed(t, budget) ==
    /\ Goto(t, "tick")
    /\ Halt(t) \/ (LostCreep /\ budget /\ Move(t))

Lost(t) ==
    /\ pc[t] = "lost"
    /\ LET budget == lost[t] < LostBudget
           active == ActiveReloc /\ budget /\ reloc[t] # "GaveUp"
       IN  /\ lost' = IF budget /\ (ActiveReloc \/ LostCreep)
                      THEN [lost EXCEPT ![t] = @ + 1] ELSE lost
           /\ \/ NotActed(t, budget)
              \/ active /\ Goto(t, "tick") /\ Halt(t)
              \/ active /\ Goto(t, "reloc") /\ UNCHANGED <<cmdVars, known>>
    /\ UNCHANGED <<core, fieldVars, slotVars, reloc, busy, decision, goalVars>>

\* decide_qmdp on whatever field is loaded, if there is one.
DecideReloc(t, field) ==
    \/ /\ field # None
       /\ Goto(t, "relocPublish") /\ UNCHANGED <<cmdVars, known>>
    \/ Goto(t, "tick") /\ Halt(t)

\* With the core: drive on, or solve the field of the targets first.  Neither
\* when it is busy, when there is no target or the flag is up, or for good when
\* the planner runs compact.
Reloc(t) ==
    /\ pc[t] = "reloc"
    /\ \/ /\ TryLockFails \/ reloc[t] = "Idle"
          /\ NotActed(t, TRUE) /\ UNCHANGED <<core, fieldVars, reloc>>
       \/ /\ core = None /\ reloc[t] = "Idle"
          /\ reloc' = [reloc EXCEPT ![t] = "GaveUp"]
          /\ NotActed(t, TRUE) /\ UNCHANGED <<core, fieldVars>>
       \/ /\ core = None /\ reloc[t] = "Driving"
          /\ DecideReloc(t, cached) /\ UNCHANGED <<core, fieldVars, reloc>>
       \/ /\ core = None /\ reloc[t] = "Idle" /\ ~flag[t]
          /\ core' = t /\ cached' = None /\ partial' = FALSE
          /\ Goto(t, "relocSolve") /\ UNCHANGED <<cmdVars, known, reloc>>
    /\ UNCHANGED <<slotVars, lost, busy, decision, goalVars>>

\* prepare_reloc_goal: solved, given up for this goal, or cancelled.
RelocSolve(t) ==
    /\ pc[t] = "relocSolve" /\ core' = None
    /\ \/ /\ cached' = RelocGoal
          /\ reloc' = [reloc EXCEPT ![t] = "Driving"]
          /\ DecideReloc(t, RelocGoal)
       \/ /\ reloc' = [reloc EXCEPT ![t] = "GaveUp"]
          /\ NotActed(t, TRUE) /\ UNCHANGED cached
       \/ /\ flag[t]
          /\ NotActed(t, TRUE) /\ UNCHANGED <<cached, reloc>>
    /\ UNCHANGED <<partial, slotVars, lost, busy, decision, goalVars>>

RelocPublish(t) ==
    /\ pc[t] = "relocPublish"
    /\ Move(t) /\ NextTick(t)
    /\ UNCHANGED <<core, fieldVars, slotVars, route, retries>>

-----------------------------------------------------------------------------
(* The end of a try, settling, retries and tours.                          *)

\* LocalRegion::drop waits for the core.
Release(t) ==
    /\ pc[t] = "release" /\ core = None
    /\ Goto(t, "returned")
    /\ UNCHANGED <<core, fieldVars, known, slotVars, cmdVars, tickVars, goalVars>>

Retries(t) ==
    /\ kind[t] \in {"goal", "tour"} /\ outcome[t] = "Failed"
    /\ RetryLimit < 0 \/ retries[t] < RetryLimit

\* run_goal: settle, unless no time is set for it, and then once more.
Retry(t) ==
    /\ pc[t] = "returned" /\ t \in Request /\ Retries(t)
    /\ retries' = IF RetryLimit < 0 THEN retries ELSE [retries EXCEPT ![t] = @ + 1]
    /\ EndWith(t, None)
    /\ Goto(t, "settleClaim") \/ Goto(t, "resume")
    /\ UNCHANGED <<core, fieldVars, known, slotVars, cmdVars, tickVars, route>>

\* follow_waypoints goes on to its next point; everything else is over.  A tour
\* stops the robot once more at its end.
Finish(t) ==
    /\ pc[t] = "returned" /\ (t \in Request => ~Retries(t))
    /\ LET on == /\ kind[t] = "tour" /\ Len(route[t]) > 1
                 /\ \/ outcome[t] = "Reached"
                    \/ outcome[t] = "Failed" /\ ~StopOnFailure
       IN  \/ /\ on
              /\ route' = [route EXCEPT ![t] = Tail(@)]
              /\ retries' = [retries EXCEPT ![t] = 0] /\ EndWith(t, None)
              /\ Goto(t, "begin") /\ UNCHANGED cmdVars
           \/ /\ ~on
              /\ Goto(t, "done")
              /\ IF kind[t] = "tour" THEN StopCmd(t) ELSE UNCHANGED cmdVars
              /\ UNCHANGED goalVars
    /\ UNCHANGED <<core, fieldVars, known, slotVars, tickVars>>

SettleClaim(t) ==
    /\ pc[t] = "settleClaim" /\ core = None
    /\ Goto(t, "settle")
    /\ UNCHANGED <<core, fieldVars, known, slotVars, cmdVars, tickVars, goalVars>>

\* run_settle: until the deadline or the flag, ticks with the robot stopped that
\* take scans in when the core is free.
Settle(t) ==
    /\ pc[t] = "settle"
    /\ \/ Goto(t, "settled") /\ UNCHANGED cmdVars
       \/ ~flag[t] /\ StopCmd(t) /\ UNCHANGED pc
    /\ UNCHANGED <<core, fieldVars, known, slotVars, tickVars, goalVars>>

\* The region is given back.
Settled(t) ==
    /\ pc[t] = "settled" /\ core = None
    /\ Goto(t, "resume")
    /\ UNCHANGED <<core, fieldVars, known, slotVars, cmdVars, tickVars, goalVars>>

\* Mutant: no look at the flag between two tries.
ResumeDeaf(t) ==
    /\ pc[t] = "resume"
    /\ \/ FALSE /\ StopCmd(t) /\ Goto(t, "returned") /\ EndWith(t, "Preempted")
       \/ TRUE /\ Goto(t, "begin") /\ UNCHANGED <<cmdVars, outcome>>
    /\ UNCHANGED <<core, fieldVars, known, slotVars, tickVars, route, retries>>

\* The flag is looked at before the next try.
Resume(t) ==
    /\ pc[t] = "resume"
    /\ \/ flag[t] /\ StopCmd(t) /\ Goto(t, "returned") /\ EndWith(t, "Preempted")
       \/ ~flag[t] /\ Goto(t, "begin") /\ UNCHANGED <<cmdVars, outcome>>
    /\ UNCHANGED <<core, fieldVars, known, slotVars, tickVars, route, retries>>

-----------------------------------------------------------------------------
(* The rest of the node.                                                   *)

\* A scan or a pose arrives: the estimate appears or is lost.
Observe ==
    /\ known' = ~known
    /\ UNCHANGED <<core, fieldVars, slotVars, cmdVars, tickVars, goalVars, pc>>

\* The workers complete an early field.
MarkComplete ==
    /\ partial /\ core = None /\ partial' = FALSE
    /\ UNCHANGED <<core, cached, known, slotVars, cmdVars, tickVars, goalVars, pc>>

-----------------------------------------------------------------------------
Preparing(t) == Solve(t) \/ Rollout(t) \/ SolveAgain(t) \/ Finish(t)

Driving(t) ==
    \/ Tick(t) \/ Back(t) \/ BackSolve(t) \/ Act(t) \/ Recheck(t) \/ Publish(t)
    \/ Lost(t) \/ Reloc(t) \/ RelocSolve(t) \/ RelocPublish(t)
    \/ Retry(t) \/ Settle(t) \/ Resume(t)

\* Steps of a driving thread that wait for the core.
Locking(t) == ClaimRegion(t) \/ Release(t) \/ SettleClaim(t) \/ Settled(t)

Next ==
    \/ \E t \in Request : Accept(t) \/ ClientCancel(t) \/ Driving(t) \/ Locking(t)
    \/ \E t \in Plan : AcceptPlan(t)
    \/ \E t \in Thread : Begin(t) \/ Preparing(t)
    \/ Observe \/ MarkComplete

\* Threads run and solves come to an end.  Whoever releases the core sleeps until
\* its next tick or ends, so that a thread waiting for it gets it in the end.
Fairness ==
    /\ \A t \in Thread : WF_vars(Preparing(t)) /\ SF_vars(Begin(t))
    /\ \A t \in Request : WF_vars(Driving(t)) /\ SF_vars(Locking(t))

Spec == Init /\ [][Next]_vars
FairSpec == Spec /\ Fairness

-----------------------------------------------------------------------------
(* Properties.                                                             *)

\* follow_loop.rs, every way out of run_follow and run_goal: when no request is
\* under way any more, the last command the robot got is a stop, whichever
\* thread was the last to speak.
NobodyDrivesIsStopped ==
    (\A t \in Request : pc[t] \in {"idle", "done"}) => ~cmd.move

\* The two looks at the cancel flag in a tick: a thread that has been preempted
\* or cancelled commands at most one more motion.
AtMostOneLateMotion == \A t \in Request : late[t] <= 1

\* BUSY_TICKS_BEFORE_STOP: while another request solves, the robot does not run
\* on for long with a velocity of before.  The branch that returns from driving on
\* the relocalization field is left out: it skips ticks without counting them.
StaleCommandEnds ==
    \A t \in Request :
        (cmd.by = t /\ cmd.move /\ reloc[t] # "Driving") => quiet[t] < BusyTicks

\* The robot must not creep on with an old command for the seconds a solve takes:
\* run_follow's first step and its return from relocalization stop the robot
\* before they solve the goal, so while a thread solves it, its own last command
\* is a stop.  The solve of the relocalization field is left out: the lost branch
\* starts it with the command of the last tick still in force.
SolvesStandingStill ==
    \A t \in Request :
        (pc[t] \in {"solve", "solveEarly", "again", "backSolve"} /\ cmd.move) =>
            cmd.by # t

\* Every thread that is preempted or cancelled ends, whatever it was waiting for
\* and however often its solves fail.
CancelledEnds == \A t \in Request : flag[t] ~> (pc[t] = "done")
=============================================================================
