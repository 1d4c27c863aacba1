-------------------------- MODULE FollowLoopProofs --------------------------
(***************************************************************************)
(* The safety of the driving threads for any number of requests, goals and *)
(* routes and every setting of the parameters.                             *)
(***************************************************************************)
EXTENDS FollowLoop, TLAPS

Label ==
    {"idle", "begin", "solve", "solveEarly", "prepared", "again", "claim", "tick",
     "back", "backSolve", "act", "decided", "publish", "lost", "reloc", "relocSolve",
     "relocPublish", "release", "returned", "settleClaim", "settle", "settled",
     "resume", "done"}

\* In the control loop, where a motion of the thread may be in force.
InLoop ==
    {"tick", "back", "act", "decided", "publish", "lost", "reloc", "relocSolve",
     "relocPublish"}

Typed ==
    /\ pc \in [Thread -> Label]
    /\ flag \in [Thread -> BOOLEAN]
    /\ outcome \in [Thread -> {"Reached", "Preempted", "Failed", None}]
    /\ late \in [Request -> 0 .. 2]
    /\ cmd \in [by : Thread \cup {None}, move : BOOLEAN]

\* A motion in force is one of a thread that is still in its loop.
Commander == cmd.move => cmd.by \in Request /\ pc[cmd.by] \in InLoop

\* A thread that moved the robot after its flag went up is at the top of its loop
\* or on its way out, and reports that it was preempted.
Latecomer(t) ==
    late[t] # 0 =>
        /\ late[t] = 1 /\ flag[t]
        /\ pc[t] \in {"tick", "release", "returned", "done"}
        /\ pc[t] \in {"release", "returned"} => outcome[t] = "Preempted"

Inv == Typed /\ Commander /\ \A t \in Request : Latecomer(t)

-----------------------------------------------------------------------------
(* What commands do to the invariant's variables.                          *)

\* stop_cmd: the robot stops, and nothing is counted.
LEMMA StopFacts ==
    ASSUME Typed, NEW t \in Thread, StopCmd(t)
    PROVE  /\ cmd' = [by |-> t, move |-> FALSE]
           /\ late' = late
  BY DEF Typed, StopCmd, Say, AtMost

\* A motion is counted if it comes after the flag.
LEMMA MoveFacts ==
    ASSUME Typed, NEW t \in Request, Move(t), late[t] = 0
    PROVE  /\ cmd' = [by |-> t, move |-> TRUE]
           /\ late' \in [Request -> 0 .. 2]
           /\ \A u \in Request : u # t => late'[u] = late[u]
           /\ late'[t] # 0 => late'[t] = 1 /\ flag[t]
  BY DEF Typed, Move, Say, AtMost

\* A step of t that moves its pc, may raise flags, and stops the robot or leaves the command alone.
LEMMA QuietStep ==
    ASSUME Inv, NEW t \in Thread, NEW l \in Label, Goto(t, l),
           flag' \in [Thread -> BOOLEAN], \A u \in Thread : flag[u] => flag'[u],
           late' = late,
           \/ /\ cmd' = cmd
              /\ l \in InLoop \/ pc[t] \notin InLoop
           \/ cmd' = [by |-> t, move |-> FALSE],
           outcome' \in [Thread -> {"Reached", "Preempted", "Failed", None}],
           \A u \in Thread : u # t => outcome'[u] = outcome[u],
           t \in Request /\ late[t] # 0 =>
               /\ l \in {"tick", "release", "returned", "done"}
               /\ l \in {"release", "returned"} => outcome'[t] = "Preempted"
    PROVE  Inv'
  <1>1. Typed'
    <2>1. pc' \in [Thread -> Label]
      BY DEF Inv, Typed, Goto
    <2>2. cmd' \in [by : Thread \cup {None}, move : BOOLEAN]
      <3>1. CASE cmd' = cmd
        BY <3>1 DEF Inv, Typed
      <3>2. CASE cmd' = [by |-> t, move |-> FALSE]
        BY <3>2
      <3> QED
        BY <3>1, <3>2
    <2>3. late' \in [Request -> 0 .. 2]
      BY DEF Inv, Typed
    <2> QED
      BY <2>1, <2>2, <2>3 DEF Typed
  <1>2. Commander'
    BY DEF Inv, Typed, Commander, Goto, Thread
  <1>3. ASSUME NEW u \in Request PROVE Latecomer(u)'
    BY <1>3 DEF Inv, Typed, Latecomer, Goto, Thread
  <1> QED
    BY <1>1, <1>2, <1>3 DEF Inv

\* A step of t that commands a motion and goes back to the top of the loop.
LEMMA MoveStep ==
    ASSUME Inv, NEW t \in Request, Move(t), Goto(t, "tick"), late[t] = 0,
           flag' = flag, outcome' = outcome
    PROVE  Inv'
  <1>1. Typed
    BY DEF Inv
  <1>2. /\ cmd' = [by |-> t, move |-> TRUE]
        /\ late' \in [Request -> 0 .. 2]
        /\ \A u \in Request : u # t => late'[u] = late[u]
        /\ late'[t] # 0 => late'[t] = 1 /\ flag[t]
    BY <1>1, MoveFacts
  <1>3. Typed'
    BY <1>1, <1>2 DEF Typed, Goto, Label, Thread
  <1>4. Commander'
    BY <1>1, <1>2 DEF Typed, Commander, Goto, InLoop, Thread
  <1>5. ASSUME NEW u \in Request PROVE Latecomer(u)'
    BY <1>1, <1>2, <1>5 DEF Inv, Typed, Latecomer, Goto, Thread
  <1> QED
    BY <1>3, <1>4, <1>5 DEF Inv

\* A thread that is elsewhere has commanded nothing after its flag.
LEMMA NotLate ==
    ASSUME Inv, NEW t \in Request,
           pc[t] \notin {"tick", "release", "returned", "done"}
    PROVE  late[t] = 0
  BY DEF Inv, Latecomer

\* The outcome of run_follow is one of its three.
LEMMA EndFacts ==
    ASSUME Typed, NEW t \in Thread,
           NEW how \in {"Reached", "Preempted", "Failed", None}, EndWith(t, how)
    PROVE  /\ outcome' \in [Thread -> {"Reached", "Preempted", "Failed", None}]
           /\ \A u \in Thread : u # t => outcome'[u] = outcome[u]
           /\ outcome'[t] = how
  BY DEF Typed, EndWith

-----------------------------------------------------------------------------
(* The servers and the preparation of the field.                           *)

\* preempt raises flags and lowers none.
LEMMA PreemptFacts ==
    ASSUME Typed, NEW prev, Preempt(prev)
    PROVE  /\ flag' \in [Thread -> BOOLEAN]
           /\ \A u \in Thread : flag[u] => flag'[u]
  BY Zenon DEF Typed, Preempt

\* A request arrives, or its client cancels it.
LEMMA ServerSteps ==
    ASSUME Inv, NEW t \in Thread,
           \/ t \in Request /\ (Accept(t) \/ ClientCancel(t))
           \/ t \in Plan /\ AcceptPlan(t)
    PROVE  Inv'
  <1>1. Typed
    BY DEF Inv
  <1>2. CASE t \in Request /\ Accept(t)
    <2>1. PICK l \in {"done", "begin"} : Goto(t, l)
      BY <1>2 DEF Accept
    <2>2. /\ flag' \in [Thread -> BOOLEAN]
          /\ \A u \in Thread : flag[u] => flag'[u]
      BY <1>1, <1>2, PreemptFacts DEF Accept
    <2>3. late[t] = 0 /\ pc[t] \notin InLoop
      BY <1>2, NotLate DEF Accept, InLoop
    <2>4. cmd' = cmd /\ late' = late /\ outcome' = outcome
      BY <1>2 DEF Accept, cmdVars
    <2> QED
      BY <1>1, <1>2, <2>1, <2>2, <2>3, <2>4, QuietStep DEF Typed, Label
  <1>3. CASE t \in Plan /\ AcceptPlan(t)
    <2>1. PICK l \in {"done", "begin"} : Goto(t, l)
      BY <1>3 DEF AcceptPlan
    <2>2. /\ flag' \in [Thread -> BOOLEAN]
          /\ \A u \in Thread : flag[u] => flag'[u]
      BY <1>1, <1>3, PreemptFacts DEF AcceptPlan
    <2>3. t \notin Request /\ pc[t] \notin InLoop
      BY <1>3, FollowAssumption DEF AcceptPlan, InLoop
    <2>4. cmd' = cmd /\ late' = late /\ outcome' = outcome
      BY <1>3 DEF AcceptPlan, cmdVars
    <2> QED
      BY <1>1, <1>3, <2>1, <2>2, <2>3, <2>4, QuietStep DEF Typed, Label
  <1>4. CASE t \in Request /\ ClientCancel(t)
    <2>1. /\ flag' \in [Thread -> BOOLEAN]
          /\ \A u \in Thread : flag[u] => flag'[u]
      BY <1>1, <1>4, Zenon DEF Typed, ClientCancel
    <2>2. cmd' = cmd /\ late' = late /\ outcome' = outcome /\ pc' = pc
      BY <1>4 DEF ClientCancel, cmdVars, goalVars
    <2> QED
      BY <1>1, <2>1, <2>2 DEF Inv, Typed, Commander, Latecomer, Thread
  <1> QED
    BY <1>2, <1>3, <1>4

-----------------------------------------------------------------------------
(* The shapes that the steps of a thread have.                             *)

\* Nothing is commanded, and no motion is left in force behind the thread.
LEMMA PassStep ==
    ASSUME Inv, NEW t \in Thread, NEW l \in Label, Goto(t, l),
           flag' = flag, outcome' = outcome, UNCHANGED cmdVars,
           l \in InLoop \/ pc[t] \notin InLoop,
           t \in Request => late[t] = 0
    PROVE  Inv'
  <1>1. /\ flag' \in [Thread -> BOOLEAN] /\ \A u \in Thread : flag[u] => flag'[u]
        /\ outcome' \in [Thread -> {"Reached", "Preempted", "Failed", None}]
        /\ \A u \in Thread : u # t => outcome'[u] = outcome[u]
    BY DEF Inv, Typed
  <1>2. cmd' = cmd /\ late' = late
    BY DEF cmdVars
  <1> QED
    BY <1>1, <1>2, QuietStep

\* The robot is stopped.
LEMMA StopStep ==
    ASSUME Inv, NEW t \in Thread, NEW l \in Label, Goto(t, l),
           flag' = flag, outcome' = outcome, StopCmd(t),
           t \in Request => late[t] = 0
    PROVE  Inv'
  <1>1. /\ flag' \in [Thread -> BOOLEAN] /\ \A u \in Thread : flag[u] => flag'[u]
        /\ outcome' \in [Thread -> {"Reached", "Preempted", "Failed", None}]
        /\ \A u \in Thread : u # t => outcome'[u] = outcome[u]
    BY DEF Inv, Typed
  <1>2. cmd' = [by |-> t, move |-> FALSE] /\ late' = late
    BY StopFacts DEF Inv
  <1> QED
    BY <1>1, <1>2, QuietStep

\* A try ends: with a stop, or where the robot has been stopped before.  A late
\* motion leaves only the way of the cancelled.
LEMMA EndStep ==
    ASSUME Inv, NEW t \in Thread, NEW l \in {"release", "returned"}, Goto(t, l),
           NEW how \in {"Reached", "Preempted", "Failed"}, EndWith(t, how),
           flag' = flag,
           StopCmd(t) \/ (pc[t] \notin InLoop /\ UNCHANGED cmdVars),
           t \in Request => late[t] = 0 \/ how = "Preempted"
    PROVE  Inv'
  <1>1. flag' \in [Thread -> BOOLEAN] /\ \A u \in Thread : flag[u] => flag'[u]
    BY DEF Inv, Typed
  <1>2. /\ outcome' \in [Thread -> {"Reached", "Preempted", "Failed", None}]
        /\ \A u \in Thread : u # t => outcome'[u] = outcome[u]
        /\ outcome'[t] = how
    BY EndFacts DEF Inv
  <1>3. late' = late /\ (\/ cmd' = [by |-> t, move |-> FALSE]
                         \/ cmd' = cmd /\ pc[t] \notin InLoop)
    BY StopFacts DEF Inv, cmdVars
  <1> QED
    BY <1>1, <1>2, <1>3, QuietStep DEF Label

\* Steps that touch nothing of the invariant.
LEMMA SkipStep ==
    ASSUME Inv, UNCHANGED <<pc, flag, outcome, late, cmd>>
    PROVE  Inv'
  BY DEF Inv, Typed, Commander, Latecomer

-----------------------------------------------------------------------------
(* Preparing the field.                                                    *)

\* Taking the core and what follows up to the loop, of any thread.
LEMMA PrepareSteps ==
    ASSUME Inv, NEW t \in Thread,
           Begin(t) \/ Solve(t) \/ Rollout(t) \/ SolveAgain(t)
    PROVE  Inv'
  <1>1. pc[t] \notin InLoop /\ flag' = flag /\ (t \in Request => late[t] = 0)
    BY NotLate DEF Begin, Solve, Rollout, SolveAgain, InLoop, slotVars
  <1>2. CASE Begin(t)
    <2>1. PICK l \in {"prepared", "solveEarly", "solve"} : Goto(t, l)
      BY <1>2 DEF Begin
    <2>2. outcome' = outcome
      BY <1>2 DEF Begin, goalVars
    <2>3. UNCHANGED cmdVars \/ StopCmd(t)
      BY <1>2 DEF Begin
    <2> QED
      BY <1>1, <2>1, <2>2, <2>3, PassStep, StopStep DEF Label
  <1>3. CASE Solve(t)
    <2>1. UNCHANGED cmdVars
      BY <1>3 DEF Solve
    <2>2. \/ Goto(t, "prepared") /\ outcome' = outcome
          \/ Goto(t, "returned") /\ EndWith(t, "Failed")
          \/ Goto(t, "returned") /\ EndWith(t, "Preempted")
      BY <1>3 DEF Solve
    <2> QED
      BY <1>1, <2>1, <2>2, PassStep, EndStep DEF Label
  <1>4. CASE Rollout(t) \/ SolveAgain(t)
    <2>1. PICK l \in {"returned", "claim", "again"} : Goto(t, l)
      BY <1>4 DEF Rollout, SolveAgain
    <2>2. UNCHANGED cmdVars /\ outcome' = outcome
      BY <1>4 DEF Rollout, SolveAgain, goalVars
    <2> QED
      BY <1>1, <2>1, <2>2, PassStep DEF Label
  <1> QED
    BY <1>2, <1>3, <1>4

\* The end of a try: on to the next point of a tour, which no thread with a late
\* motion does, or the end of the request.
LEMMA FinishStep ==
    ASSUME Inv, NEW t \in Thread, Finish(t)
    PROVE  Inv'
  <1>1. /\ pc[t] = "returned" /\ pc[t] \notin InLoop /\ flag' = flag
        /\ flag' \in [Thread -> BOOLEAN] /\ \A u \in Thread : flag[u] => flag'[u]
    BY DEF Finish, slotVars, InLoop, Inv, Typed
  <1>2. CASE Goto(t, "begin") /\ EndWith(t, None) /\ UNCHANGED cmdVars
             /\ outcome[t] # "Preempted"
    <2>1. t \in Request => late[t] = 0
      BY <1>1, <1>2 DEF Inv, Latecomer
    <2>2. /\ outcome' \in [Thread -> {"Reached", "Preempted", "Failed", None}]
          /\ \A u \in Thread : u # t => outcome'[u] = outcome[u]
      BY <1>2, EndFacts DEF Inv
    <2>3. cmd' = cmd /\ late' = late
      BY <1>2 DEF cmdVars
    <2> QED
      BY <1>1, <1>2, <2>1, <2>2, <2>3, QuietStep DEF Label
  <1>3. CASE Goto(t, "done") /\ UNCHANGED goalVars /\ (StopCmd(t) \/ UNCHANGED cmdVars)
    <2>1. /\ outcome' \in [Thread -> {"Reached", "Preempted", "Failed", None}]
          /\ \A u \in Thread : u # t => outcome'[u] = outcome[u]
      BY <1>3 DEF Inv, Typed, goalVars
    <2>2. late' = late /\ (cmd' = cmd \/ cmd' = [by |-> t, move |-> FALSE])
      BY <1>3, StopFacts DEF Inv, cmdVars
    <2> QED
      BY <1>1, <1>3, <2>1, <2>2, QuietStep DEF Label
  <1> QED
    BY <1>2, <1>3 DEF Finish

-----------------------------------------------------------------------------
(* The control loop.                                                       *)

\* A tick of the lost robot that does nothing for relocalization.
LEMMA NotActedStep ==
    ASSUME Inv, NEW t \in Request, NEW budget, NotActed(t, budget), late[t] = 0,
           flag' = flag, outcome' = outcome
    PROVE  Inv'
  <1>1. CASE Goto(t, "tick") /\ StopCmd(t)
    BY <1>1, StopStep DEF Thread, Label
  <1>2. CASE Goto(t, "tick") /\ Move(t)
    BY <1>2, MoveStep
  <1> QED
    BY <1>1, <1>2 DEF NotActed, Halt

\* A tick on the relocalization field.
LEMMA DecideRelocStep ==
    ASSUME Inv, NEW t \in Request, NEW field, DecideReloc(t, field), late[t] = 0,
           flag' = flag, outcome' = outcome
    PROVE  Inv'
  <1>1. CASE Goto(t, "tick") /\ StopCmd(t)
    BY <1>1, StopStep DEF Thread, Label
  <1>2. CASE Goto(t, "relocPublish") /\ UNCHANGED cmdVars
    BY <1>2, PassStep DEF Thread, Label, InLoop
  <1> QED
    BY <1>1, <1>2 DEF DecideReloc, Halt

\* The looks at the flag: a thread whose flag is up leaves, one that goes on has
\* not moved late.
LEMMA LookSteps ==
    ASSUME Inv, NEW t \in Request, Tick(t) \/ Recheck(t)
    PROVE  Inv'
  <1>1. t \in Thread /\ flag' = flag
    BY DEF Tick, Recheck, slotVars, Thread
  <1>2. CASE flag[t] /\ StopCmd(t) /\ Leave(t, "Preempted")
    BY <1>1, <1>2, EndStep DEF Leave
  <1>3. CASE ~flag[t] /\ UNCHANGED <<cmdVars, tickVars, outcome>>
    <2>1. PICK l \in {"lost", "back", "act", "publish"} : Goto(t, l)
      BY <1>3 DEF Tick, Recheck, Leave
    <2>2. late[t] = 0
      BY <1>3 DEF Inv, Latecomer
    <2> QED
      BY <1>1, <1>3, <2>1, <2>2, PassStep DEF Label, InLoop
  <1> QED
    BY <1>2, <1>3 DEF Tick, Recheck

\* The return from relocalization.
LEMMA BackSteps ==
    ASSUME Inv, NEW t \in Request, Back(t) \/ BackSolve(t)
    PROVE  Inv'
  <1>1. t \in Thread /\ flag' = flag /\ late[t] = 0
    BY NotLate DEF Back, BackSolve, slotVars, Thread
  <1>2. CASE Back(t)
    <2>1. \/ Goto(t, "tick") /\ Silent(t)
          \/ Goto(t, "act") /\ StopCmd(t)
          \/ Goto(t, "backSolve") /\ StopCmd(t)
      BY <1>2 DEF Back, Relocalized
    <2>2. outcome' = outcome
      BY <1>2 DEF Back, goalVars
    <2>3. CASE Goto(t, "tick") /\ Silent(t)
      <3>1. /\ outcome' \in [Thread -> {"Reached", "Preempted", "Failed", None}]
            /\ flag' \in [Thread -> BOOLEAN] /\ cmd' = cmd /\ late' = late
        BY <1>1, <2>2, <2>3 DEF Silent, Inv, Typed
      <3> QED
        BY <1>1, <2>2, <2>3, <3>1, QuietStep DEF Label, InLoop
    <2> QED
      BY <1>1, <2>1, <2>2, <2>3, StopStep DEF Label
  <1>3. CASE BackSolve(t)
    <2>1. \/ Goto(t, "act") /\ outcome' = outcome
          \/ Goto(t, "release") /\ EndWith(t, "Failed")
          \/ Goto(t, "release") /\ EndWith(t, "Preempted")
      BY <1>3 DEF BackSolve, Relocalized, Leave
    <2>2. UNCHANGED cmdVars /\ pc[t] \notin InLoop
      BY <1>3 DEF BackSolve, InLoop
    <2> QED
      BY <1>1, <2>1, <2>2, PassStep, EndStep DEF Label
  <1> QED
    BY <1>2, <1>3

\* The critical section and what is published after it.
LEMMA ActSteps ==
    ASSUME Inv, NEW t \in Request, Act(t) \/ Publish(t) \/ RelocPublish(t)
    PROVE  Inv'
  <1>1. t \in Thread /\ flag' = flag /\ late[t] = 0
    BY NotLate DEF Act, Publish, RelocPublish, slotVars, Thread
  <1>2. CASE Act(t)
    <2>1. CASE CoreBusy(t) /\ Goto(t, "tick") /\ UNCHANGED outcome
      <3>1. CASE StopCmd(t)
        BY <1>1, <2>1, <3>1, StopStep DEF Label
      <3>2. CASE Silent(t)
        <4>1. /\ outcome' \in [Thread -> {"Reached", "Preempted", "Failed", None}]
              /\ flag' \in [Thread -> BOOLEAN] /\ cmd' = cmd /\ late' = late
          BY <1>1, <2>1, <3>2 DEF Silent, Inv, Typed
        <4> QED
          BY <1>1, <2>1, <4>1, QuietStep DEF Label, InLoop
      <3> QED
        BY <2>1, <3>1, <3>2 DEF CoreBusy
    <2>2. CASE StopCmd(t) /\ Leave(t, "Preempted")
      BY <1>1, <2>2, EndStep DEF Leave
    <2>3. CASE Goto(t, "decided") /\ UNCHANGED <<cmdVars, reloc, lost, outcome>>
      BY <1>1, <2>3, PassStep DEF Label, InLoop
    <2> QED
      BY <1>2, <2>1, <2>2, <2>3 DEF Act
  <1>3. CASE Publish(t) \/ RelocPublish(t)
    <2>1. \/ Halt(t) /\ Leave(t, "Reached")
          \/ Move(t) /\ NextTick(t)
          \/ Halt(t) /\ NextTick(t)
      BY <1>3 DEF Publish, RelocPublish
    <2>2. CASE Halt(t) /\ Leave(t, "Reached")
      BY <1>1, <2>2, EndStep DEF Halt, Leave
    <2>3. CASE Move(t) /\ NextTick(t)
      BY <1>1, <2>3, MoveStep DEF NextTick
    <2>4. CASE Halt(t) /\ NextTick(t)
      BY <1>1, <2>4, StopStep DEF Halt, NextTick, Label
    <2> QED
      BY <2>1, <2>2, <2>3, <2>4
  <1> QED
    BY <1>2, <1>3

\* Ticks without a pose.
LEMMA LostSteps ==
    ASSUME Inv, NEW t \in Request, Lost(t) \/ Reloc(t) \/ RelocSolve(t)
    PROVE  Inv'
  <1>1. t \in Thread /\ flag' = flag /\ outcome' = outcome /\ late[t] = 0
    BY NotLate DEF Lost, Reloc, RelocSolve, slotVars, goalVars, Thread
  <1>2. CASE NotActed(t, lost[t] < LostBudget) \/ NotActed(t, TRUE)
    BY <1>1, <1>2, NotActedStep
  <1>3. CASE DecideReloc(t, cached) \/ DecideReloc(t, RelocGoal)
    BY <1>1, <1>3, DecideRelocStep
  <1>4. CASE Goto(t, "tick") /\ Halt(t)
    BY <1>1, <1>4, StopStep DEF Halt, Label
  <1>5. CASE (Goto(t, "reloc") \/ Goto(t, "relocSolve")) /\ UNCHANGED cmdVars
    BY <1>1, <1>5, PassStep DEF Label, InLoop
  <1>6. CASE Lost(t)
    BY <1>6, <1>2, <1>4, <1>5 DEF Lost
  <1>7. CASE Reloc(t)
    BY <1>7, <1>2, <1>3, <1>5 DEF Reloc
  <1>8. CASE RelocSolve(t)
    BY <1>8, <1>2, <1>3 DEF RelocSolve
  <1> QED
    BY <1>6, <1>7, <1>8

-----------------------------------------------------------------------------
(* The end of a try, settling and retries.                                 *)

\* The region is given back; a thread with a late motion takes its outcome along.
LEMMA ReleaseStep ==
    ASSUME Inv, NEW t \in Request, Release(t)
    PROVE  Inv'
  <1>1. /\ t \in Thread /\ pc[t] = "release" /\ Goto(t, "returned")
        /\ flag' = flag /\ outcome' = outcome /\ cmd' = cmd /\ late' = late
    BY DEF Release, slotVars, goalVars, cmdVars, Thread
  <1>2. /\ flag' \in [Thread -> BOOLEAN]
        /\ outcome' \in [Thread -> {"Reached", "Preempted", "Failed", None}]
    BY <1>1 DEF Inv, Typed
  <1>3. late[t] # 0 => outcome'[t] = "Preempted"
    BY <1>1 DEF Inv, Latecomer
  <1> QED
    BY <1>1, <1>2, <1>3, QuietStep DEF Label, InLoop

\* A retry follows a failure, so that no motion was late.
LEMMA RetryStep ==
    ASSUME Inv, NEW t \in Request, Retry(t)
    PROVE  Inv'
  <1>1. /\ t \in Thread /\ pc[t] = "returned" /\ outcome[t] = "Failed"
        /\ EndWith(t, None) /\ flag' = flag /\ cmd' = cmd /\ late' = late
    BY DEF Retry, Retries, slotVars, cmdVars, Thread
  <1>2. late[t] = 0
    BY <1>1 DEF Inv, Latecomer
  <1>3. PICK l \in {"settleClaim", "resume"} : Goto(t, l)
    BY DEF Retry
  <1>4. flag' \in [Thread -> BOOLEAN]
    BY <1>1 DEF Inv, Typed
  <1>5. /\ outcome' \in [Thread -> {"Reached", "Preempted", "Failed", None}]
        /\ \A u \in Thread : u # t => outcome'[u] = outcome[u]
    BY <1>1, EndFacts DEF Inv
  <1> QED
    BY <1>1, <1>2, <1>3, <1>4, <1>5, QuietStep DEF Label, InLoop

\* Claiming the region, settling, and the look at the flag before the next try.
LEMMA SettleSteps ==
    ASSUME Inv, NEW t \in Request,
           ClaimRegion(t) \/ SettleClaim(t) \/ Settle(t) \/ Settled(t) \/ Resume(t)
    PROVE  Inv'
  <1>1. t \in Thread /\ flag' = flag /\ late[t] = 0 /\ pc[t] \notin InLoop
    BY NotLate DEF ClaimRegion, SettleClaim, Settle, Settled, Resume, slotVars,
                   InLoop, Thread
  <1>2. CASE ClaimRegion(t) \/ SettleClaim(t) \/ Settled(t)
    <2>1. PICK l \in {"tick", "settle", "resume"} : Goto(t, l)
      BY <1>2 DEF ClaimRegion, SettleClaim, Settled
    <2>2. UNCHANGED cmdVars /\ outcome' = outcome
      BY <1>2 DEF ClaimRegion, SettleClaim, Settled, goalVars
    <2> QED
      BY <1>1, <2>1, <2>2, PassStep DEF Label
  <1>3. CASE Settle(t)
    <2>1. outcome' = outcome
      BY <1>3 DEF Settle, goalVars
    <2>2. CASE Goto(t, "settled") /\ UNCHANGED cmdVars
      BY <1>1, <2>1, <2>2, PassStep DEF Label
    <2>3. CASE StopCmd(t) /\ UNCHANGED pc
      <3>1. Goto(t, "settle")
        BY <1>1, <1>3, <2>3 DEF Settle, Goto, Inv, Typed
      <3> QED
        BY <1>1, <2>1, <2>3, <3>1, StopStep DEF Label
    <2> QED
      BY <1>3, <2>2, <2>3 DEF Settle
  <1>4. CASE Resume(t)
    <2>1. CASE StopCmd(t) /\ Goto(t, "returned") /\ EndWith(t, "Preempted")
      BY <1>1, <2>1, EndStep
    <2>2. CASE Goto(t, "begin") /\ UNCHANGED <<cmdVars, outcome>>
      BY <1>1, <2>2, PassStep DEF Label
    <2> QED
      BY <1>4, <2>1, <2>2 DEF Resume
  <1> QED
    BY <1>2, <1>3, <1>4

-----------------------------------------------------------------------------
(* The theorems.                                                           *)

\* In the beginning nobody drives and nothing was commanded.
LEMMA InvInit == Init => Inv
  BY FollowAssumption DEF Init, Inv, Typed, Commander, Latecomer, Label, Thread

\* Every step keeps the invariant.
LEMMA InvNext == Inv /\ [Next]_vars => Inv'
  <1> SUFFICES ASSUME Inv, [Next]_vars PROVE Inv'
    OBVIOUS
  <1>1. CASE \E t \in Request : Accept(t) \/ ClientCancel(t) \/ Driving(t) \/ Locking(t)
    <2> PICK t \in Request : Accept(t) \/ ClientCancel(t) \/ Driving(t) \/ Locking(t)
      BY <1>1
    <2>1. CASE Accept(t) \/ ClientCancel(t)
      BY <2>1, ServerSteps DEF Thread
    <2>2. CASE Driving(t)
      BY <2>2, LookSteps, BackSteps, ActSteps, LostSteps, RetryStep, SettleSteps
      DEF Driving
    <2>3. CASE Locking(t)
      BY <2>3, ReleaseStep, SettleSteps DEF Locking
    <2> QED
      BY <2>1, <2>2, <2>3
  <1>2. CASE \E t \in Plan : AcceptPlan(t)
    BY <1>2, ServerSteps DEF Thread
  <1>3. CASE \E t \in Thread : Begin(t) \/ Preparing(t)
    BY <1>3, PrepareSteps, FinishStep DEF Preparing
  <1>4. CASE Observe \/ MarkComplete \/ UNCHANGED vars
    BY <1>4, SkipStep
    DEF Observe, MarkComplete, vars, slotVars, cmdVars, goalVars
  <1> QED
    BY <1>1, <1>2, <1>3, <1>4 DEF Next

\* The invariant holds throughout.
THEOREM Invariance == Spec => []Inv
  <1>1. Init => Inv
    BY InvInit
  <1>2. Inv /\ [Next]_vars => Inv'
    BY InvNext
  <1> QED
    BY <1>1, <1>2, PTL DEF Spec

\* A thread that was preempted or cancelled, at whatever point of its tick the
\* flag goes up, commands at most one more motion (follow_loop.rs, the two looks
\* at the flag).
THEOREM LateMotion == Spec => []AtMostOneLateMotion
  <1>1. Inv => AtMostOneLateMotion
    BY DEF Inv, Latecomer, AtMostOneLateMotion
  <1> QED
    BY <1>1, Invariance, PTL

\* Once no request is under way the robot has been told to stop, however many
\* threads overlapped and whichever of them spoke last (follow_loop.rs, the ways
\* out of run_follow and run_goal).
THEOREM StoppedAtTheEnd == Spec => []NobodyDrivesIsStopped
  <1>1. Inv => NobodyDrivesIsStopped
    BY DEF Inv, Commander, InLoop, NobodyDrivesIsStopped
  <1> QED
    BY <1>1, Invariance, PTL

\* The goal's field is never solved with a motion of the solving thread in force
\* (run_follow's first stop, and the one on the return from relocalization).
THEOREM StillWhileSolving == Spec => []SolvesStandingStill
  <1>1. Inv => SolvesStandingStill
    BY DEF Inv, Commander, InLoop, SolvesStandingStill
  <1> QED
    BY <1>1, Invariance, PTL

-----------------------------------------------------------------------------
(* How old the command in force may be.                                    *)

\* The locals of run_follow that count ticks.
Counters ==
    /\ reloc \in [Request -> {"Idle", "Driving", "GaveUp"}]
    /\ busy \in [Request -> Nat]
    /\ quiet \in [Request -> Nat]

\* A motion of t in force is at most as old as the count of ticks without the
\* core; the count is reset just before the next command replaces the motion.
\* While t drives on the relocalization field nothing is said.
Counted(t) ==
    /\ pc[t] = "back" => reloc[t] = "Driving"
    /\ (cmd.by = t /\ cmd.move /\ reloc[t] # "Driving") =>
          /\ quiet[t] < BusyTicks
          /\ pc[t] \notin {"decided", "publish"} => quiet[t] <= busy[t]

StaleInv == Inv /\ Counters /\ \A t \in Request : Counted(t)

\* A step of another thread leaves t's motion and its counters alone.
Aside(t) ==
    /\ pc'[t] = pc[t] /\ reloc'[t] = reloc[t] /\ busy'[t] = busy[t] /\ quiet'[t] = quiet[t]
    /\ cmd' = cmd \/ cmd'.by # t

\* t has just spoken.
Spoke(t) ==
    /\ quiet'[t] = 0
    /\ pc'[t] # "back"

\* t goes on in its tick, or leaves one in which it had no motion in force.
Onward(t) ==
    /\ cmd' = cmd /\ quiet'[t] = quiet[t] /\ reloc'[t] = reloc[t]
    /\ pc'[t] = "back" => reloc[t] = "Driving"
    /\ \/ pc[t] \notin InLoop
       \/ pc'[t] \in {"decided", "publish"}
       \/ pc[t] \notin {"decided", "publish"} /\ busy'[t] = busy[t]

\* A tick without the core: the command stays while the count is low.
Skipped(t) ==
    /\ cmd' = cmd /\ reloc'[t] = reloc[t] /\ pc'[t] = "tick"
    /\ pc[t] \notin {"decided", "publish"}
    /\ quiet'[t] <= quiet[t] + 1 /\ busy'[t] = busy[t] + 1 /\ busy'[t] < BusyTicks

\* t drives on the relocalization field.
OnReloc(t) == reloc'[t] = "Driving"

\* t has no motion in force, and does not go back.
Still(t) ==
    /\ ~(cmd'.by = t /\ cmd'.move)
    /\ pc'[t] # "back"

LEMMA CountedStep ==
    ASSUME StaleInv, NEW t \in Request, Counters',
           Aside(t) \/ Spoke(t) \/ Onward(t) \/ Skipped(t) \/ OnReloc(t) \/ Still(t)
    PROVE  Counted(t)'
  <1>1. busy'[t] \in Nat /\ quiet'[t] \in Nat /\ busy[t] \in Nat /\ quiet[t] \in Nat
    BY DEF StaleInv, Counters
  <1>2. BusyTicks \in Nat /\ BusyTicks # 0
    BY FollowAssumption
  <1>3. Counted(t)
    BY DEF StaleInv
  <1>4. cmd.by = t /\ cmd.move => pc[t] \in InLoop
    BY DEF StaleInv, Inv, Commander
  <1>5. CASE Aside(t)
    BY <1>3, <1>5 DEF Aside, Counted
  <1>6. CASE Spoke(t)
    BY <1>1, <1>2, <1>6 DEF Spoke, Counted
  <1>7. CASE Onward(t)
    BY <1>3, <1>4, <1>7 DEF Onward, Counted
  <1>8. CASE Skipped(t)
    BY <1>1, <1>2, <1>3, <1>8 DEF Skipped, Counted
  <1>9. CASE OnReloc(t) \/ Still(t)
    BY <1>9 DEF OnReloc, Still, Counted
  <1> QED
    BY <1>5, <1>6, <1>7, <1>8, <1>9

\* What the pieces of the actions do to the counters.
LEMMA SayFacts ==
    ASSUME StaleInv, NEW t \in Request, NEW move, Say(t, move)
    PROVE  /\ quiet' \in [Request -> Nat] /\ quiet'[t] = 0 /\ cmd'.by = t
           /\ \A u \in Request : u # t => quiet'[u] = quiet[u]
  BY DEF StaleInv, Counters, Say

LEMMA SilentFacts ==
    ASSUME StaleInv, NEW t \in Request, Silent(t)
    PROVE  /\ quiet' \in [Request -> Nat] /\ quiet'[t] <= quiet[t] + 1 /\ cmd' = cmd
           /\ \A u \in Request : u # t => quiet'[u] = quiet[u]
  BY FollowAssumption DEF StaleInv, Counters, Silent, AtMost

LEMMA GotoFacts ==
    ASSUME StaleInv, NEW t \in Thread, NEW l, Goto(t, l)
    PROVE  /\ pc'[t] = l
           /\ \A u \in Thread : u # t => pc'[u] = pc[u]
  BY DEF StaleInv, Inv, Typed, Goto

\* The local loop variables of t, on the way out and on the way back.
LEMMA LeaveFacts ==
    ASSUME StaleInv, NEW t \in Request, NEW how, Leave(t, how)
    PROVE  /\ reloc' \in [Request -> {"Idle", "Driving", "GaveUp"}] /\ busy' \in [Request -> Nat]
           /\ pc'[t] = "release"
           /\ \A u \in Request : u # t =>
                pc'[u] = pc[u] /\ reloc'[u] = reloc[u] /\ busy'[u] = busy[u]
  <1>1. pc'[t] = "release" /\ \A u \in Thread : u # t => pc'[u] = pc[u]
    BY GotoFacts DEF Leave, Thread
  <1> QED
    BY <1>1 DEF StaleInv, Counters, Leave, Thread

\* A step of t keeps the counts once it is one of the cases for t.
LEMMA OwnStep ==
    ASSUME StaleInv, NEW t \in Thread, Inv',
           \A u \in Request : u # t => Aside(u),
           Counters',
           t \in Request => Spoke(t) \/ Onward(t) \/ Skipped(t) \/ OnReloc(t) \/ Still(t)
    PROVE  StaleInv'
  <1>1. \A u \in Request : Counted(u)'
    BY CountedStep
  <1> QED
    BY <1>1 DEF StaleInv

\* t moves on without touching its loop variables, and says something or, if a
\* motion may be in force, keeps it within the tick.
LEMMA PlainStep ==
    ASSUME StaleInv, Inv', NEW t \in Thread, NEW l, Goto(t, l), l # "back",
           UNCHANGED <<reloc, busy>>,
           \/ \E move \in BOOLEAN : Say(t, move)
           \/ /\ UNCHANGED cmdVars
              /\ \/ pc[t] \notin InLoop
                 \/ l \in {"decided", "publish"}
                 \/ pc[t] \notin {"decided", "publish"}
    PROVE  StaleInv'
  <1>1. /\ pc'[t] = l
        /\ \A u \in Thread : u # t => pc'[u] = pc[u]
    BY GotoFacts
  <1>2. CASE \E move \in BOOLEAN : Say(t, move)
    <2>1. /\ quiet' \in [Request -> Nat] /\ (t \in Request => quiet'[t] = 0) /\ cmd'.by = t
          /\ \A u \in Request : u # t => quiet'[u] = quiet[u]
      <3>1. quiet \in [Request -> Nat]
        BY DEF StaleInv, Counters
      <3>2. quiet' = [quiet EXCEPT ![t] = 0]
        BY <1>2 DEF Say
      <3>3. cmd'.by = t
        <4> PICK move \in BOOLEAN : cmd' = [by |-> t, move |-> move]
          BY <1>2 DEF Say
        <4> QED
          OBVIOUS
      <3> QED
        BY <3>1, <3>2, <3>3
    <2>2. Counters'
      BY <2>1 DEF StaleInv, Counters
    <2>3. \A u \in Request : u # t => Aside(u)
      BY <1>1, <2>1 DEF Aside, Thread
    <2>4. t \in Request => Spoke(t)
      BY <1>1, <2>1 DEF Spoke
    <2> QED
      BY <2>2, <2>3, <2>4, OwnStep
  <1>3. CASE UNCHANGED cmdVars /\ (pc[t] \notin InLoop \/ l \in {"decided", "publish"}
                                   \/ pc[t] \notin {"decided", "publish"})
    <2>1. quiet' = quiet /\ cmd' = cmd
      BY <1>3 DEF cmdVars
    <2>2. Counters'
      BY <2>1 DEF StaleInv, Counters
    <2>3. \A u \in Request : u # t => Aside(u)
      BY <1>1, <2>1 DEF Aside, Thread
    <2>4. Onward(t)
      BY <1>1, <1>3, <2>1 DEF Onward
    <2> QED
      BY <2>2, <2>3, <2>4, OwnStep
  <1> QED
    BY <1>2, <1>3

\* t says something and changes its loop variables.
LEMMA SpeakStep ==
    ASSUME StaleInv, Inv', NEW t \in Request, NEW l, Goto(t, l), l # "back",
           NEW move, Say(t, move),
           reloc' \in [Request -> {"Idle", "Driving", "GaveUp"}],
           busy' \in [Request -> Nat],
           \A u \in Request : u # t => reloc'[u] = reloc[u] /\ busy'[u] = busy[u]
    PROVE  StaleInv'
  <1>0. t \in Thread
    BY DEF Thread
  <1>1. /\ pc'[t] = l
        /\ \A u \in Thread : u # t => pc'[u] = pc[u]
    BY <1>0, GotoFacts
  <1>2. /\ quiet' \in [Request -> Nat] /\ quiet'[t] = 0 /\ cmd'.by = t
        /\ \A u \in Request : u # t => quiet'[u] = quiet[u]
    BY SayFacts
  <1>3. Counters'
    BY <1>2 DEF Counters
  <1>4. \A u \in Request : u # t => Aside(u)
    BY <1>1, <1>2 DEF Aside, Thread
  <1>5. Spoke(t)
    BY <1>1, <1>2 DEF Spoke
  <1> QED
    BY <1>0, <1>3, <1>4, <1>5, OwnStep

\* The servers, the preparation of the field, and the end of a try.
LEMMA OutsideStale ==
    ASSUME StaleInv, Inv', NEW t \in Thread,
           \/ t \in Request /\ (Accept(t) \/ Locking(t) \/ Retry(t) \/ Resume(t))
           \/ t \in Plan /\ AcceptPlan(t)
           \/ Begin(t) \/ Preparing(t)
    PROVE  StaleInv'
  <1> USE DEF tickVars, StopCmd
  <1>1. pc[t] \notin InLoop /\ UNCHANGED <<reloc, busy>>
    BY DEF Accept, Locking, ClaimRegion, Release, SettleClaim, Settled, Retry, Resume,
           AcceptPlan, Begin, Preparing, Solve, Rollout, SolveAgain, Finish, InLoop
  <1>2. UNCHANGED cmdVars \/ \E move \in BOOLEAN : Say(t, move)
    BY DEF Accept, Locking, ClaimRegion, Release, SettleClaim, Settled, Retry, Resume,
           AcceptPlan, Begin, Preparing, Solve, Rollout, SolveAgain, Finish
  <1>3. \E l \in Label \ {"back"} : Goto(t, l)
    BY DEF Accept, Locking, ClaimRegion, Release, SettleClaim, Settled, Retry, Resume,
           AcceptPlan, Begin, Preparing, Solve, Rollout, SolveAgain, Finish, Label
  <1> QED
    BY <1>1, <1>2, <1>3, PlainStep

\* Settling: a stop in every tick.
LEMMA SettleStale ==
    ASSUME StaleInv, Inv', NEW t \in Request, Settle(t)
    PROVE  StaleInv'
  <1>1. pc[t] = "settle" /\ UNCHANGED <<reloc, busy>> /\ t \in Thread
    BY DEF Settle, tickVars, Thread
  <1>2. Goto(t, "settled") \/ Goto(t, "settle")
    BY <1>1 DEF Settle, Goto, StaleInv, Inv, Typed
  <1>3. UNCHANGED cmdVars \/ Say(t, FALSE)
    BY DEF Settle, StopCmd
  <1> QED
    BY <1>1, <1>2, <1>3, PlainStep DEF InLoop

\* The looks at the flag.
LEMMA LookStale ==
    ASSUME StaleInv, Inv', NEW t \in Request, Tick(t) \/ Recheck(t)
    PROVE  StaleInv'
  <1>0. t \in Thread
    BY DEF Thread
  <1>1. CASE StopCmd(t) /\ Leave(t, "Preempted")
    <2>1. Goto(t, "release")
      BY <1>1 DEF Leave
    <2> QED
      BY <1>1, <2>1, LeaveFacts, SpeakStep DEF StopCmd
  <1>2. CASE Tick(t) /\ UNCHANGED <<cmdVars, tickVars, outcome>>
    <2>1. pc[t] = "tick" /\ UNCHANGED <<reloc, busy, quiet, cmd>>
      BY <1>2 DEF Tick, tickVars, cmdVars
    <2>2. PICK l : Goto(t, l) /\ (l = "back" => reloc[t] = "Driving")
      <3>1. \/ Goto(t, "release")
            \/ Goto(t, CASE ~known                -> "lost"
                         [] reloc[t] = "Driving"  -> "back"
                         [] OTHER                 -> "act")
        BY <1>2 DEF Tick, Leave
      <3> QED
        BY <3>1
    <2>3. pc'[t] = l /\ \A u \in Thread : u # t => pc'[u] = pc[u]
      BY <1>0, <2>2, GotoFacts
    <2>4. Counters' /\ Onward(t)
      BY <2>1, <2>2, <2>3 DEF Onward, StaleInv, Counters
    <2>5. \A u \in Request : u # t => Aside(u)
      BY <2>1, <2>3 DEF Aside, Thread
    <2> QED
      BY <1>0, <2>4, <2>5, OwnStep
  <1>3. CASE Recheck(t) /\ Goto(t, "publish") /\ UNCHANGED <<cmdVars, tickVars, outcome>>
    BY <1>0, <1>3, PlainStep DEF tickVars
  <1> QED
    BY <1>1, <1>2, <1>3 DEF Tick, Recheck

\* Without a motion of t in force its loop variables may change freely.
LEMMA StillStep ==
    ASSUME StaleInv, Inv', NEW t \in Request, NEW l, Goto(t, l), l # "back",
           pc[t] \notin InLoop, UNCHANGED cmdVars,
           reloc' \in [Request -> {"Idle", "Driving", "GaveUp"}],
           busy' \in [Request -> Nat],
           \A u \in Request : u # t => reloc'[u] = reloc[u] /\ busy'[u] = busy[u]
    PROVE  StaleInv'
  <1>0. t \in Thread
    BY DEF Thread
  <1>1. pc'[t] = l /\ \A u \in Thread : u # t => pc'[u] = pc[u]
    BY <1>0, GotoFacts
  <1>2. quiet' = quiet /\ cmd' = cmd
    BY DEF cmdVars
  <1>3. Counters'
    BY <1>2 DEF StaleInv, Counters
  <1>4. \A u \in Request : u # t => Aside(u)
    BY <1>1, <1>2 DEF Aside, Thread
  <1>5. Still(t)
    BY <1>1, <1>2 DEF Still, StaleInv, Inv, Commander
  <1> QED
    BY <1>0, <1>3, <1>4, <1>5, OwnStep

\* What Relocalized does to the counters.
LEMMA RelocalizedFacts ==
    ASSUME StaleInv, NEW t \in Request, Relocalized(t)
    PROVE  /\ reloc' \in [Request -> {"Idle", "Driving", "GaveUp"}] /\ Goto(t, "act")
           /\ \A u \in Request : u # t => reloc'[u] = reloc[u]
  BY DEF StaleInv, Counters, Relocalized

\* The return from relocalization: ticks are skipped without being counted, but
\* a command is given before the thread leaves this branch.
LEMMA BackStale ==
    ASSUME StaleInv, Inv', NEW t \in Request, Back(t) \/ BackSolve(t)
    PROVE  StaleInv'
  <1>0. t \in Thread
    BY DEF Thread
  <1>1. CASE Back(t)
    <2>1. pc[t] = "back" /\ busy' = busy /\ reloc[t] = "Driving"
      BY <1>1 DEF Back, StaleInv, Counted
    <2>2. CASE Silent(t) /\ Goto(t, "tick") /\ UNCHANGED reloc
      <3>1. pc'[t] = "tick" /\ \A u \in Thread : u # t => pc'[u] = pc[u]
        BY <1>0, <2>2, GotoFacts
      <3>2. /\ quiet' \in [Request -> Nat] /\ cmd' = cmd
            /\ \A u \in Request : u # t => quiet'[u] = quiet[u]
        BY <2>2, SilentFacts
      <3>3. Counters' /\ OnReloc(t)
        BY <2>1, <2>2, <3>2 DEF OnReloc, StaleInv, Counters
      <3>4. \A u \in Request : u # t => Aside(u)
        BY <2>1, <2>2, <3>1, <3>2 DEF Aside, Thread
      <3> QED
        BY <1>0, <3>3, <3>4, OwnStep
    <2>3. CASE StopCmd(t) /\ Relocalized(t)
      BY <2>1, <2>3, RelocalizedFacts, SpeakStep DEF StopCmd, StaleInv, Counters
    <2>4. CASE StopCmd(t) /\ Goto(t, "backSolve") /\ UNCHANGED reloc
      BY <1>0, <2>1, <2>4, PlainStep DEF StopCmd
    <2> QED
      BY <1>1, <2>2, <2>3, <2>4 DEF Back
  <1>2. CASE BackSolve(t)
    <2>1. pc[t] \notin InLoop /\ UNCHANGED cmdVars
      BY <1>2 DEF BackSolve, InLoop
    <2>2. CASE Relocalized(t) /\ UNCHANGED busy
      BY <2>1, <2>2, RelocalizedFacts, StillStep DEF StaleInv, Counters
    <2>3. ASSUME NEW how, Leave(t, how) PROVE StaleInv'
      <3>1. Goto(t, "release")
        BY <2>3 DEF Leave
      <3> QED
        BY <2>1, <2>3, <3>1, LeaveFacts, StillStep
    <2> QED
      BY <1>2, <2>2, <2>3 DEF BackSolve
  <1> QED
    BY <1>1, <1>2

\* The critical section and what is published after it.
LEMMA ActStale ==
    ASSUME StaleInv, Inv', NEW t \in Request, Act(t) \/ Publish(t) \/ RelocPublish(t)
    PROVE  StaleInv'
  <1>0. t \in Thread
    BY DEF Thread
  <1>1. CASE Act(t)
    <2>1. CASE CoreBusy(t) /\ Goto(t, "tick") /\ UNCHANGED reloc
      <3>1. /\ busy' \in [Request -> Nat] /\ busy'[t] \in {busy[t] + 1, BusyTicks}
            /\ \A u \in Request : u # t => busy'[u] = busy[u]
        BY <2>1, FollowAssumption DEF CoreBusy, AtMost, StaleInv, Counters
      <3>2. CASE StopCmd(t)
        BY <2>1, <3>1, <3>2, SpeakStep DEF StopCmd, StaleInv, Counters
      <3>3. CASE Silent(t) /\ ~(busy'[t] >= BusyTicks)
        <4>1. pc'[t] = "tick" /\ \A u \in Thread : u # t => pc'[u] = pc[u]
          BY <1>0, <2>1, GotoFacts
        <4>2. /\ quiet' \in [Request -> Nat] /\ quiet'[t] <= quiet[t] + 1 /\ cmd' = cmd
              /\ \A u \in Request : u # t => quiet'[u] = quiet[u]
          BY <3>3, SilentFacts
        <4>3. Counters'
          BY <2>1, <3>1, <4>2 DEF StaleInv, Counters
        <4>4. busy'[t] = busy[t] + 1 /\ busy'[t] < BusyTicks
          BY <3>1, <3>3, FollowAssumption DEF StaleInv, Counters
        <4>5. Skipped(t)
          BY <1>1, <2>1, <4>1, <4>2, <4>4 DEF Skipped, Act
        <4>6. \A u \in Request : u # t => Aside(u)
          BY <2>1, <3>1, <4>1, <4>2 DEF Aside, Thread
        <4> QED
          BY <1>0, <4>3, <4>5, <4>6, OwnStep
      <3> QED
        BY <2>1, <3>2, <3>3 DEF CoreBusy
    <2>2. CASE StopCmd(t) /\ Leave(t, "Preempted")
      <3>1. Goto(t, "release")
        BY <2>2 DEF Leave
      <3> QED
        BY <2>2, <3>1, LeaveFacts, SpeakStep DEF StopCmd
    <2>3. CASE /\ busy' = [busy EXCEPT ![t] = 0] /\ Goto(t, "decided")
               /\ UNCHANGED <<cmdVars, reloc, lost, outcome>>
      <3>1. pc'[t] = "decided" /\ \A u \in Thread : u # t => pc'[u] = pc[u]
        BY <1>0, <2>3, GotoFacts
      <3>2. quiet' = quiet /\ cmd' = cmd /\ reloc' = reloc
        BY <2>3 DEF cmdVars
      <3>3. Counters' /\ \A u \in Request : u # t => busy'[u] = busy[u]
        BY <2>3, <3>2 DEF StaleInv, Counters
      <3>4. Onward(t)
        BY <3>1, <3>2 DEF Onward
      <3>5. \A u \in Request : u # t => Aside(u)
        BY <3>1, <3>2, <3>3 DEF Aside, Thread
      <3> QED
        BY <1>0, <3>3, <3>4, <3>5, OwnStep
    <2> QED
      BY <1>1, <2>1, <2>2, <2>3 DEF Act
  <1>2. CASE Publish(t) \/ RelocPublish(t)
    <2>1. \/ Say(t, FALSE) /\ Leave(t, "Reached")
          \/ \E move \in BOOLEAN : Say(t, move) /\ NextTick(t)
      BY <1>2 DEF Publish, RelocPublish, Halt, Move, StopCmd
    <2>2. CASE Say(t, FALSE) /\ Leave(t, "Reached")
      <3>1. Goto(t, "release")
        BY <2>2 DEF Leave
      <3> QED
        BY <2>2, <3>1, LeaveFacts, SpeakStep
    <2>3. CASE \E move \in BOOLEAN : Say(t, move) /\ NextTick(t)
      BY <1>0, <2>3, PlainStep DEF NextTick
    <2> QED
      BY <2>1, <2>2, <2>3
  <1> QED
    BY <1>1, <1>2

\* Ticks without a pose: every one of them ends with a command, on the
\* relocalization field or not.
LEMMA LostStale ==
    ASSUME StaleInv, Inv', NEW t \in Request, Lost(t) \/ Reloc(t) \/ RelocSolve(t)
    PROVE  StaleInv'
  <1>0. t \in Thread
    BY DEF Thread
  <1>1. busy' = busy /\ pc[t] \notin {"decided", "publish"}
    BY DEF Lost, Reloc, RelocSolve
  <1>2. /\ reloc' \in [Request -> {"Idle", "Driving", "GaveUp"}]
        /\ \A u \in Request : u # t => reloc'[u] = reloc[u]
    BY DEF Lost, Reloc, RelocSolve, StaleInv, Counters
  <1>3. ASSUME NEW l \in {"tick"}, Goto(t, l), NEW move \in BOOLEAN, Say(t, move) PROVE StaleInv'
    BY <1>1, <1>2, <1>3, SpeakStep DEF StaleInv, Counters
  <1>4. ASSUME NEW budget, NotActed(t, budget) PROVE StaleInv'
    BY <1>3, <1>4 DEF NotActed, Halt, Move, StopCmd
  <1>5. CASE UNCHANGED reloc /\ UNCHANGED cmdVars
             /\ (Goto(t, "reloc") \/ Goto(t, "relocSolve") \/ Goto(t, "relocPublish"))
    BY <1>0, <1>1, <1>5, PlainStep
  <1>6. CASE reloc'[t] = "Driving" /\ Goto(t, "relocPublish") /\ UNCHANGED cmdVars
    <2>1. pc'[t] = "relocPublish" /\ \A u \in Thread : u # t => pc'[u] = pc[u]
      BY <1>0, <1>6, GotoFacts
    <2>2. quiet' = quiet /\ cmd' = cmd
      BY <1>6 DEF cmdVars
    <2>3. Counters' /\ OnReloc(t)
      BY <1>1, <1>2, <1>6, <2>2 DEF OnReloc, StaleInv, Counters
    <2>4. \A u \in Request : u # t => Aside(u)
      BY <1>1, <1>2, <2>1, <2>2 DEF Aside, Thread
    <2> QED
      BY <1>0, <2>3, <2>4, OwnStep
  <1>7. CASE Goto(t, "tick") /\ Halt(t)
    BY <1>3, <1>7 DEF Halt, StopCmd
  <1>8. CASE Lost(t)
    <2>1. UNCHANGED reloc
      BY <1>8 DEF Lost
    <2> QED
      BY <1>8, <2>1, <1>4, <1>5, <1>7 DEF Lost
  <1>9. CASE Reloc(t)
    BY <1>9, <1>4, <1>5, <1>7 DEF Reloc, DecideReloc
  <1>10. CASE RelocSolve(t)
    <2>1. CASE reloc' = [reloc EXCEPT ![t] = "Driving"] /\ DecideReloc(t, RelocGoal)
      <3>1. reloc'[t] = "Driving"
        BY <2>1 DEF StaleInv, Counters
      <3> QED
        BY <2>1, <3>1, <1>6, <1>7 DEF DecideReloc
    <2> QED
      BY <1>10, <2>1, <1>4 DEF RelocSolve
  <1> QED
    BY <1>8, <1>9, <1>10

\* Steps that touch no command and no thread.
LEMMA SkipStale ==
    ASSUME StaleInv, Inv', UNCHANGED <<pc, cmd, quiet, reloc, busy>>
    PROVE  StaleInv'
  BY DEF StaleInv, Counters, Counted

\* Every step keeps the counts.
LEMMA StaleNext == StaleInv /\ [Next]_vars => StaleInv'
  <1> SUFFICES ASSUME StaleInv, [Next]_vars PROVE StaleInv'
    OBVIOUS
  <1>0. Inv'
    BY InvNext DEF StaleInv
  <1>1. CASE \E t \in Request : Accept(t) \/ ClientCancel(t) \/ Driving(t) \/ Locking(t)
    <2> PICK t \in Request : Accept(t) \/ ClientCancel(t) \/ Driving(t) \/ Locking(t)
      BY <1>1
    <2>1. CASE Accept(t) \/ Locking(t)
      BY <1>0, <2>1, OutsideStale DEF Thread
    <2>2. CASE Driving(t)
      BY <1>0, <2>2, LookStale, BackStale, ActStale, LostStale, OutsideStale, SettleStale
      DEF Driving, Thread
    <2>3. CASE ClientCancel(t)
      BY <1>0, <2>3, SkipStale DEF ClientCancel, cmdVars, tickVars
    <2> QED
      BY <2>1, <2>2, <2>3
  <1>2. CASE \E t \in Plan : AcceptPlan(t)
    BY <1>0, <1>2, OutsideStale DEF Thread
  <1>3. CASE \E t \in Thread : Begin(t) \/ Preparing(t)
    BY <1>0, <1>3, OutsideStale
  <1>4. CASE Observe \/ MarkComplete \/ UNCHANGED vars
    BY <1>0, <1>4, SkipStale DEF Observe, MarkComplete, vars, cmdVars, tickVars
  <1> QED
    BY <1>1, <1>2, <1>3, <1>4 DEF Next

\* However many requests compete for the core, and wherever a thread loses it, a
\* velocity stays in force for less than BUSY_TICKS_BEFORE_STOP ticks of its
\* thread, save on the return from relocalization (follow_loop.rs, core_busy).
THEOREM StaleCommand == Spec => []StaleCommandEnds
  <1>1. Init => StaleInv
    <2> SUFFICES ASSUME Init PROVE StaleInv
      OBVIOUS
    <2>1. Counters
      BY DEF Init, Counters
    <2>2. \A t \in Request : Counted(t)
      BY DEF Init, Counted, Thread
    <2> QED
      BY <2>1, <2>2, InvInit DEF StaleInv
  <1>2. StaleInv /\ [Next]_vars => StaleInv'
    BY StaleNext
  <1>3. StaleInv => StaleCommandEnds
    BY DEF StaleInv, Counted, StaleCommandEnds
  <1> QED
    BY <1>1, <1>2, <1>3, PTL DEF Spec
=============================================================================
