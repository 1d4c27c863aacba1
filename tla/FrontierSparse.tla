--------------------------- MODULE FrontierSparse ---------------------------
(***************************************************************************)
(* The solvers with threads: the planner's default one                     *)
(* (vi_lib/src/solvers/frontier2d_sparse.rs), frontier2d_fused.rs and      *)
(* frontier2d_par_unsafe.rs.                                               *)
(* A frontier of cells whose inputs moved is swept in rounds by threads    *)
(* that update one shared array in place, without locks.  Two barriers per *)
(* round separate the compute phase, in which a thread claims blocks of    *)
(* candidates with fetch_add, from the serial phase of the leader (thread  *)
(* 0), which builds the next frontier and asks the observer whether to go  *)
(* on.  The unsafe and the fused solver share an engine of the same shape  *)
(* (async_gs_engine in solvers/mod.rs) that has no masks; which of the     *)
(* three runs is the variable engine.                                      *)
(*                                                                         *)
(* Every load and every store of the shared array is a step of its own.    *)
(* The order in which the outcomes of one action are read is left open.    *)
(***************************************************************************)
EXTENDS Original

CONSTANTS
    Engines,       \* the solvers to run: "sparse", "fused", "unsafe"
    Workers,       \* nthreads
    Block,         \* candidates claimed at once (BLOCK)
    MaxIter,       \* max_iter
    Interval,      \* rounds between two boundaries: solve_chunk
    Flows,         \* what the observer may answer at a boundary
    Unreached,     \* the sentinel of the fused array: u64::MAX
    Free, Pen,     \* free; penalty + local_penalty of a cell
    Final,         \* final states
    Starts,        \* fields a solve may be started on
    ReachThresh    \* REACH_THRESH: values from here on count as not reached

Worker == 0 .. Workers - 1
Leader == 0

\* Values and penalties are far below u64::MAX, the mark of an entry that is
\* not reached.
ASSUME SparseAssumption ==
    /\ Engines \subseteq {"sparse", "fused", "unsafe"}
    /\ Workers \in Nat \ {0} /\ Block \in Nat \ {0} /\ MaxIter \in Nat \ {0}
    /\ Interval \in Nat \ {0}
    /\ Flows \subseteq {"Continue", "Stop", "Cancel"} /\ "Continue" \in Flows
    /\ Free \in [Cell -> BOOLEAN] /\ Pen \in [Cell -> Nat]
    /\ Final \subseteq State /\ ReachThresh \in Cost
    /\ \A f \in Starts : f.val \in [State -> Cost]
    /\ \A n \in Cost, c \in Cell : n + Pen[c] # Unreached

\* Every action leads somewhere: its outcomes are the cells that samples of the
\* robot's pose end in (set_state_transitions), and there is at least one.
ASSUME OutcomeAssumption ==
    \A th \in Theta, a \in Action : Trans[th][a] # {}

VARIABLES
    engine,                \* the solver that runs; never changes
    field,                 \* vi.states: total_cost and optimal_action
    cp,                    \* the shared array: total_cost + penalty, or Unreached
    mask,                  \* mask_arr: the headings of a cell that moved last round
    cand,                  \* this round's candidates from the cursor on
    changed,               \* changed[w]: the states w moved this round
    round,                 \* iter_count
    outcome,               \* "running" until the leader decides (done)
    pc, todo, scan,        \* per thread: phase, states left of what it claimed, and
                           \* the evaluation of the first of them
    returned,              \* the caller has the outcome
    start                  \* the field the solve was started on; nothing reads it

sharedVars == <<cp, mask, cand, round, outcome>>
threadVars == <<changed, pc, todo, scan>>
vars == <<engine, field, start, sharedVars, threadVars, returned>>

-----------------------------------------------------------------------------
Map == [free |-> Free, pen |-> Pen, final |-> Final]
Updates(s) == Evaluated(Map, s)                    \* eval_ok

\* Fused::build_direct.
Fused(v) ==
    [s \in State |-> IF Free[s[1]] /\ v[s] # MaxCost THEN v[s] + Pen[s[1]] ELSE Unreached]

\* The value behind an entry of the array.
Total(s) == IF cp[s] = Unreached THEN MaxCost ELSE cp[s] - Pen[s[1]]

\* Mutant: the mask is shifted, not rotated.
RotDilateLinear(m) ==
    {th \in Theta : \E u \in m : th - u \in -ThetaReach .. ThetaReach}

RotDilate(m) == {th \in Theta : \E u \in m : Circ(th, u) <= ThetaReach}

\* The headings of candidate c to evaluate: all of them in the first round, and
\* then those that can depend on a heading that moved in its neighbourhood.
EvalMask(c) ==
    IF engine # "sparse" \/ round = 0 THEN Theta ELSE RotDilate(UNION {mask[d] : d \in Near(c)})

\* A pass goes along the rows, in every other round from the last cell back;
\* the headings of a cell come in order.
Place(c) ==
    LET d == IF round % 2 = 1 THEN <<Width - 1 - c[1], Height - 1 - c[2]>> ELSE c
    IN  d[2] * Width + d[1]
First(cells) == {c \in cells : Cardinality({d \in cells : Place(d) < Place(c)}) < Block}
Earliest(states) ==
    LET Key(s) == Place(s[1]) * NumTheta + s[2]
    IN  CHOOSE s \in states : \A t \in states : Key(s) <= Key(t)

\* What a claim of these candidates has to evaluate.
Column(c) == {s \in {c} \X Theta : s[2] \in EvalMask(c) /\ Updates(s)}
\* compute_phase of async_gs_engine: every heading of the cell.
EngineColumn(c) == {s \in {c} \X Theta : Updates(s)}
StatesOf(cells) ==
    UNION {IF engine = "sparse" THEN Column(c) ELSE EngineColumn(c) : c \in cells}

\* The evaluation of s before its action a: what has been read of the outcomes
\* of a, and the least cost of the actions before it.
Begin(s, a, best) == [s |-> s, a |-> a, got |-> [o \in {} |-> 0], best |-> best]
Idle == Begin(None, 0, 0)
Evaluate(states) == IF states = {} THEN Idle ELSE Begin(Earliest(states), 1, MaxCost)

\* The weighted sum of what was read, in words, shifted back.
WeightedSum(got) ==
    (SumFunction([o \in DOMAIN got |-> got[o] * o.prob]) % Word) \div ProbBase

\* Only a cost below the least one so far, MaxCost at first, replaces it.
Lower(best, cost) == Least({best} \cup ({cost} \cap Cost))

Init ==
    /\ engine \in Engines
    /\ start \in Starts /\ field = start
    /\ cp = Fused(field.val)
    /\ mask = [c \in Cell |-> {}]
    /\ cand = Dilate({s[1] : s \in {t \in State : field.val[t] < MaxCost}})
    /\ round = 0 /\ outcome = "running"
    /\ changed = [w \in Worker |-> {}]
    /\ pc = [w \in Worker |-> "compute"]
    /\ todo = [w \in Worker |-> {}] /\ scan = [w \in Worker |-> Idle]
    /\ returned = FALSE

-----------------------------------------------------------------------------
(* The compute phase of thread w.                                          *)

\* Mutant: the cursor moves by one, whatever the size of a block.
ClaimOne(w) ==
    /\ pc[w] = "compute" /\ todo[w] = {}
    /\ LET block == First(cand)
       IN  /\ cand' = cand \ {c \in block : \A d \in block : Place(c) <= Place(d)}
           /\ todo' = [todo EXCEPT ![w] = StatesOf(block)]
    /\ scan' = [scan EXCEPT ![w] = Evaluate(todo'[w])]
    /\ pc' = [pc EXCEPT ![w] = IF cand = {} THEN "b1" ELSE @]
    /\ UNCHANGED <<engine, field, start, cp, mask, round, outcome, changed, returned>>

\* fetch_add: a block of candidates, or none left and on to the first barrier.
Claim(w) ==
    /\ pc[w] = "compute" /\ todo[w] = {}
    /\ LET block == First(cand)
       IN  /\ cand' = cand \ block
           /\ todo' = [todo EXCEPT ![w] = StatesOf(block)]
    /\ scan' = [scan EXCEPT ![w] = Evaluate(todo'[w])]
    /\ pc' = [pc EXCEPT ![w] = IF cand = {} THEN "b1" ELSE @]
    /\ UNCHANGED <<engine, field, start, cp, mask, round, outcome, changed, returned>>

At(s, o) == <<Target(s, o), o.th>>

\* Mutant: an entry that is not reached counts as MaxCost, as in the original.
EntryAtUnclamped(s, o) ==
    IF Target(s, o) \notin Cell THEN Unreached
    ELSE IF cp[At(s, o)] = Unreached THEN MaxCost + Pen[Target(s, o)] ELSE cp[At(s, o)]

\* The array is padded with entries that are not reached.
EntryAt(s, o) == IF Target(s, o) \in Cell THEN cp[At(s, o)] ELSE Unreached

\* action_cost_fused, one load: an entry that is not reached ends the action.
Loaded(sc, o) ==
    LET v == EntryAt(sc.s, o)
        got == [p \in DOMAIN sc.got \cup {o} |-> IF p = o THEN v ELSE sc.got[p]]
        Done(cost) == Begin(sc.s, sc.a + 1, Lower(sc.best, cost))
    IN  IF v = Unreached THEN Done(MaxCost)
        ELSE IF DOMAIN got = Trans[sc.s[2]][sc.a] THEN Done(WeightedSum(got))
        ELSE [s |-> sc.s, a |-> sc.a, got |-> got, best |-> sc.best]

Load(w) ==
    /\ pc[w] = "compute" /\ todo[w] # {} /\ scan[w].a \in Action
    /\ \E o \in Trans[scan[w].s[2]][scan[w].a] \ DOMAIN scan[w].got :
          scan' = [scan EXCEPT ![w] = Loaded(scan[w], o)]
    /\ UNCHANGED <<engine, field, start, sharedVars, changed, pc, todo, returned>>

\* Mutant: only a lower value is stored.
StoreLower(w) ==
    /\ pc[w] = "compute" /\ todo[w] # {} /\ scan[w].a \notin Action
    /\ LET s == scan[w].s
           moved == scan[w].best < Total(s)
       IN  /\ cp' = IF moved THEN [cp EXCEPT ![s] = scan[w].best + Pen[s[1]]] ELSE cp
           /\ changed' = [changed EXCEPT ![w] = IF moved THEN @ \cup {s} ELSE @]
           /\ todo' = [todo EXCEPT ![w] = @ \ {s}]
           /\ scan' = [scan EXCEPT ![w] = Evaluate(todo'[w])]
    /\ UNCHANGED <<engine, field, start, mask, cand, round, outcome, pc, returned>>

\* What is stored when the least cost is best.  The unsafe solver keeps costs
\* and penalties apart and takes MaxCost for "not reached"; the other two write
\* the sum even then.
EntryUnsafe(s, best) == IF best = MaxCost THEN Unreached ELSE best + Pen[s[1]]
EntryFused(s, best) == best + Pen[s[1]]
Entry(s, best) == IF engine = "unsafe" THEN EntryUnsafe(s, best) ELSE EntryFused(s, best)

\* Every action is evaluated: the entry is written if the value moved at all.
Store(w) ==
    /\ pc[w] = "compute" /\ todo[w] # {} /\ scan[w].a \notin Action
    /\ LET s == scan[w].s
           moved == scan[w].best # Total(s)
       IN  /\ cp' = IF moved THEN [cp EXCEPT ![s] = Entry(s, scan[w].best)] ELSE cp
           /\ changed' = [changed EXCEPT ![w] = IF moved THEN @ \cup {s} ELSE @]
           /\ todo' = [todo EXCEPT ![w] = @ \ {s}]
           /\ scan' = [scan EXCEPT ![w] = Evaluate(todo'[w])]
    /\ UNCHANGED <<engine, field, start, mask, cand, round, outcome, pc, returned>>

-----------------------------------------------------------------------------
(* The field that the array stands for.                                    *)

\* action_cost_fused on the array at rest.
FusedCost(s, a) ==
    LET outs == Trans[s[2]][a]
    IN  IF \E o \in outs : EntryAt(s, o) = Unreached THEN MaxCost
        ELSE WeightedSum([o \in outs |-> EntryAt(s, o)])

LeastFused(s) == Least({MaxCost} \cup ({FusedCost(s, a) : a \in Action} \cap Cost))

\* final_policy_fused: the first action of least cost, for states that update;
\* a converged solve skips the states nothing reaches (final_policy_hot of the
\* unsafe solver finds no action there either).
FinalPolicy(s) ==
    IF ~Updates(s) \/ LeastFused(s) = MaxCost
       \/ (outcome = "converged" /\ cp[s] = Unreached)
    THEN None
    ELSE Least({a \in Action : FusedCost(s, a) = LeastFused(s)})

\* write_back_fused.
WriteBack == [val |-> [s \in State |-> Total(s)], act |-> [s \in State |-> FinalPolicy(s)]]

-----------------------------------------------------------------------------
(* The barriers and the leader.                                            *)

\* B1: every store of the round is visible.
Barrier1 ==
    /\ \A w \in Worker : pc[w] = "b1"
    /\ pc' = [w \in Worker |-> IF w = Leader THEN "lead" ELSE "b2"]
    /\ UNCHANGED <<engine, field, start, sharedVars, changed, todo, scan, returned>>

\* Mutant: the leader forgets its own list.
AllMovedByOthers == UNION {changed[w] : w \in Worker \ {Leader}}

\* The states moved in this round, by any thread.
AllMoved == UNION {changed[w] : w \in Worker}

\* At a boundary the observer looks at the field (unless it is told to cancel,
\* SolveDirector::boundary looks first) and decides; then the next candidates
\* are laid out, or the end is.
Decide(moved) ==
    LET more == moved # {} /\ round + 1 < MaxIter
        boundary == more /\ (round + 1) % Interval = 0
    IN  /\ round' = round + 1
        /\ \E flow \in IF boundary THEN Flows ELSE {"Continue"} :
             /\ field' = IF boundary /\ flow # "Cancel" THEN WriteBack ELSE field
             /\ IF more /\ flow = "Continue"
                THEN /\ cand' = Dilate({s[1] : s \in moved})
                     /\ UNCHANGED outcome
                ELSE /\ outcome' = CASE flow = "Stop"                     -> "stopped"
                                     [] flow = "Cancel"                   -> "cancelled"
                                     [] flow = "Continue" /\ moved = {}   -> "converged"
                                     [] OTHER                             -> "exhausted"
                     /\ UNCHANGED cand
        /\ pc' = [pc EXCEPT ![Leader] = "b2"]
        /\ UNCHANGED <<engine, start, cp, changed, todo, scan, returned>>

\* The leader of the sparse solver also stores which headings moved.
Lead ==
    /\ pc[Leader] = "lead" /\ engine = "sparse"
    /\ mask' = [c \in Cell |-> {th \in Theta : <<c, th>> \in AllMoved}]
    /\ Decide(AllMoved)

\* The leader of async_gs_engine.
LeadEngine ==
    /\ pc[Leader] = "lead" /\ engine # "sparse"
    /\ UNCHANGED mask
    /\ Decide(AllMoved)

\* B2: the new frontier, or the end, is visible.
Barrier2 ==
    /\ \A w \in Worker : pc[w] = "b2"
    /\ pc' = [w \in Worker |-> "woken"]
    /\ UNCHANGED <<engine, field, start, sharedVars, changed, todo, scan, returned>>

\* Mutant: only the leader looks at done.
WakeLeader(w) ==
    /\ pc[w] = "woken"
    /\ IF outcome = "running" \/ w # Leader
       THEN /\ pc' = [pc EXCEPT ![w] = "compute"]
            /\ changed' = [changed EXCEPT ![w] = {}]
       ELSE /\ pc' = [pc EXCEPT ![w] = "exit"]
            /\ UNCHANGED changed
    /\ UNCHANGED <<engine, field, start, sharedVars, todo, scan, returned>>

\* Each thread looks at done.
Wake(w) ==
    /\ pc[w] = "woken"
    /\ IF outcome = "running"
       THEN /\ pc' = [pc EXCEPT ![w] = "compute"]
            /\ changed' = [changed EXCEPT ![w] = {}]
       ELSE /\ pc' = [pc EXCEPT ![w] = "exit"]
            /\ UNCHANGED changed
    /\ UNCHANGED <<engine, field, start, sharedVars, todo, scan, returned>>

-----------------------------------------------------------------------------
\* The field is written back unless the solve is cancelled: the caller then
\* discards it.
Return ==
    /\ ~returned /\ \A w \in Worker : pc[w] = "exit"
    /\ returned' = TRUE
    /\ field' = IF outcome = "cancelled" THEN field
                ELSE WriteBack
    /\ UNCHANGED <<engine, start, sharedVars, threadVars>>

-----------------------------------------------------------------------------
Thread(w) == Claim(w) \/ Load(w) \/ Store(w) \/ Wake(w)

Next ==
    \/ \E w \in Worker : Thread(w)
    \/ Barrier1 \/ Lead \/ LeadEngine \/ Barrier2 \/ Return

\* Threads are scheduled; a barrier lets go of threads that have all arrived.
Fairness ==
    /\ \A w \in Worker : WF_vars(Thread(w))
    /\ WF_vars(Barrier1 \/ Lead \/ LeadEngine \/ Barrier2 \/ Return)

Spec == Init /\ [][Next]_vars
FairSpec == Spec /\ Fairness

-----------------------------------------------------------------------------
(* Properties.                                                             *)

\* frontier2d_sparse.rs, "the cells of a claimed block have a single writer":
\* no state is in the hands of two threads, and none is evaluated again in a
\* round after it was moved in it.
OneWriter ==
    \A v, w \in Worker :
        /\ v # w => todo[v] \cap todo[w] = {}
        /\ pc[v] \in {"compute", "b1"} => todo[w] \cap changed[v] = {}

\* frontier2d_sparse.rs, "a state whose inputs moved is a candidate of the next
\* round": whenever the leader lets the solve go on, every state whose value
\* differs from the least cost of its actions is among the candidates, with its
\* heading in the mask.  A store that came after the read of a
\* neighbour in the same round must not fall between two rounds.
NothingForgotten ==
    (pc[Leader] = "b2" /\ outcome = "running") =>
        \A s \in State :
            (Updates(s) /\ Total(s) # LeastFused(s)) =>
                s[1] \in cand /\ s[2] \in EvalMask(s[1])

\* frontier2d_sparse.rs:18, "at the end every (cell, heading) is consistent with
\* the Bellman update at the present values": a solve that says it converged
\* returns, for every state it updates, the least cost of the actions and an
\* action that attains it, although the last values some thread read of a
\* neighbour may be older than the neighbour's last store.
ConvergedIsConsistent ==
    (returned /\ outcome = "converged") =>
        \A s \in State : Updates(s) =>
            /\ field.val[s] = LeastFused(s)
            /\ field.act[s] = None <=> field.val[s] = MaxCost
            /\ field.act[s] # None => FusedCost(s, field.act[s]) = field.val[s]

\* frontier2d_sparse.rs, "the converged values and policy of reachable cells are
\* bit-exact with the original": whatever the threads read of each other's
\* unfinished rounds, and whichever field they started on.
ConvergedIsOriginal ==
    (returned /\ outcome = "converged") =>
        LET oracle == Original(Map, start)
        IN  \A s \in State :
                oracle.val[s] < ReachThresh =>
                    field.val[s] = oracle.val[s] /\ field.act[s] = oracle.act[s]

\* set_state_values: a fresh field knows the values of its final states only.
Fresh == \A s \in State : Updates(s) => start.val[s] = MaxCost

\* Partiality::UpperBound: a field that is handed out before convergence can be
\* followed; its stored action costs at most the stored value, so the value of
\* what it leads to is strictly lower.  A solve with an early end begins on a
\* fresh field (solve_dense); a resweep, where values also rise, has none.
StoppedFieldDescends ==
    (returned /\ outcome = "stopped" /\ Fresh) =>
        \A s \in State :
            (Updates(s) /\ field.val[s] < MaxCost) =>
                /\ field.act[s] # None
                /\ ActionCost(s, field.act[s], field.val, Free, Pen) <= field.val[s]

\* Every solve comes back: no thread is left behind at a barrier.
Terminates == <>returned
=============================================================================
