------------------------------- MODULE Bellman -------------------------------
(***************************************************************************)
(* The Bellman update every solver and every worker of the planner shares  *)
(* (vi_lib/src/value_iterator.rs, vi_lib/src/state.rs).                    *)
(*                                                                         *)
(* A state is a map cell <<x, y>> and a heading.  Values are fixed-point   *)
(* u64 numbers: probabilities are multiples of 1/ProbBase, sums are taken  *)
(* modulo Word and shifted back, and MaxCost marks "not reached".          *)
(* MaxCost * ProbBase does NOT fit in a word (1e9 * 2^36 > 2^64), so the   *)
(* cost of entering an unreached state wraps around to a finite number;    *)
(* the code keeps that behaviour of the program it was ported from, and so *)
(* does this module.                                                       *)
(***************************************************************************)
EXTENDS Integers, FiniteSets, Functions

CONSTANTS
    Width, Height, NumTheta,   \* cell_num_x, cell_num_y, cell_num_t
    NumActions,                \* actions.len(); the order breaks ties
    Trans,                     \* Trans[th][a]: outcomes of action a at heading th
    Reach,                     \* transition_reach: how far an outcome can lie
    ProbBase, Word, MaxCost,   \* 2^18, 2^64, 10^9 * 2^18 in the code
    None                       \* optimal_action = None

Cell == (0 .. Width - 1) \X (0 .. Height - 1)
Theta == 0 .. NumTheta - 1
State == Cell \X Theta
Action == 1 .. NumActions
Cost == 0 .. MaxCost

ASSUME BellmanAssumption ==
    /\ Width \in Nat \ {0} /\ Height \in Nat \ {0} /\ NumTheta \in Nat \ {0}
    /\ NumActions \in Nat /\ MaxCost \in Nat \ {0} /\ Reach \in Nat
    /\ None \notin Action

\* Outcomes are relative in x and y, and their heading is already absolute.
ASSUME TransAssumption ==
    \A th \in Theta, a \in Action : \A o \in Trans[th][a] :
        o.dx \in -Reach .. Reach /\ o.dy \in -Reach .. Reach /\ o.th \in Theta

\* An action has finitely many outcomes, and their probabilities are counts.
ASSUME ProbAssumption ==
    /\ ProbBase \in Nat \ {0} /\ Word \in Nat \ {0}
    /\ \A th \in Theta, a \in Action :
          IsFiniteSet(Trans[th][a]) /\ \A o \in Trans[th][a] : o.prob \in Nat

-----------------------------------------------------------------------------
\* The cells an update of c can read, c included: the transition halo.
Near(c) ==
    {d \in Cell : /\ d[1] - c[1] \in -Reach .. Reach
                  /\ d[2] - c[2] \in -Reach .. Reach}

Dilate(S) == UNION {Near(c) : c \in S}

Target(s, o) == <<s[1][1] + o.dx, s[1][2] + o.dy>>

\* Expected cost-to-go of action a at s.  An outcome off the map or on an
\* occupied cell makes the action worth MaxCost at once; penalty and
\* local_penalty of the entered cell are one number, pen.
ActionCost(s, a, v, free, pen) ==
    LET T == Trans[s[2]][a]
    IN  IF \E o \in T : Target(s, o) \notin Cell \/ ~free[Target(s, o)]
        THEN MaxCost
        ELSE (SumFunction([o \in T |->
                 (v[<<Target(s, o), o.th>>] + pen[Target(s, o)]) * o.prob]) % Word)
             \div ProbBase

Least(S) == CHOOSE x \in S : \A y \in S : x <= y

\* The least cost below MaxCost and the first action that attains it; MaxCost
\* and no action when there is none.
MinActionCost(s, v, free, pen) ==
    LET q == {<<ActionCost(s, a, v, free, pen), a>> : a \in Action}
        cost == Least({MaxCost} \cup ({r[1] : r \in q} \cap Cost))
    IN  [cost   |-> cost,
         action |-> IF cost = MaxCost THEN None
                    ELSE Least({r[2] : r \in {t \in q : t[1] = cost}})]

\* A finite value without an action on a free, nonterminal state: its policy
\* has been discarded and the value only waits for repair.
PolicyInvalidated(cost, action, isFree, isFinal) ==
    isFree /\ ~isFinal /\ cost < MaxCost /\ action = None
=============================================================================
