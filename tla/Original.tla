------------------------------ MODULE Original ------------------------------
(***************************************************************************)
(* The original solver, the oracle of every other one                      *)
(* (vi_lib/src/solvers/original): whole-map sweeps of unconditional        *)
(* in-place updates.  Also the order in which states are stored, which     *)
(* fixes the order of every sweep, and the reach of a transition.          *)
(*                                                                         *)
(* A map m is a record of what the costs depend on: m.free and m.pen per   *)
(* cell, m.final the set of final states.  A field f is a record of the    *)
(* stored costs f.val and actions f.act.                                   *)
(***************************************************************************)
EXTENDS Bellman, SequencesExt

CONSTANTS Sweeps       \* sweeps after which the original solver has settled

ASSUME OriginalAssumption == Sweeps \in Nat

\* to_index backwards: the states in the order they are stored in, and the
\* cells in the order Bitboard2D::enumerate yields them.
CellAt(n) == <<n % Width, n \div Width>>
StateAt(n) == <<CellAt(n \div NumTheta), n % NumTheta>>
Enumerate(S) ==
    SelectSeq([n \in 1 .. Width * Height |-> CellAt(n - 1)], LAMBDA c : c \in S)

\* The distance of two headings around the circle.
Circ(t, u) ==
    LET m == IF t < u THEN t - u + NumTheta ELSE t - u
    IN  IF m < NumTheta - m THEN m ELSE NumTheta - m

\* displacement: how far an outcome can turn.
ThetaReach ==
    Max({m \in 0 .. NumTheta :
            m = 0 \/ \E th \in Theta, a \in Action : \E o \in Trans[th][a] : m = Circ(o.th, th)})

\* The free and nonterminal states, the only ones an update writes.
Evaluated(m, s) == m.free[s[1]] /\ s \notin m.final

\* value_iteration_raw.
UpdateAt(m, f, s) ==
    LET b == MinActionCost(s, f.val, m.free, m.pen)
    IN  IF Evaluated(m, s)
        THEN [val |-> [f.val EXCEPT ![s] = b.cost], act |-> [f.act EXCEPT ![s] = b.action]]
        ELSE f

\* In-place updates of the states of a sequence, one after the other.
SweepOver(m, f, order) ==
    LET upTo[n \in 0 .. Len(order)] ==
            IF n = 0 THEN f ELSE UpdateAt(m, upTo[n - 1], order[n])
    IN  upTo[Len(order)]

\* One whole-map sweep of value_iteration_worker.
AllStates == [n \in 1 .. Width * Height * NumTheta |-> StateAt(n - 1)]
Sweep(m, f) == SweepOver(m, f, AllStates)

\* Op(x); the one-element set makes TLC evaluate x once, before Op.
With(x, Op(_)) == CHOOSE y \in {Op(z) : z \in {x}} : TRUE

\* Step(n, .) applied for n = 1 .. k, beginning with x.
Iterate(Step(_, _), x, k) ==
    LET after[n \in 0 .. k] ==
            IF n = 0 THEN x ELSE With(after[n - 1], LAMBDA h : Step(n, h))
    IN  after[k]

\* The field f after that many sweeps.
Original(m, f) == Iterate(LAMBDA n, h : Sweep(m, h), f, Sweeps)
=============================================================================
