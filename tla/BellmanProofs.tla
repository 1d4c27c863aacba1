---------------------------- MODULE BellmanProofs ----------------------------
(* What one Bellman update returns and what it reads, for every transition *)
(* table and however its sums wrap around.                                 *)
EXTENDS Original, FiniteSetTheorems, WellFoundedInduction, TLAPS

\* Least names a least element: a set of numbers has one unless it is empty.
LEMMA LeastIsLeast ==
    ASSUME NEW S, S \subseteq Nat, S # {}
    PROVE  Least(S) \in S /\ \A y \in S : Least(S) <= y
<1>. DEFINE R == {ss \in Nat \X Nat : ss[1] < ss[2]}
<1>1. IsWellFoundedOn(R, Nat)
  BY NatLessThanWellFounded DEF OpToRel
<1>. HIDE DEF R
<1>2. PICK x \in S : \A y \in S : ~(<<y, x>> \in R)
  BY <1>1, WFMin
<1>3. \A y \in S : x <= y
  <2>. SUFFICES ASSUME NEW y \in S PROVE x <= y
    OBVIOUS
  <2>1. <<y, x>> \in Nat \X Nat /\ ~(y < x)
    BY <1>2 DEF R
  <2>. QED
    BY <2>1
<1>. QED
  BY <1>3 DEF Least

\* An update returns a cost of the representation and an action of the robot,
\* and it returns no action exactly when it returns MaxCost: min_action_cost
\* never leaves a value behind that looks like a discarded policy.
LEMMA MinActionCostType ==
    ASSUME NEW s, NEW v, NEW free, NEW pen
    PROVE  LET b == MinActionCost(s, v, free, pen)
           IN  /\ b.cost \in Cost
               /\ b.action \in Action \cup {None}
               /\ b.action = None <=> b.cost = MaxCost
               /\ b = [cost |-> b.cost, action |-> b.action]
<1>. DEFINE b == MinActionCost(s, v, free, pen)
            q == {<<ActionCost(s, a, v, free, pen), a>> : a \in Action}
            C == {MaxCost} \cup ({r[1] : r \in q} \cap Cost)
            A == {r[2] : r \in {t \in q : t[1] = Least(C)}}
<1>1. b = [cost |-> Least(C), action |-> IF Least(C) = MaxCost THEN None ELSE Least(A)]
  BY DEF MinActionCost
<1>2. C \subseteq Cost /\ C \subseteq Nat /\ C # {}
  BY BellmanAssumption DEF Cost
<1>. HIDE DEF C
<1>3. Least(C) \in C
  BY <1>2, LeastIsLeast
<1>4. Least(C) # MaxCost => A \subseteq Action /\ A # {}
  <2>. SUFFICES ASSUME Least(C) # MaxCost PROVE A \subseteq Action /\ A # {}
    OBVIOUS
  <2>1. PICK r \in q : r[1] = Least(C)
    BY <1>3 DEF C
  <2>. QED
    BY <2>1
<1>. HIDE DEF A
<1>5. Least(C) # MaxCost => Least(A) \in Action
  BY <1>4, LeastIsLeast DEF Action
<1>. HIDE DEF b
<1>6. /\ b.cost = Least(C)
      /\ b.action = IF Least(C) = MaxCost THEN None ELSE Least(A)
      /\ b = [cost |-> b.cost, action |-> b.action]
  BY <1>1
<1>. QED
  BY <1>2, <1>3, <1>5, <1>6, BellmanAssumption DEF b

-----------------------------------------------------------------------------
(* What an update reads, and how far away that can be.                     *)

\* The states an update of s reads, some of them off the map.
Reads(s) == {<<Target(s, o), o.th>> : o \in UNION {Trans[s[2]][a] : a \in Action}}

\* Fields that agree on what s reads give s the same costs.
LEMMA CostsDependOnReads ==
    ASSUME NEW s \in State, NEW v, NEW w, NEW free, NEW pen,
           \A t \in Reads(s) \cap State : v[t] = w[t]
    PROVE  /\ \A a \in Action : ActionCost(s, a, v, free, pen) = ActionCost(s, a, w, free, pen)
           /\ MinActionCost(s, v, free, pen) = MinActionCost(s, w, free, pen)
<1>1. ASSUME NEW a \in Action
      PROVE  ActionCost(s, a, v, free, pen) = ActionCost(s, a, w, free, pen)
  <2>. DEFINE T == Trans[s[2]][a]
  <2>1. CASE \E o \in T : Target(s, o) \notin Cell \/ ~free[Target(s, o)]
    BY <2>1 DEF ActionCost
  <2>2. CASE \A o \in T : Target(s, o) \in Cell /\ free[Target(s, o)]
    <3>1. ASSUME NEW o \in T PROVE v[<<Target(s, o), o.th>>] = w[<<Target(s, o), o.th>>]
      <4>1. o.th \in Theta
        BY TransAssumption DEF State
      <4>2. <<Target(s, o), o.th>> \in Reads(s) \cap State
        BY <2>2, <4>1 DEF Reads, State
      <4>. QED
        BY <4>2
    <3>2. [o \in T |-> (v[<<Target(s, o), o.th>>] + pen[Target(s, o)]) * o.prob] =
          [o \in T |-> (w[<<Target(s, o), o.th>>] + pen[Target(s, o)]) * o.prob]
      BY <3>1
    <3>. QED
      BY <2>2, <3>2 DEF ActionCost
  <2>. QED
    BY <2>1, <2>2
<1>2. {<<ActionCost(s, a, v, free, pen), a>> : a \in Action} =
      {<<ActionCost(s, a, w, free, pen), a>> : a \in Action}
  BY <1>1
<1>. QED
  BY <1>1, <1>2 DEF MinActionCost

\* The largest of a bounded set of numbers.
LEMMA MaxIsMost ==
    ASSUME NEW n \in Nat, NEW S, S \subseteq 0 .. n, S # {}
    PROVE  Max(S) \in S /\ \A x \in S : x <= Max(S)
<1>. DEFINE R == {n - x : x \in S}
<1>1. R \subseteq Nat /\ R # {}
  <2>1. \A x \in S : x \in 0 .. n
    OBVIOUS
  <2>2. \A x \in S : n - x \in Nat
    BY <2>1
  <2>3. \A x \in S : n - x \in R
    OBVIOUS
  <2>. QED
    BY <2>2, <2>3
<1>2. Least(R) \in R /\ \A y \in R : Least(R) <= y
  BY <1>1, LeastIsLeast
<1>3. PICK m \in S : Least(R) = n - m
  BY <1>2
<1>4. \A x \in S : m >= x
  <2>. SUFFICES ASSUME NEW x \in S PROVE m >= x
    OBVIOUS
  <2>1. n - x \in R
    OBVIOUS
  <2>2. n - m <= n - x
    BY <1>2, <1>3, <2>1
  <2>. QED
    BY <2>2
<1>. QED
  BY <1>4 DEF Max

\* displacement: no outcome turns further than ThetaReach.
LEMMA TurnIsBounded ==
    /\ ThetaReach \in Nat
    /\ \A th \in Theta, a \in Action : \A o \in Trans[th][a] : Circ(o.th, th) <= ThetaReach
<1>. DEFINE S == {m \in 0 .. NumTheta :
                     m = 0 \/ \E t \in Theta, b \in Action :
                                 \E p \in Trans[t][b] : m = Circ(p.th, t)}
<1>1. ThetaReach = Max(S)
  BY DEF ThetaReach
<1>2. 0 \in S /\ S \subseteq 0 .. NumTheta
  BY BellmanAssumption
<1>3. ASSUME NEW th \in Theta, NEW a \in Action, NEW o \in Trans[th][a] PROVE Circ(o.th, th) \in S
  <2>1. Circ(o.th, th) \in 0 .. NumTheta
    BY BellmanAssumption, TransAssumption DEF Circ, Theta
  <2>. QED
    BY <2>1
<1>. HIDE DEF S
<1>4. Max(S) \in S /\ \A x \in S : x <= Max(S)
  BY <1>2, MaxIsMost, BellmanAssumption
<1>5. ThetaReach \in Nat
  <2>1. Max(S) \in 0 .. NumTheta
    BY <1>2, <1>4
  <2>. QED
    BY <1>1, <2>1, BellmanAssumption
<1>6. ASSUME NEW th \in Theta, NEW a \in Action, NEW o \in Trans[th][a]
      PROVE  Circ(o.th, th) <= ThetaReach
  BY <1>1, <1>3, <1>4
<1>. QED
  BY <1>5, <1>6

\* Both ways around, and both ways between two cells, the distance is the same.
LEMMA CircSymmetric == ASSUME NEW t \in Theta, NEW u \in Theta PROVE Circ(t, u) = Circ(u, t)
  BY BellmanAssumption DEF Circ, Theta

LEMMA NearSymmetric ==
    ASSUME NEW c \in Cell, NEW d \in Near(c)
    PROVE  c \in Near(d)
  BY BellmanAssumption DEF Near, Cell

\* The dependence the frontier follows: what s reads lies in its window and is
\* at most ThetaReach away in heading.
LEMMA ReadsAreNear ==
    ASSUME NEW s \in State, NEW t \in Reads(s), t \in State
    PROVE  /\ t[1] \in Near(s[1]) /\ s[1] \in Near(t[1])
           /\ Circ(s[2], t[2]) <= ThetaReach
<1>0. PICK a \in Action : \E o \in Trans[s[2]][a] : t = <<Target(s, o), o.th>>
  BY DEF Reads
<1>1. PICK o \in Trans[s[2]][a] : t = <<Target(s, o), o.th>>
  BY <1>0
<1>2. s[1] \in Cell /\ s[2] \in Theta /\ t[1] \in Cell /\ t[2] \in Theta
  BY DEF State
<1>3. t[1] = <<s[1][1] + o.dx, s[1][2] + o.dy>> /\ t[2] = o.th
  BY <1>1 DEF Target
<1>4. o.dx \in -Reach .. Reach /\ o.dy \in -Reach .. Reach /\ o.th \in Theta
  BY <1>2, TransAssumption
<1>5. t[1] \in Near(s[1])
  <2>1. s[1][1] \in Int /\ s[1][2] \in Int
    BY <1>2 DEF Cell
  <2>2. t[1][1] - s[1][1] \in -Reach .. Reach /\ t[1][2] - s[1][2] \in -Reach .. Reach
    BY <1>3, <1>4, <2>1, BellmanAssumption
  <2>. QED
    BY <1>2, <2>2 DEF Near
<1>6. Circ(t[2], s[2]) <= ThetaReach
  BY <1>1, <1>2, <1>3, TurnIsBounded
<1>. QED
  BY <1>2, <1>5, <1>6, NearSymmetric, CircSymmetric

\* An update sees no further than Near: fields and inputs that agree there give
\* it the same cost and the same action.
LEMMA CostsDependOnNear ==
    ASSUME NEW s \in State, NEW v, NEW w, NEW free, NEW pen, NEW open, NEW load,
           \A t \in State : t[1] \in Near(s[1]) => v[t] = w[t],
           \A c \in Near(s[1]) : free[c] = open[c] /\ pen[c] = load[c]
    PROVE  MinActionCost(s, v, free, pen) = MinActionCost(s, w, open, load)
<1>1. ASSUME NEW a \in Action
      PROVE  ActionCost(s, a, v, free, pen) = ActionCost(s, a, w, open, load)
  <2>. DEFINE T == Trans[s[2]][a]
  <2>1. ASSUME NEW o \in T, Target(s, o) \in Cell
        PROVE  /\ free[Target(s, o)] = open[Target(s, o)]
               /\ pen[Target(s, o)] = load[Target(s, o)]
               /\ v[<<Target(s, o), o.th>>] = w[<<Target(s, o), o.th>>]
    <3>. DEFINE t == <<Target(s, o), o.th>>
    <3>1. o.th \in Theta
      BY TransAssumption DEF State
    <3>2. t \in Reads(s) /\ t \in State /\ t[1] = Target(s, o)
      BY <2>1, <3>1 DEF Reads, State
    <3>. HIDE DEF t
    <3>3. t[1] \in Near(s[1])
      BY <3>2, ReadsAreNear
    <3>. QED
      BY <3>2, <3>3 DEF t
  <2>2. CASE \E o \in T : Target(s, o) \notin Cell \/ ~free[Target(s, o)]
    <3>1. \E o \in T : Target(s, o) \notin Cell \/ ~open[Target(s, o)]
      BY <2>1, <2>2
    <3>. QED
      BY <2>2, <3>1 DEF ActionCost
  <2>3. CASE \A o \in T : Target(s, o) \in Cell /\ free[Target(s, o)]
    <3>1. \A o \in T : Target(s, o) \in Cell /\ open[Target(s, o)]
      BY <2>1, <2>3
    <3>2. [o \in T |-> (v[<<Target(s, o), o.th>>] + pen[Target(s, o)]) * o.prob] =
          [o \in T |-> (w[<<Target(s, o), o.th>>] + load[Target(s, o)]) * o.prob]
      BY <2>1, <2>3
    <3>. QED
      BY <2>3, <3>1, <3>2 DEF ActionCost
  <2>. QED
    BY <2>2, <2>3
<1>2. {<<ActionCost(s, a, v, free, pen), a>> : a \in Action} =
      {<<ActionCost(s, a, w, open, load), a>> : a \in Action}
  BY <1>1
<1>. QED
  BY <1>2 DEF MinActionCost

\* A set of cells lies in its halo, and a cell outside the halo has none of
\* the set around it.
LEMMA DilateContains ==
    ASSUME NEW S, S \subseteq Cell
    PROVE  /\ S \subseteq Dilate(S)
           /\ \A c \in Cell : c \in Near(c)
           /\ \A c \in Cell : c \notin Dilate(S) => \A d \in Near(c) : d \notin S
<1>1. \A c \in Cell : c \in Near(c)
  BY BellmanAssumption DEF Near, Cell
<1>2. S \subseteq Dilate(S)
  BY <1>1 DEF Dilate
<1>3. ASSUME NEW c \in Cell, c \notin Dilate(S), NEW d \in Near(c), d \in S PROVE FALSE
  <2>1. c \in Near(d)
    BY <1>3, NearSymmetric
  <2>. QED
    BY <1>3, <2>1 DEF Dilate
<1>. QED
  BY <1>1, <1>2, <1>3

-----------------------------------------------------------------------------
(* Sums of costs.  The induction over the outcomes is a search for a least *)
(* counterexample among the sizes of the sets that are summed.             *)

\* The library's sum takes the elements of a set one by one: what is left to
\* add for each of its subsets.
Rest(f, h, s) ==
    IF s = {} THEN 0 ELSE f[CHOOSE x \in s : TRUE] + h[s \ {CHOOSE x \in s : TRUE}]

Partial(f, S) == CHOOSE h : h = [s \in SUBSET S |-> Rest(f, h, s)]

LEMMA SumIsPartial == \A f : SumFunction(f) = Partial(f, DOMAIN f)[DOMAIN f]
  BY DEF SumFunction, SumFunctionOnSet, FoldFunctionOnSet, MapThenFoldSet, Partial, Rest

\* The sum of a function on a finite set is taken over its domain once.
LEMMA PartialExists ==
    ASSUME NEW S, IsFiniteSet(S), NEW f, \A x \in S : f[x] \in Nat
    PROVE  Partial(f, S) = [s \in SUBSET S |-> Rest(f, Partial(f, S), s)]
<1>. DEFINE Sub(n) == {s \in SUBSET S : Cardinality(s) <= n}
            Good(n, h) == h = [s \in Sub(n) |-> Rest(f, h, s)]
            Bad == {n \in Nat : ~ \E h : Good(n, h)}
<1>1. ASSUME NEW s \in SUBSET S
      PROVE  /\ IsFiniteSet(s) /\ Cardinality(s) \in Nat /\ Cardinality(s) <= Cardinality(S)
             /\ Cardinality(s) = 0 <=> s = {}
  BY FS_Subset, FS_CardinalityType, FS_EmptySet
<1>2. ASSUME NEW s \in SUBSET S, s # {}
      PROVE  /\ (CHOOSE x \in s : TRUE) \in s /\ s \ {CHOOSE x \in s : TRUE} \in SUBSET S
             /\ Cardinality(s \ {CHOOSE x \in s : TRUE}) = Cardinality(s) - 1
  BY <1>1, <1>2, FS_RemoveElement
<1>3. Bad = {}
  <2>. SUFFICES ASSUME Bad # {} PROVE FALSE
    OBVIOUS
  <2>. DEFINE n == Least(Bad)
  <2>1. n \in Bad /\ \A m \in Bad : n <= m
    BY LeastIsLeast
  <2>. HIDE DEF n
  <2>2. CASE n = 0
    <3>. DEFINE h == [s \in Sub(0) |-> 0]
    <3>1. \A s \in Sub(0) : s = {}
      BY <1>1
    <3>2. \A s \in Sub(0) : Rest(f, h, s) = 0
      BY <3>1 DEF Rest
    <3>3. h = [s \in Sub(0) |-> Rest(f, h, s)]
      <4>. HIDE DEF Sub
      <4>. QED
        BY <3>2
    <3>4. \E k : Good(0, k)
      BY <3>3
    <3>. QED
      BY <2>1, <2>2, <3>4
  <2>3. CASE n # 0
    <3>0. n \in Nat
      BY <2>1
    <3>1. n - 1 \in Nat /\ n - 1 \notin Bad
      <4>. HIDE DEF Bad
      <4>. QED
        BY <2>1, <2>3, <3>0
    <3>2. PICK h : Good(n - 1, h)
      BY <3>1
    <3>. DEFINE g == [s \in Sub(n) |-> Rest(f, h, s)]
    <3>3. \A s \in Sub(n - 1) : s \in Sub(n) /\ g[s] = h[s]
      <4>. SUFFICES ASSUME NEW s \in Sub(n - 1) PROVE s \in Sub(n) /\ g[s] = h[s]
        OBVIOUS
      <4>1. s \in Sub(n)
        BY <1>1, <3>0
      <4>. HIDE DEF Sub
      <4>2. h[s] = Rest(f, h, s)
        BY <3>2
      <4>. QED
        BY <4>1, <4>2
    <3>4. \A s \in Sub(n) : Rest(f, h, s) = Rest(f, g, s)
      <4>. SUFFICES ASSUME NEW s \in Sub(n), s # {} PROVE Rest(f, h, s) = Rest(f, g, s)
        BY DEF Rest
      <4>. DEFINE t == s \ {CHOOSE x \in s : TRUE}
      <4>1. t \in SUBSET S /\ Cardinality(t) = Cardinality(s) - 1
        BY <1>2
      <4>2. Cardinality(s) \in Nat /\ Cardinality(s) <= n
        BY <1>1
      <4>3. t \in Sub(n - 1)
        BY <4>1, <4>2, <3>0
      <4>. HIDE DEF g, Sub
      <4>4. g[t] = h[t]
        BY <3>3, <4>3
      <4>. QED
        BY <4>4 DEF Rest
    <3>5. g = [s \in Sub(n) |-> Rest(f, g, s)]
      <4>. HIDE DEF Sub
      <4>. QED
        BY <3>4
    <3>6. \E k : Good(n, k)
      BY <3>5
    <3>. QED
      BY <2>1, <3>6
  <2>. QED
    BY <2>2, <2>3
<1>4. Cardinality(S) \in Nat /\ Sub(Cardinality(S)) = SUBSET S
  BY <1>1
<1>5. \E h : Good(Cardinality(S), h)
  BY <1>3, <1>4
<1>6. \E h : h = [s \in SUBSET S |-> Rest(f, h, s)]
  BY <1>4, <1>5
<1>. QED
  BY <1>6 DEF Partial

\* A sum of costs is a number, and dearer costs do not make it smaller.
LEMMA PartialMonotone ==
    ASSUME NEW S, IsFiniteSet(S), NEW f, NEW g,
           \A x \in S : f[x] \in Nat /\ g[x] \in Nat /\ f[x] <= g[x]
    PROVE  \A s \in SUBSET S :
               /\ Partial(f, S)[s] \in Nat /\ Partial(g, S)[s] \in Nat
               /\ Partial(f, S)[s] <= Partial(g, S)[s]
<1>. DEFINE F == Partial(f, S)
            G == Partial(g, S)
            Ok(s) == F[s] \in Nat /\ G[s] \in Nat /\ F[s] <= G[s]
            Bad == {Cardinality(s) : s \in {t \in SUBSET S : ~Ok(t)}}
<1>1. \A s \in SUBSET S : F[s] = Rest(f, F, s) /\ G[s] = Rest(g, G, s)
  <2>1. F = [s \in SUBSET S |-> Rest(f, F, s)]
    BY PartialExists
  <2>2. G = [s \in SUBSET S |-> Rest(g, G, s)]
    BY PartialExists
  <2>. HIDE DEF F, G
  <2>. QED
    BY <2>1, <2>2
<1>. HIDE DEF F, G
<1>2. ASSUME NEW s \in SUBSET S
      PROVE  /\ IsFiniteSet(s) /\ Cardinality(s) \in Nat
             /\ Cardinality(s) = 0 <=> s = {}
  BY FS_Subset, FS_CardinalityType, FS_EmptySet
<1>3. SUFFICES ASSUME Bad # {} PROVE FALSE
  BY DEF F, G
<1>4. Bad \subseteq Nat
  BY <1>2
<1>5. Least(Bad) \in Bad /\ \A m \in Bad : Least(Bad) <= m
  BY <1>3, <1>4, LeastIsLeast
<1>6. PICK s \in SUBSET S : ~Ok(s) /\ Cardinality(s) = Least(Bad)
  BY <1>5
<1>7. s # {}
  <2>1. ASSUME s = {} PROVE F[s] = 0 /\ G[s] = 0
    BY <1>1, <2>1 DEF Rest
  <2>. QED
    BY <1>6, <2>1
<1>. DEFINE x == CHOOSE y \in s : TRUE
            t == s \ {x}
<1>8. x \in s /\ x \in S /\ t \in SUBSET S
  BY <1>7
<1>9. Cardinality(t) = Cardinality(s) - 1
  BY <1>2, <1>8, FS_RemoveElement
<1>10. F[s] = f[x] + F[t] /\ G[s] = g[x] + G[t]
  BY <1>1, <1>7 DEF Rest
<1>. HIDE DEF x, t
<1>11. Cardinality(t) \in Nat /\ Cardinality(s) \in Nat
  BY <1>2, <1>8
<1>12. Ok(t)
  <2>1. Cardinality(t) \notin Bad
    <3>. HIDE DEF Bad
    <3>. QED
      BY <1>5, <1>6, <1>9, <1>11
  <2>. QED
    BY <1>8, <2>1
<1>13. f[x] \in Nat /\ g[x] \in Nat /\ f[x] <= g[x]
  BY <1>8
<1>14. Ok(s)
  BY <1>10, <1>12, <1>13
<1>. QED
  BY <1>6, <1>14

LEMMA SumIsMonotone ==
    ASSUME NEW S, IsFiniteSet(S), NEW f, NEW g, DOMAIN f = S, DOMAIN g = S,
           \A x \in S : f[x] \in Nat /\ g[x] \in Nat /\ f[x] <= g[x]
    PROVE  /\ SumFunction(f) \in Nat /\ SumFunction(g) \in Nat
           /\ SumFunction(f) <= SumFunction(g)
<1>1. S \in SUBSET S
  OBVIOUS
<1>2. SumFunction(f) = Partial(f, S)[S] /\ SumFunction(g) = Partial(g, S)[S]
  BY SumIsPartial
<1>. QED
  BY <1>1, <1>2, PartialMonotone

\* A larger factor, a larger product; a larger sum, a larger quotient.
LEMMA Products == \A i, j, k \in Nat : i * k \in Nat /\ (i <= j => i * k <= j * k)
  OBVIOUS

LEMMA Quotients ==
    ASSUME NEW d \in Nat \ {0}, NEW i \in Nat, NEW j \in Nat, i <= j
    PROVE  i \div d \in Nat /\ j \div d \in Nat /\ i \div d <= j \div d
  OBVIOUS

\* The expected cost of an action whose outcomes cost h, as action_cost forms it.
Weighed(h) == (SumFunction([o \in DOMAIN h |-> h[o] * o.prob]) % Word) \div ProbBase

\* No sum of costs up to limit leaves a word.
Roomy(limit) ==
    /\ limit \in Nat
    /\ \A th \in Theta, a \in Action :
          SumFunction([o \in Trans[th][a] |-> limit * o.prob]) < Word

\* While no sum leaves a word, dearer outcomes do not make an action cheaper.
LEMMA WeighedIsMonotone ==
    ASSUME NEW th \in Theta, NEW a \in Action, NEW limit, Roomy(limit), NEW f, NEW g,
           DOMAIN f = Trans[th][a], DOMAIN g = Trans[th][a],
           \A o \in Trans[th][a] :
               f[o] \in Nat /\ g[o] \in Nat /\ f[o] <= g[o] /\ g[o] <= limit
    PROVE  Weighed(f) \in Nat /\ Weighed(g) \in Nat /\ Weighed(f) <= Weighed(g)
<1>. DEFINE T == Trans[th][a]
            Wt(h) == [o \in T |-> h[o] * o.prob]
            F == Wt(f)
            G == Wt(g)
            L == [o \in T |-> limit * o.prob]
<1>1. IsFiniteSet(T) /\ \A o \in T : o.prob \in Nat
  BY ProbAssumption
<1>2. limit \in Nat /\ SumFunction(L) < Word
  BY DEF Roomy
<1>3. DOMAIN F = T /\ DOMAIN G = T /\ DOMAIN L = T
  OBVIOUS
<1>4. ASSUME NEW o \in T
      PROVE  /\ F[o] \in Nat /\ G[o] \in Nat /\ L[o] \in Nat
             /\ F[o] <= G[o] /\ G[o] <= L[o]
  <2>1. f[o] \in Nat /\ g[o] \in Nat /\ f[o] <= g[o] /\ g[o] <= limit /\ o.prob \in Nat
    BY <1>1
  <2>2. F[o] = f[o] * o.prob /\ G[o] = g[o] * o.prob /\ L[o] = limit * o.prob
    OBVIOUS
  <2>. HIDE DEF F, G, L
  <2>. QED
    BY <1>2, <2>1, <2>2, Products
<1>5. Weighed(f) = (SumFunction(F) % Word) \div ProbBase
      /\ Weighed(g) = (SumFunction(G) % Word) \div ProbBase
  BY DEF Weighed
<1>. HIDE DEF F, G, L, T
<1>6. /\ SumFunction(F) \in Nat /\ SumFunction(G) \in Nat /\ SumFunction(F) <= SumFunction(G)
  BY <1>1, <1>3, <1>4, SumIsMonotone
<1>7. SumFunction(L) \in Nat /\ SumFunction(G) <= SumFunction(L)
  BY <1>1, <1>3, <1>4, SumIsMonotone
<1>8. SumFunction(F) % Word = SumFunction(F) /\ SumFunction(G) % Word = SumFunction(G)
  BY <1>2, <1>6, <1>7, ProbAssumption
<1>. QED
  BY <1>5, <1>6, <1>8, Quotients, ProbAssumption

-----------------------------------------------------------------------------
(* Clamped costs: an outcome that is off the map or not reached makes an   *)
(* action worth MaxCost, so that the sentinel enters no sum.  While no sum *)
(* of reached costs leaves a word, a dearer field has dearer updates.      *)

Clamped(s, a, v, free, pen) ==
    IF \E o \in Trans[s[2]][a] : Target(s, o) \notin Cell \/ v[<<Target(s, o), o.th>>] = MaxCost
    THEN MaxCost
    ELSE ActionCost(s, a, v, free, pen)
ClampedLeast(s, v, free, pen) ==
    Least({MaxCost} \cup ({Clamped(s, a, v, free, pen) : a \in Action} \cap Cost))

\* No reached cost, with the penalty of its cell, is above limit.
RoomFor(limit, v, pen) == \A t \in State : v[t] # MaxCost => v[t] + pen[t[1]] <= limit

LEMMA ClampedLeastType ==
    ASSUME NEW s, NEW v, NEW free, NEW pen PROVE ClampedLeast(s, v, free, pen) \in Cost
<1>. DEFINE C == {MaxCost} \cup ({Clamped(s, a, v, free, pen) : a \in Action} \cap Cost)
<1>1. C \subseteq Cost /\ C \subseteq Nat /\ C # {}
  BY BellmanAssumption DEF Cost
<1>. HIDE DEF C
<1>2. Least(C) \in C
  BY <1>1, LeastIsLeast
<1>. QED
  BY <1>1, <1>2 DEF ClampedLeast, C

\* One action.
LEMMA ClampedMonotone ==
    ASSUME NEW limit, Roomy(limit), NEW free, NEW pen \in [Cell -> Nat], NEW s \in State,
           NEW u, NEW v, \A t \in State : u[t] \in Cost /\ v[t] \in Cost /\ u[t] <= v[t],
           RoomFor(limit, v, pen), NEW a \in Action, Clamped(s, a, v, free, pen) # MaxCost
    PROVE  /\ Clamped(s, a, v, free, pen) = ActionCost(s, a, v, free, pen)
           /\ Clamped(s, a, u, free, pen) = ActionCost(s, a, u, free, pen)
           /\ Clamped(s, a, u, free, pen) \in Nat /\ Clamped(s, a, v, free, pen) \in Nat
           /\ Clamped(s, a, u, free, pen) <= Clamped(s, a, v, free, pen)
<1>. DEFINE T == Trans[s[2]][a]
            At(o) == <<Target(s, o), o.th>>
            F == [o \in T |-> u[At(o)] + pen[Target(s, o)]]
            G == [o \in T |-> v[At(o)] + pen[Target(s, o)]]
<1>0. s[2] \in Theta /\ MaxCost \in Nat /\ \A n : n \in Cost <=> n \in Nat /\ n <= MaxCost
  BY BellmanAssumption DEF State, Cost
<1>2. ~ \E o \in T : Target(s, o) \notin Cell \/ v[At(o)] = MaxCost
  BY DEF Clamped
<1>3. Clamped(s, a, v, free, pen) = ActionCost(s, a, v, free, pen)
  BY <1>2 DEF Clamped
<1>4. ~ \E o \in T : Target(s, o) \notin Cell \/ ~free[Target(s, o)]
  <2>1. ActionCost(s, a, v, free, pen) # MaxCost
    BY <1>3
  <2>. QED
    BY <2>1 DEF ActionCost
<1>5. ASSUME NEW o \in T
      PROVE  /\ At(o) \in State /\ v[At(o)] # MaxCost /\ u[At(o)] # MaxCost
             /\ F[o] \in Nat /\ G[o] \in Nat /\ F[o] <= G[o] /\ G[o] <= limit
  <2>1. Target(s, o) \in Cell /\ v[At(o)] # MaxCost
    BY <1>2
  <2>2. At(o) \in State /\ At(o)[1] = Target(s, o)
    BY <1>0, <2>1, TransAssumption DEF State
  <2>3. u[At(o)] \in Nat /\ v[At(o)] \in Nat /\ u[At(o)] <= v[At(o)] /\ v[At(o)] <= MaxCost
    BY <1>0, <2>2
  <2>4. pen[Target(s, o)] \in Nat /\ v[At(o)] + pen[Target(s, o)] <= limit
    BY <2>1, <2>2 DEF RoomFor
  <2>5. F[o] = u[At(o)] + pen[Target(s, o)] /\ G[o] = v[At(o)] + pen[Target(s, o)]
    OBVIOUS
  <2>. HIDE DEF At, F, G
  <2>. QED
    BY <1>0, <2>1, <2>2, <2>3, <2>4, <2>5
<1>6. ASSUME NEW x, NEW X, X = [o \in T |-> x[At(o)] + pen[Target(s, o)]]
      PROVE  ActionCost(s, a, x, free, pen) = Weighed(X)
  <2>1. [o \in T |-> (x[At(o)] + pen[Target(s, o)]) * o.prob] = [o \in DOMAIN X |-> X[o] * o.prob]
    BY <1>6
  <2>. QED
    BY <1>4, <2>1 DEF ActionCost, Weighed
<1>7. Clamped(s, a, v, free, pen) = Weighed(G)
  BY <1>3, <1>6
<1>8. Clamped(s, a, u, free, pen) = ActionCost(s, a, u, free, pen)
  <2>1. \A o \in T : Target(s, o) \in Cell /\ u[At(o)] # MaxCost
    BY <1>2, <1>5
  <2>. QED
    BY <2>1 DEF Clamped
<1>9. Clamped(s, a, u, free, pen) = Weighed(F)
  BY <1>6, <1>8
<1>10. DOMAIN F = T /\ DOMAIN G = T
  OBVIOUS
<1>. HIDE DEF F, G
<1>11. Weighed(F) \in Nat /\ Weighed(G) \in Nat /\ Weighed(F) <= Weighed(G)
  BY <1>0, <1>5, <1>10, WeighedIsMonotone
<1>. QED
  BY <1>3, <1>7, <1>8, <1>9, <1>11

\* The least of them.
LEMMA ClampedLeastMonotone ==
    ASSUME NEW limit, Roomy(limit), NEW free, NEW pen \in [Cell -> Nat], NEW s \in State,
           NEW u, NEW v, \A t \in State : u[t] \in Cost /\ v[t] \in Cost /\ u[t] <= v[t],
           RoomFor(limit, v, pen)
    PROVE  ClampedLeast(s, u, free, pen) <= ClampedLeast(s, v, free, pen)
<1>. DEFINE Cl(a, x) == Clamped(s, a, x, free, pen)
            C(x) == {MaxCost} \cup ({Cl(a, x) : a \in Action} \cap Cost)
<1>0. MaxCost \in Nat /\ \A n : n \in Cost <=> n \in Nat /\ n <= MaxCost
  BY BellmanAssumption DEF Cost
<1>1. ClampedLeast(s, u, free, pen) = Least(C(u)) /\ ClampedLeast(s, v, free, pen) = Least(C(v))
  BY DEF ClampedLeast
<1>2. C(u) \subseteq Nat /\ C(v) \subseteq Nat /\ C(u) # {} /\ C(v) # {}
  BY <1>0
<1>3. Least(C(u)) \in C(u) /\ \A y \in C(u) : Least(C(u)) <= y
  <2>. HIDE DEF C
  <2>. QED
    BY <1>2, LeastIsLeast
<1>4. Least(C(v)) \in C(v)
  <2>. HIDE DEF C
  <2>. QED
    BY <1>2, LeastIsLeast
<1>5. CASE Least(C(v)) = MaxCost
  <2>1. Least(C(u)) <= MaxCost
    BY <1>3
  <2>. QED
    BY <1>1, <1>5, <2>1
<1>6. CASE Least(C(v)) # MaxCost
  <2>1. PICK a \in Action : Least(C(v)) = Cl(a, v) /\ Cl(a, v) \in Cost
    BY <1>4, <1>6
  <2>2. Cl(a, u) \in Nat /\ Cl(a, v) \in Nat /\ Cl(a, u) <= Cl(a, v)
    BY <1>6, <2>1, ClampedMonotone
  <2>. HIDE DEF Cl
  <2>3. Cl(a, u) \in C(u)
    BY <1>0, <2>1, <2>2
  <2>4. Least(C(u)) <= Cl(a, u) /\ Least(C(u)) \in Nat
    BY <1>2, <1>3, <2>3
  <2>. HIDE DEF C
  <2>. QED
    BY <1>1, <2>1, <2>2, <2>4
<1>. QED
  BY <1>5, <1>6
=============================================================================
