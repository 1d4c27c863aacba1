------------------------ MODULE FrontierSparseProofs ------------------------
(***************************************************************************)
(* What the lock-free rounds of the default solver rest on, for any number *)
(* of threads, any block size, any map and any transition table:           *)
(*   - a state has one writer in a round;                                  *)
(*   - a state whose value is not the least cost of its actions is in the  *)
(*     next frontier, whatever the threads read of each other's unfinished *)
(*     round;                                                              *)
(*   - so a solve that converged returns a field that is consistent with   *)
(*     the Bellman update everywhere.                                      *)
(***************************************************************************)
EXTENDS FrontierSparse, BellmanProofs

USE DEF sharedVars, threadVars

-----------------------------------------------------------------------------
(* What an evaluation reads.                                               *)

\* The least cost of the actions of s before a.
LeastBefore(s, a) ==
    Least({MaxCost} \cup ({FusedCost(s, b) : b \in 1 .. a - 1} \cap Cost))

\* What has been stored elsewhere does not change what s costs.
LEMMA CostsDependOnInputs ==
    ASSUME NEW s \in State, \A t \in Reads(s) \cap State : cp'[t] = cp[t]
    PROVE  /\ \A a \in Action : \A o \in Trans[s[2]][a] : EntryAt(s, o)' = EntryAt(s, o)
           /\ \A a \in Action : FusedCost(s, a)' = FusedCost(s, a)
           /\ LeastFused(s)' = LeastFused(s)
           /\ \A a \in 1 .. NumActions + 1 : LeastBefore(s, a)' = LeastBefore(s, a)
<1>1. ASSUME NEW a \in Action, NEW o \in Trans[s[2]][a] PROVE EntryAt(s, o)' = EntryAt(s, o)
  <2>1. At(s, o) \in Reads(s)
    BY DEF Reads, At
  <2>2. CASE Target(s, o) \in Cell
    <3>1. o.th \in Theta
      BY TransAssumption DEF State
    <3>2. At(s, o) \in State
      BY <2>2, <3>1 DEF At, State
    <3>. QED
      BY <2>1, <2>2, <3>2 DEF EntryAt
  <2>3. CASE Target(s, o) \notin Cell
    BY <2>3 DEF EntryAt
  <2>. QED
    BY <2>2, <2>3
<1>2. ASSUME NEW a \in Action PROVE FusedCost(s, a)' = FusedCost(s, a)
  <2>. DEFINE outs == Trans[s[2]][a]
  <2>1. \A o \in outs : EntryAt(s, o)' = EntryAt(s, o)
    BY <1>1
  <2>2. [o \in outs |-> EntryAt(s, o)]' = [o \in outs |-> EntryAt(s, o)]
    BY <2>1
  <2>3. (\E o \in outs : EntryAt(s, o) = Unreached)' <=> (\E o \in outs : EntryAt(s, o) = Unreached)
    BY <2>1
  <2>. QED
    BY <2>2, <2>3 DEF FusedCost
<1>3. LeastFused(s)' = LeastFused(s)
  <2>1. {FusedCost(s, a)' : a \in Action} = {FusedCost(s, a) : a \in Action}
    BY <1>2
  <2>. QED
    BY <2>1 DEF LeastFused
<1>4. ASSUME NEW a \in 1 .. NumActions + 1 PROVE LeastBefore(s, a)' = LeastBefore(s, a)
  <2>1. \A b \in 1 .. a - 1 : b \in Action
    BY BellmanAssumption DEF Action
  <2>2. {FusedCost(s, b)' : b \in 1 .. a - 1} = {FusedCost(s, b) : b \in 1 .. a - 1}
    BY <1>2, <2>1
  <2>. QED
    BY <2>2 DEF LeastBefore
<1>. QED
  BY <1>1, <1>2, <1>3, <1>4

\* One more action: the least cost so far takes its cost in.
LEMMA LowerIsLeast ==
    ASSUME NEW s \in State, NEW a \in Action
    PROVE  /\ LeastBefore(s, a) \in Cost
           /\ Lower(LeastBefore(s, a), FusedCost(s, a)) = LeastBefore(s, a + 1)
<1>. DEFINE A == {MaxCost} \cup ({FusedCost(s, b) : b \in 1 .. a - 1} \cap Cost)
            B == {FusedCost(s, a)} \cap Cost
            C == {MaxCost} \cup ({FusedCost(s, b) : b \in 1 .. (a + 1) - 1} \cap Cost)
<1>0. a \in Nat /\ a >= 1 /\ MaxCost \in Nat /\ Cost \subseteq Nat /\ MaxCost \in Cost
  BY BellmanAssumption DEF Action, Cost
<1>1. 1 .. (a + 1) - 1 = (1 .. a - 1) \cup {a}
  BY <1>0
<1>2. C = A \cup B
  BY <1>1
<1>3. A \subseteq Cost /\ A \subseteq Nat /\ A # {} /\ C \subseteq Nat /\ C # {} /\ B \subseteq Nat
  BY <1>0
<1>. HIDE DEF A, B, C
<1>4. Least(A) \in A /\ \A y \in A : Least(A) <= y
  BY <1>3, LeastIsLeast
<1>5. Least(C) \in C /\ \A y \in C : Least(C) <= y
  BY <1>3, LeastIsLeast
<1>. DEFINE D == {Least(A)} \cup B
<1>6. Least(D) \in D /\ \A y \in D : Least(D) <= y
  BY <1>3, <1>4, LeastIsLeast
<1>7. D \subseteq C
  BY <1>2, <1>4
<1>8. Least(D) = Least(C)
  <2>1. Least(C) <= Least(D)
    BY <1>5, <1>6, <1>7
  <2>2. Least(D) <= Least(C)
    <3>1. CASE Least(C) \in A
      <4>1. Least(A) <= Least(C) /\ Least(D) <= Least(A)
        BY <3>1, <1>4, <1>6
      <4>2. Least(A) \in Nat /\ Least(C) \in Nat /\ Least(D) \in Nat
        BY <1>3, <1>4, <1>5, <1>6, <1>7
      <4>. QED
        BY <4>1, <4>2
    <3>2. CASE Least(C) \in B
      BY <3>2, <1>6
    <3>. QED
      BY <3>1, <3>2, <1>2, <1>5
  <2>3. Least(C) \in Nat /\ Least(D) \in Nat
    BY <1>3, <1>5, <1>6, <1>7
  <2>. QED
    BY <2>1, <2>2, <2>3
<1>. QED
  BY <1>3, <1>4, <1>8 DEF LeastBefore, Lower, A, B, C

\* With every action evaluated it is the value of the state; before the first
\* it is MaxCost.
LEMMA AllActions == ASSUME NEW s \in State PROVE LeastBefore(s, NumActions + 1) = LeastFused(s)
<1>1. 1 .. (NumActions + 1) - 1 = Action
  BY BellmanAssumption DEF Action
<1>. QED
  BY <1>1 DEF LeastBefore, LeastFused

LEMMA LeastOfOne == Least({MaxCost}) = MaxCost
  BY LeastIsLeast, BellmanAssumption

-----------------------------------------------------------------------------
(* The inductive invariant.                                                *)

TypeOK ==
    /\ cp \in [State -> Nat \cup {Unreached}]
    /\ cand \subseteq Cell /\ round \in Nat
    /\ changed \in [Worker -> SUBSET State] /\ todo \in [Worker -> SUBSET State]
    /\ pc \in [Worker -> {"compute", "b1", "lead", "b2", "woken", "exit"}]
    /\ scan = [w \in Worker |-> scan[w]]
    /\ outcome \in {"running", "stopped", "cancelled", "converged", "exhausted"}
    /\ returned \in BOOLEAN

\* Where the threads are: in the compute phase, at the leader's, before the
\* second barrier, or leaving.
Computing == outcome = "running" /\ \A w \in Worker : pc[w] \in {"compute", "b1", "woken"}
Leading ==
    /\ outcome = "running" /\ cand = {}
    /\ pc[Leader] = "lead" /\ \A w \in Worker \ {Leader} : pc[w] = "b2"
Between == \A w \in Worker : pc[w] = "b2"
Leaving == outcome # "running" /\ \A w \in Worker : pc[w] \in {"woken", "exit"}

Phases ==
    /\ Computing \/ Leading \/ Between \/ Leaving
    /\ \A w \in Worker : pc[w] = "b1" => cand = {}
    /\ \A w \in Worker : pc[w] # "compute" => todo[w] = {}
    /\ returned => Leaving /\ \A w \in Worker : pc[w] = "exit"

\* The threads whose list is of the round in progress, and the states moved in
\* that round.
Present == {w \in Worker : pc[w] \in {"compute", "b1"} \/ pc[Leader] = "lead"}
Moved == UNION {changed[w] : w \in Present}

\* A claimed cell is not claimed again in a round.
Claims ==
    /\ \A w \in Worker : \A s \in todo[w] : s[1] \notin cand
    /\ \A s \in Moved : s[1] \notin cand
    /\ OneWriter

\* An evaluation in progress has the costs of the present values, unless an
\* input moved in this round.
Scanned(w) ==
    LET sc == scan[w]
    IN  /\ sc.s \in todo[w] /\ sc.a \in 1 .. NumActions + 1 /\ sc.best \in Cost
        /\ Reads(sc.s) \cap Moved = {} =>
              /\ sc.best = LeastBefore(sc.s, sc.a)
              /\ \A o \in DOMAIN sc.got :
                    /\ sc.a \in Action /\ o \in Trans[sc.s[2]][sc.a]
                    /\ sc.got[o] = EntryAt(sc.s, o) /\ sc.got[o] # Unreached
Scans == \A w \in Worker : todo[w] # {} => Scanned(w)

Consistent(s) == Total(s) = LeastFused(s)
Waiting(s) ==
    \/ s[1] \in cand /\ s[2] \in EvalMask(s[1])
    \/ \E w \in Worker : s \in todo[w]

\* A state none of whose inputs moved in this round is consistent, or still to
\* be evaluated in it.
Covered ==
    outcome = "running" =>
        \A s \in State : (Updates(s) /\ Reads(s) \cap Moved = {}) => Consistent(s) \/ Waiting(s)

Converged ==
    outcome = "converged" => \A s \in State : Updates(s) => Consistent(s)

Inv == TypeOK /\ Phases /\ Claims /\ Scans /\ Covered /\ Converged

-----------------------------------------------------------------------------
(* What the steps have in common.                                          *)

LEMMA LeaderIsWorker == Leader \in Worker
  BY SparseAssumption DEF Leader, Worker

\* There is a first state to evaluate.
LEMMA EarliestIsIn ==
    ASSUME NEW S, S \subseteq State, S # {}
    PROVE  Earliest(S) \in S
<1>. DEFINE Key(s) == Place(s[1]) * NumTheta + s[2]
            K == {Key(s) : s \in S}
<1>1. ASSUME NEW c \in Cell PROVE Place(c) \in Nat
  <2>. DEFINE d == IF round % 2 = 1 THEN <<Width - 1 - c[1], Height - 1 - c[2]>> ELSE c
  <2>1. d[1] \in Nat /\ d[2] \in Nat
    BY BellmanAssumption DEF Cell
  <2>2. Place(c) = d[2] * Width + d[1]
    BY DEF Place
  <2>. HIDE DEF d
  <2>3. \A i, j \in Nat : i * Width + j \in Nat
    BY BellmanAssumption
  <2>. QED
    BY <2>1, <2>2, <2>3
<1>2. ASSUME NEW s \in S PROVE Key(s) \in Nat
  <2>1. Place(s[1]) \in Nat /\ s[2] \in Nat
    BY <1>1, BellmanAssumption DEF State, Theta
  <2>2. \A i, j \in Nat : i * NumTheta + j \in Nat
    BY BellmanAssumption
  <2>. QED
    BY <2>1, <2>2
<1>3. K \subseteq Nat /\ K # {}
  BY <1>2
<1>4. Least(K) \in K /\ \A y \in K : Least(K) <= y
  BY <1>3, LeastIsLeast
<1>5. PICK s \in S : Least(K) = Key(s)
  BY <1>4
<1>6. \A u \in S : Key(s) <= Key(u)
  BY <1>4, <1>5
<1>. QED
  BY <1>6 DEF Earliest

\* A new evaluation begins well.
LEMMA BeginIsScanned ==
    ASSUME NEW w \in Worker, todo'[w] \subseteq State, todo'[w] # {},
           scan'[w] = Evaluate(todo'[w]), UNCHANGED round
    PROVE  Scanned(w)'
<1>1. PICK s \in todo'[w] : scan'[w] = Begin(s, 1, MaxCost)
  BY EarliestIsIn DEF Evaluate
<1>2. s \in State /\ 1 \in 1 .. NumActions + 1 /\ MaxCost \in Cost
  BY BellmanAssumption DEF Cost
<1>3. /\ scan'[w].s = s /\ scan'[w].a = 1 /\ scan'[w].best = MaxCost
      /\ DOMAIN scan'[w].got = {}
  BY <1>1 DEF Begin
<1>4. LeastBefore(s, 1)' = MaxCost
  <2>1. {MaxCost} \cup ({FusedCost(s, b)' : b \in 1 .. 1 - 1} \cap Cost) = {MaxCost}
    OBVIOUS
  <2>. QED
    BY <2>1, LeastOfOne DEF LeastBefore
<1>. QED
  BY <1>2, <1>3, <1>4 DEF Scanned

\* The array changes only where states move.
Framed == Moved \subseteq Moved' /\ \A t \in State : cp'[t] # cp[t] => t \in Moved'

\* An evaluation in progress is disturbed only by a state it reads.
LEMMA ScannedKept ==
    ASSUME NEW w \in Worker, Scanned(w), Framed, todo[w] \subseteq State,
           todo'[w] = todo[w], scan'[w] = scan[w]
    PROVE  Scanned(w)'
<1>. DEFINE sc == scan[w]
<1>1. sc.s \in State /\ sc.a \in 1 .. NumActions + 1
  BY DEF Scanned
<1>2. ASSUME Reads(sc.s) \cap Moved' = {}
      PROVE  /\ sc.best = LeastBefore(sc.s, sc.a)'
             /\ \A o \in DOMAIN sc.got :
                    /\ sc.a \in Action /\ o \in Trans[sc.s[2]][sc.a]
                    /\ sc.got[o] = EntryAt(sc.s, o)' /\ sc.got[o] # Unreached
  <2>1. \A t \in Reads(sc.s) \cap State : cp'[t] = cp[t]
    BY <1>2 DEF Framed
  <2>2. Reads(sc.s) \cap Moved = {}
    BY <1>2 DEF Framed
  <2>. QED
    BY <1>1, <2>1, <2>2, CostsDependOnInputs DEF Scanned
<1>. QED
  BY <1>1, <1>2 DEF Scanned

\* So is the consistency of a state that is not itself written.
LEMMA ConsistentKept ==
    ASSUME NEW s \in State, Framed, Reads(s) \cap Moved' = {}, cp'[s] = cp[s]
    PROVE  Consistent(s)' <=> Consistent(s)
<1>1. \A t \in Reads(s) \cap State : cp'[t] = cp[t]
  BY DEF Framed
<1>2. LeastFused(s)' = LeastFused(s)
  BY <1>1, CostsDependOnInputs
<1>3. Total(s)' = Total(s)
  BY DEF Total
<1>. QED
  BY <1>2, <1>3 DEF Consistent

\* When nothing is written, nothing becomes inconsistent.
LEMMA AllConsistentKept ==
    ASSUME NEW s \in State, cp' = cp
    PROVE  Consistent(s)' <=> Consistent(s)
<1>1. LeastFused(s)' = LeastFused(s)
  BY CostsDependOnInputs
<1>2. Total(s)' = Total(s)
  BY DEF Total
<1>. QED
  BY <1>1, <1>2 DEF Consistent

-----------------------------------------------------------------------------
(* Induction: the compute phase.                                           *)

\* A thread that computes: the phase, and whose lists count.
LEMMA ComputePhase ==
    ASSUME Inv, NEW w \in Worker, pc[w] = "compute"
    PROVE  /\ Computing /\ ~returned
           /\ Present = {v \in Worker : pc[v] \in {"compute", "b1"}} /\ w \in Present
<1>1. Computing /\ ~returned
  BY LeaderIsWorker DEF Inv, Phases, Computing, Leading, Between, Leaving
<1>2. pc[Leader] # "lead"
  BY <1>1, LeaderIsWorker DEF Computing
<1>. QED
  BY <1>1, <1>2 DEF Present

\* A thread takes a block: its cells leave the candidates, their states wait in
\* its hands instead.
LEMMA ClaimInv ==
    ASSUME Inv, NEW w \in Worker, Claim(w)
    PROVE  Inv'
<1>. DEFINE block == First(cand)
<1>1. /\ pc[w] = "compute" /\ todo[w] = {} /\ cand' = cand \ block
      /\ todo' = [todo EXCEPT ![w] = StatesOf(block)]
      /\ scan' = [scan EXCEPT ![w] = Evaluate(todo'[w])]
      /\ pc' = [pc EXCEPT ![w] = IF cand = {} THEN "b1" ELSE @]
      /\ UNCHANGED <<engine, field, start, cp, mask, round, outcome, changed, returned>>
  BY DEF Claim
<1>2. block \subseteq cand
  BY DEF First
<1>3. ASSUME NEW s \in StatesOf(block) PROVE s \in State /\ s[1] \in block
  <2>1. PICK c \in block : s \in Column(c) \/ s \in EngineColumn(c)
    BY DEF StatesOf
  <2>2. c \in Cell
    BY <1>2 DEF Inv, TypeOK
  <2>. QED
    BY <2>1, <2>2 DEF Column, EngineColumn, State
<1>4. ASSUME NEW s \in State, Updates(s), s[1] \in block, s[2] \in EvalMask(s[1])
      PROVE  s \in StatesOf(block)
  <2>1. s \in {s[1]} \X Theta
    BY DEF State
  <2>2. s \in Column(s[1]) /\ s \in EngineColumn(s[1])
    BY <1>4, <2>1 DEF Column, EngineColumn
  <2>. QED
    BY <1>4, <2>2 DEF StatesOf
<1>. HIDE DEF block
<1>5. Computing /\ Present = {v \in Worker : pc[v] \in {"compute", "b1"}} /\ ~returned
  BY <1>1, ComputePhase
<1>6. TypeOK /\ todo'[w] = StatesOf(block) /\ \A v \in Worker \ {w} : todo'[v] = todo[v]
  BY <1>1 DEF Inv, TypeOK
<1>7. TypeOK'
  <2>1. todo' \in [Worker -> SUBSET State] /\ cand' \subseteq Cell
    BY <1>1, <1>3, <1>6 DEF TypeOK
  <2>2. scan' = [v \in Worker |-> scan'[v]]
    BY <1>1, <1>6 DEF TypeOK
  <2>. QED
    BY <1>1, <1>6, <2>1, <2>2 DEF TypeOK
<1>8. Computing' /\ (\A v \in Worker : pc'[v] = "b1" => cand' = {})
      /\ (\A v \in Worker : pc'[v] # "compute" => todo'[v] = {})
  <2>1. Computing'
    BY <1>1, <1>5, <1>6 DEF Computing, TypeOK
  <2>2. cand = {} => cand' = {} /\ StatesOf(block) = {}
    BY <1>1, <1>2, <1>3
  <2>3. ASSUME NEW v \in Worker, pc'[v] # "compute"
        PROVE  todo'[v] = {} /\ (pc'[v] = "b1" => cand' = {})
    <3>1. CASE v = w
      BY <1>1, <1>6, <2>2, <2>3, <3>1 DEF TypeOK
    <3>2. CASE v # w
      BY <1>1, <1>6, <2>2, <2>3, <3>2 DEF TypeOK, Inv, Phases
    <3>. QED
      BY <3>1, <3>2
  <2>. QED
    BY <2>1, <2>3
<1>9. Phases'
  BY <1>1, <1>5, <1>8 DEF Phases
<1>10. Present' = Present /\ Moved' = Moved
  <2>1. pc'[Leader] # "lead"
    BY <1>8, LeaderIsWorker DEF Computing
  <2>2. \A v \in Worker : pc'[v] \in {"compute", "b1"} <=> pc[v] \in {"compute", "b1"}
    BY <1>1, <1>6 DEF TypeOK
  <2>3. Present' = Present
    BY <1>5, <2>1, <2>2 DEF Present
  <2>. QED
    BY <1>1, <2>3 DEF Moved
<1>11. Claims'
  <2>1. ASSUME NEW v \in Worker, NEW s \in todo'[v] PROVE s[1] \notin cand'
    BY <1>1, <1>3, <1>6, <2>1 DEF Inv, Claims
  <2>2. \A s \in Moved' : s[1] \notin cand'
    BY <1>1, <1>10 DEF Inv, Claims
  <2>3. ASSUME NEW u \in Worker, NEW v \in Worker
        PROVE  /\ u # v => todo'[u] \cap todo'[v] = {}
               /\ pc'[u] \in {"compute", "b1"} => todo'[v] \cap changed'[u] = {}
    <3>1. u # v => todo'[u] \cap todo'[v] = {}
      BY <1>2, <1>3, <1>6 DEF Inv, Claims, OneWriter
    <3>2. ASSUME pc'[u] \in {"compute", "b1"} PROVE todo'[v] \cap changed'[u] = {}
      <4>1. u \in Present /\ changed'[u] = changed[u] /\ pc[u] \in {"compute", "b1"}
        BY <1>1, <1>5, <1>6, <3>2 DEF TypeOK
      <4>2. \A s \in changed[u] : s[1] \notin cand
        BY <4>1 DEF Inv, Claims, Moved
      <4>3. todo[v] \cap changed[u] = {}
        BY <4>1 DEF Inv, Claims, OneWriter
      <4>. QED
        BY <1>2, <1>3, <1>6, <4>1, <4>2, <4>3
    <3>. QED
      BY <3>1, <3>2
  <2>4. OneWriter'
    BY <2>3 DEF OneWriter
  <2>. QED
    BY <2>1, <2>2, <2>4 DEF Claims
<1>12. Scans'
  <2>. SUFFICES ASSUME NEW v \in Worker, todo'[v] # {} PROVE Scanned(v)'
    BY DEF Scans
  <2>1. CASE v = w
    <3>1. scan'[w] = Evaluate(todo'[w])
      BY <1>1, <1>6 DEF TypeOK
    <3>2. todo'[w] \subseteq State
      BY <1>3, <1>6
    <3>. QED
      BY <1>1, <2>1, <3>1, <3>2, BeginIsScanned
  <2>2. CASE v # w
    <3>1. scan'[v] = scan[v] /\ todo'[v] = todo[v]
      BY <1>1, <1>6, <2>2 DEF TypeOK
    <3>2. Scanned(v) /\ todo[v] \subseteq State
      BY <3>1 DEF Inv, Scans, TypeOK
    <3>3. Framed
      BY <1>1, <1>10 DEF Framed
    <3>. QED
      BY <3>1, <3>2, <3>3, ScannedKept
  <2>. QED
    BY <2>1, <2>2
<1>13. Covered'
  <2>. SUFFICES ASSUME outcome' = "running", NEW s \in State, Updates(s), Reads(s) \cap Moved' = {}
                PROVE  Consistent(s)' \/ Waiting(s)'
    BY DEF Covered, Updates
  <2>1. Consistent(s) \/ Waiting(s)
    BY <1>1, <1>10 DEF Inv, Covered
  <2>2. ASSUME Waiting(s) PROVE Waiting(s)'
    <3>0. EvalMask(s[1])' = EvalMask(s[1])
      BY <1>1 DEF EvalMask
    <3>1. CASE \E v \in Worker : s \in todo[v]
      BY <1>1, <1>6, <3>1 DEF Waiting
    <3>2. CASE s[1] \in cand /\ s[2] \in EvalMask(s[1])
      BY <1>1, <1>4, <1>6, <3>0, <3>2 DEF Waiting
    <3>. QED
      BY <2>2, <3>1, <3>2 DEF Waiting
  <2>. QED
    BY <1>1, <2>1, <2>2, AllConsistentKept
<1>14. Converged'
  BY <1>1, AllConsistentKept DEF Inv, Converged, Updates
<1>. QED
  BY <1>7, <1>9, <1>11, <1>12, <1>13, <1>14 DEF Inv

LEMMA LowerType == ASSUME NEW best \in Cost, NEW cost PROVE Lower(best, cost) \in Cost
<1>. DEFINE D == {best} \cup ({cost} \cap Cost)
<1>1. D \subseteq Cost /\ D \subseteq Nat /\ D # {}
  BY BellmanAssumption DEF Cost
<1>. HIDE DEF D
<1>2. Least(D) \in D
  BY <1>1, LeastIsLeast
<1>. QED
  BY <1>1, <1>2 DEF Lower, D

\* A load: the entry that was read is the present one.
LEMMA LoadInv ==
    ASSUME Inv, NEW w \in Worker, Load(w)
    PROVE  Inv'
<1>0. PICK sc, s, a : sc = scan[w] /\ s = sc.s /\ a = sc.a
  OBVIOUS
<1>. DEFINE outs == Trans[s[2]][a]
            Done(cost) == Begin(s, a + 1, Lower(sc.best, cost))
<1>1. /\ pc[w] = "compute" /\ todo[w] # {} /\ a \in Action
      /\ UNCHANGED <<engine, field, start, sharedVars, changed, pc, todo, returned>>
  BY <1>0 DEF Load
<1>2. PICK o \in outs \ DOMAIN sc.got : scan' = [scan EXCEPT ![w] = Loaded(sc, o)]
  BY <1>0 DEF Load
<1>. DEFINE v == EntryAt(s, o)
            got == [p \in DOMAIN sc.got \cup {o} |-> IF p = o THEN v ELSE sc.got[p]]
            new == IF v = Unreached THEN Done(MaxCost)
                   ELSE IF DOMAIN got = outs THEN Done(WeightedSum(got))
                   ELSE [s |-> s, a |-> a, got |-> got, best |-> sc.best]
<1>3. scan' = [scan EXCEPT ![w] = new]
  <2>1. Loaded(sc, o) = new
    BY <1>0, Zenon DEF Loaded
  <2>. QED
    BY <1>2, <2>1
<1>. HIDE DEF new
<1>4. scan'[w] = new /\ (\A u \in Worker \ {w} : scan'[u] = scan[u]) /\ TypeOK'
  BY <1>1, <1>3 DEF Inv, TypeOK
<1>5. Moved' = Moved /\ Framed
  BY <1>1 DEF Moved, Present, Framed
<1>6. Scanned(w) /\ s \in todo[w] /\ s \in State /\ sc.best \in Cost /\ a \in Int
  BY <1>0, <1>1 DEF Inv, Scans, Scanned, TypeOK, Action
<1>7. /\ \A b \in 1 .. NumActions + 1 : LeastBefore(s, b)' = LeastBefore(s, b)
      /\ \A p \in outs : EntryAt(s, p)' = EntryAt(s, p)
  BY <1>1, <1>6, CostsDependOnInputs
<1>8. a + 1 \in 1 .. NumActions + 1 /\ a \in 1 .. NumActions + 1
  BY <1>1, BellmanAssumption DEF Action
<1>9. \A cost : Lower(sc.best, cost) \in Cost
  BY <1>6, LowerType
<1>10. Scanned(w)'
  <2>1. ASSUME NEW cost, new = Done(cost), Reads(s) \cap Moved = {} => cost = FusedCost(s, a)
        PROVE  Scanned(w)'
    <3>1. /\ new.s = s /\ new.a = a + 1 /\ new.best = Lower(sc.best, cost)
          /\ DOMAIN new.got = {}
      BY <2>1 DEF Begin
    <3>2. Reads(s) \cap Moved = {} => new.best = LeastBefore(s, a + 1)
      BY <1>0, <1>1, <1>6, <2>1, <3>1, LowerIsLeast DEF Scanned
    <3>. QED
      BY <1>1, <1>4, <1>5, <1>6, <1>7, <1>8, <1>9, <3>1, <3>2 DEF Scanned
  <2>2. ASSUME Reads(s) \cap Moved = {}, v # Unreached
        PROVE  \A p \in DOMAIN got : p \in outs /\ got[p] = EntryAt(s, p) /\ got[p] # Unreached
    BY <1>0, <1>6, <2>2 DEF Scanned
  <2>3. CASE v = Unreached
    <3>1. FusedCost(s, a) = MaxCost
      BY <2>3 DEF FusedCost
    <3>2. new = Done(MaxCost)
      BY <2>3 DEF new
    <3>. QED
      BY <2>1, <3>1, <3>2
  <2>4. CASE v # Unreached /\ DOMAIN got = outs
    <3>1. Reads(s) \cap Moved = {} => WeightedSum(got) = FusedCost(s, a)
      <4>. SUFFICES ASSUME Reads(s) \cap Moved = {} PROVE WeightedSum(got) = FusedCost(s, a)
        OBVIOUS
      <4>1. \A p \in outs : got[p] = EntryAt(s, p) /\ EntryAt(s, p) # Unreached
        BY <2>2, <2>4
      <4>2. got = [p \in DOMAIN got |-> got[p]]
        OBVIOUS
      <4>3. got = [p \in outs |-> EntryAt(s, p)]
        BY <2>4, <4>1, <4>2
      <4>. QED
        BY <4>1, <4>3 DEF FusedCost
    <3>2. new = Done(WeightedSum(got))
      BY <2>4 DEF new
    <3>. QED
      BY <2>1, <3>1, <3>2
  <2>5. CASE v # Unreached /\ DOMAIN got # outs
    <3>1. new = [s |-> s, a |-> a, got |-> got, best |-> sc.best]
      BY <2>5 DEF new
    <3>2. new.s = s /\ new.a = a /\ new.best = sc.best /\ new.got = got
      BY <3>1
    <3>3. Reads(s) \cap Moved = {} => sc.best = LeastBefore(s, a)
      BY <1>0, <1>6 DEF Scanned
    <3>. HIDE DEF got, v, outs
    <3>4. Reads(s) \cap Moved = {} =>
            \A p \in DOMAIN got :
                p \in Trans[s[2]][a] /\ got[p] = EntryAt(s, p)' /\ got[p] # Unreached
      BY <1>7, <2>2, <2>5 DEF outs
    <3>. QED
      BY <1>1, <1>4, <1>5, <1>6, <1>7, <1>8, <3>2, <3>3, <3>4 DEF Scanned
  <2>. QED
    BY <2>3, <2>4, <2>5
<1>11. Scans'
  <2>. SUFFICES ASSUME NEW u \in Worker, todo'[u] # {} PROVE Scanned(u)'
    BY DEF Scans
  <2>1. CASE u # w
    BY <1>1, <1>4, <1>5, <2>1, ScannedKept DEF Inv, Scans, TypeOK
  <2>. QED
    BY <1>10, <2>1
<1>12. Phases' /\ Claims'
  BY <1>1, <1>5 DEF Inv, Phases, Computing, Leading, Between, Leaving, Claims, OneWriter
<1>13. Covered' /\ Converged'
  <2>1. \A t \in State : Waiting(t)' <=> Waiting(t)
    BY <1>1 DEF Waiting, EvalMask
  <2>. QED
    BY <1>1, <1>5, <2>1, AllConsistentKept DEF Inv, Covered, Converged, Updates
<1>. QED
  BY <1>4, <1>11, <1>12, <1>13 DEF Inv

\* What is stored stands for the least cost found.
LEMMA EntryIsBest ==
    ASSUME NEW s \in State, NEW best \in Cost
    PROVE  /\ Entry(s, best) \in Nat \cup {Unreached}
           /\ (IF Entry(s, best) = Unreached THEN MaxCost ELSE Entry(s, best) - Pen[s[1]]) = best
<1>1. s[1] \in Cell /\ best \in Nat /\ Pen[s[1]] \in Nat
  BY SparseAssumption, BellmanAssumption DEF State, Cost
<1>2. best + Pen[s[1]] \in Nat /\ best + Pen[s[1]] - Pen[s[1]] = best
  BY <1>1
<1>3. best + Pen[s[1]] # Unreached
  BY <1>1, SparseAssumption
<1>4. CASE engine = "unsafe" /\ best = MaxCost
  <2>1. Entry(s, best) = Unreached
    BY <1>4 DEF Entry, EntryUnsafe
  <2>. QED
    BY <1>4, <2>1
<1>5. CASE ~(engine = "unsafe" /\ best = MaxCost)
  <2>1. Entry(s, best) = best + Pen[s[1]]
    BY <1>5 DEF Entry, EntryUnsafe, EntryFused
  <2>2. Entry(s, best) # Unreached /\ Entry(s, best) \in Nat
    BY <1>2, <1>3, <2>1
  <2>3. Entry(s, best) - Pen[s[1]] = best
    BY <1>1, <2>1, <2>2
  <2>. QED
    BY <2>2, <2>3, Zenon
<1>. QED
  BY <1>4, <1>5

\* The end of an evaluation: if no input moved, the state is consistent now; and
\* if it moved itself, those that read it are no longer claimed to be.
LEMMA StoreInv ==
    ASSUME Inv, NEW w \in Worker, Store(w)
    PROVE  Inv'
<1>0. PICK s, best : s = scan[w].s /\ best = scan[w].best
  OBVIOUS
<1>. DEFINE moved == best # Total(s)
<1>1. /\ pc[w] = "compute" /\ todo[w] # {} /\ scan[w].a \notin Action
      /\ cp' = IF moved THEN [cp EXCEPT ![s] = Entry(s, best)] ELSE cp
      /\ changed' = [changed EXCEPT ![w] = IF moved THEN @ \cup {s} ELSE @]
      /\ todo' = [todo EXCEPT ![w] = @ \ {s}]
      /\ scan' = [scan EXCEPT ![w] = Evaluate(todo'[w])]
      /\ UNCHANGED <<engine, field, start, mask, cand, round, outcome, pc, returned>>
  BY <1>0 DEF Store
<1>. HIDE DEF moved
<1>2. TypeOK /\ Scanned(w)
  BY <1>1 DEF Inv, Scans
<1>3. s \in todo[w] /\ s \in State /\ best \in Cost /\ scan[w].a = NumActions + 1
  BY <1>0, <1>1, <1>2, BellmanAssumption DEF TypeOK, Scanned, Action
<1>4. /\ todo'[w] = todo[w] \ {s} /\ \A v \in Worker \ {w} : todo'[v] = todo[v]
      /\ changed'[w] = IF moved THEN changed[w] \cup {s} ELSE changed[w]
      /\ \A v \in Worker \ {w} : changed'[v] = changed[v]
      /\ scan'[w] = Evaluate(todo'[w]) /\ \A v \in Worker \ {w} : scan'[v] = scan[v]
  BY <1>1, <1>2 DEF TypeOK
<1>5. /\ cp' \in [State -> Nat \cup {Unreached}]
      /\ cp'[s] = IF moved THEN Entry(s, best) ELSE cp[s]
      /\ \A t \in State : t # s => cp'[t] = cp[t]
  BY <1>1, <1>2, <1>3, EntryIsBest DEF TypeOK
<1>6. TypeOK'
  <2>1. todo' \in [Worker -> SUBSET State] /\ changed' \in [Worker -> SUBSET State]
    BY <1>1, <1>2, <1>3 DEF TypeOK
  <2>2. scan' = [v \in Worker |-> scan'[v]]
    BY <1>1, <1>2 DEF TypeOK
  <2>. QED
    BY <1>1, <1>2, <1>5, <2>1, <2>2 DEF TypeOK
<1>7. w \in Present /\ Present' = Present /\ Computing
  BY <1>1, ComputePhase DEF Present
<1>8. Moved' = IF moved THEN Moved \cup {s} ELSE Moved
  <2>0. Present \subseteq Worker
    BY DEF Present
  <2>1. Moved' = UNION {changed'[v] : v \in Present}
    BY <1>7 DEF Moved
  <2>2. ASSUME NEW t PROVE t \in Moved' <=> t \in Moved \/ (moved /\ t = s)
    <3>1. t \in Moved' <=> \E v \in Present : t \in changed'[v]
      BY <2>1
    <3>2. t \in Moved <=> \E v \in Present : t \in changed[v]
      BY DEF Moved
    <3>3. \A v \in Present : t \in changed'[v] <=> t \in changed[v] \/ (v = w /\ moved /\ t = s)
      BY <1>4, <2>0
    <3>. QED
      BY <1>7, <3>1, <3>2, <3>3
  <2>. QED
    BY <2>2
<1>9. Framed
  BY <1>3, <1>5, <1>8 DEF Framed
<1>10. Total(s)' = best
  <2>1. CASE moved
    BY <1>3, <1>5, <2>1, EntryIsBest DEF Total
  <2>2. CASE ~moved
    BY <1>5, <2>2 DEF Total, moved
  <2>. QED
    BY <2>1, <2>2
<1>11. Phases'
  BY <1>1, <1>4 DEF Inv, Phases, Computing, Leading, Between, Leaving
<1>12. Claims'
  <2>1. \A v \in Worker : todo'[v] \subseteq todo[v]
    BY <1>4
  <2>2. ASSUME NEW v \in Worker, NEW t \in todo'[v] PROVE t[1] \notin cand'
    BY <1>1, <2>1 DEF Inv, Claims
  <2>3. \A t \in Moved' : t[1] \notin cand'
    BY <1>1, <1>3, <1>8 DEF Inv, Claims
  <2>4. ASSUME NEW v \in Worker PROVE s \notin todo'[v]
    BY <1>3, <1>4 DEF Inv, Claims, OneWriter
  <2>5. OneWriter'
    <3>. SUFFICES ASSUME NEW u \in Worker, NEW v \in Worker
                  PROVE  /\ u # v => todo'[u] \cap todo'[v] = {}
                         /\ pc'[u] \in {"compute", "b1"} => todo'[v] \cap changed'[u] = {}
      BY DEF OneWriter
    <3>1. u # v => todo'[u] \cap todo'[v] = {}
      BY <2>1 DEF Inv, Claims, OneWriter
    <3>2. pc'[u] \in {"compute", "b1"} => todo'[v] \cap changed[u] = {}
      BY <1>1, <2>1 DEF Inv, Claims, OneWriter
    <3>. QED
      BY <1>4, <2>4, <3>1, <3>2
  <2>. QED
    BY <2>2, <2>3, <2>5 DEF Claims
<1>13. Scans'
  <2>. SUFFICES ASSUME NEW v \in Worker, todo'[v] # {} PROVE Scanned(v)'
    BY DEF Scans
  <2>1. CASE v = w
    BY <1>1, <1>4, <1>6, <2>1, BeginIsScanned DEF TypeOK
  <2>2. CASE v # w
    <3>1. Scanned(v) /\ todo[v] \subseteq State
      BY <1>2, <1>4, <2>2 DEF Inv, Scans, TypeOK
    <3>. QED
      BY <1>4, <1>9, <2>2, <3>1, ScannedKept
  <2>. QED
    BY <2>1, <2>2
<1>14. Covered'
  <2>. SUFFICES ASSUME outcome' = "running", NEW t \in State, Updates(t), Reads(t) \cap Moved' = {}
                PROVE  Consistent(t)' \/ Waiting(t)'
    BY DEF Covered, Updates
  <2>1. Reads(t) \cap Moved = {}
    BY <1>8
  <2>2. CASE t = s
    <3>1. best = LeastBefore(s, NumActions + 1)
      BY <1>0, <1>2, <1>3, <2>1, <2>2 DEF Scanned
    <3>2. \A u \in Reads(s) \cap State : cp'[u] = cp[u]
      BY <1>9, <2>2 DEF Framed
    <3>3. LeastFused(s)' = best
      BY <1>3, <3>1, <3>2, AllActions, CostsDependOnInputs
    <3>. QED
      BY <1>10, <2>2, <3>3 DEF Consistent
  <2>3. CASE t # s
    <3>1. Consistent(t) \/ Waiting(t)
      BY <1>1, <2>1 DEF Inv, Covered
    <3>2. Consistent(t)' <=> Consistent(t)
      BY <1>5, <1>9, <2>3, ConsistentKept
    <3>3. EvalMask(t[1])' = EvalMask(t[1])
      BY <1>1 DEF EvalMask
    <3>4. Waiting(t) => Waiting(t)'
      BY <1>1, <1>4, <2>3, <3>3 DEF Waiting
    <3>. QED
      BY <3>1, <3>2, <3>4
  <2>. QED
    BY <2>2, <2>3
<1>15. Converged'
  BY <1>1, <1>7 DEF Converged, Computing
<1>. QED
  BY <1>6, <1>11, <1>12, <1>13, <1>14, <1>15 DEF Inv

-----------------------------------------------------------------------------
(* Induction: the barriers and the leader.                                 *)

\* Without a list of this round and without claims, nothing is in hand.
LEMMA NothingInHand ==
    ASSUME \A w \in Worker : todo'[w] = {}, Present' = {}
    PROVE  Moved' = {} /\ Claims' /\ Scans'
<1>1. Moved' = {}
  BY DEF Moved
<1>. QED
  BY <1>1 DEF Claims, OneWriter, Scans

\* The states of a round that is over: consistent, unless an input moved.
LEMMA RoundIsOver ==
    ASSUME Inv, pc[Leader] = "lead"
    PROVE  /\ Leading /\ ~returned /\ \A w \in Worker : todo[w] = {}
           /\ AllMoved \subseteq State
           /\ \A s \in State : Updates(s) => Consistent(s) \/ Reads(s) \cap AllMoved # {}
<1>1. Leading /\ ~returned
  BY LeaderIsWorker DEF Inv, Phases, Computing, Leading, Between, Leaving
<1>2. \A w \in Worker : pc[w] # "compute"
  BY <1>1, LeaderIsWorker DEF Leading
<1>3. \A w \in Worker : todo[w] = {}
  BY <1>2 DEF Inv, Phases
<1>4. Present = Worker
  BY DEF Present
<1>5. Moved = AllMoved
  BY <1>4 DEF Moved, AllMoved
<1>6. AllMoved \subseteq State
  BY DEF AllMoved, Inv, TypeOK
<1>7. ASSUME NEW s \in State PROVE ~Waiting(s)
  BY <1>1, <1>3 DEF Leading, Waiting
<1>. QED
  BY <1>1, <1>3, <1>5, <1>6, <1>7 DEF Inv, Covered, Leading

\* The leader lays out the cells around what moved: whoever reads a state that
\* moved is among them, with its heading.
LEMMA LeadInv ==
    ASSUME Inv, Lead \/ LeadEngine
    PROVE  Inv'
<1>. DEFINE moved == AllMoved
            more == moved # {} /\ round + 1 < MaxIter
            boundary == more /\ (round + 1) % Interval = 0
<1>1. pc[Leader] = "lead" /\ Decide(moved)
  BY DEF Lead, LeadEngine
<1>2. PICK flow \in IF boundary THEN Flows ELSE {"Continue"} :
         IF more /\ flow = "Continue"
         THEN /\ cand' = Dilate({s[1] : s \in moved})
              /\ UNCHANGED outcome
         ELSE /\ outcome' = CASE flow = "Stop"                     -> "stopped"
                              [] flow = "Cancel"                   -> "cancelled"
                              [] flow = "Continue" /\ moved = {} -> "converged"
                              [] OTHER                             -> "exhausted"
              /\ UNCHANGED cand
  BY <1>1 DEF Decide
<1>3. /\ round' = round + 1 /\ pc' = [pc EXCEPT ![Leader] = "b2"]
      /\ UNCHANGED <<engine, start, cp, changed, todo, scan, returned>>
  BY <1>1 DEF Decide
<1>4. /\ Leading /\ ~returned /\ \A w \in Worker : todo[w] = {}
      /\ moved \subseteq State
      /\ \A s \in State : Updates(s) => Consistent(s) \/ Reads(s) \cap moved # {}
  BY <1>1, RoundIsOver
<1>5. /\ outcome' \in {"running", "stopped", "cancelled", "converged", "exhausted"}
      /\ outcome' = "converged" => moved = {}
      /\ outcome' = "running" => cand' = Dilate({s[1] : s \in moved})
      /\ cand' \subseteq Cell
  <2>. DEFINE near == Dilate({s[1] : s \in moved})
  <2>0. outcome = "running" /\ cand \subseteq Cell
    BY <1>4 DEF Leading, Inv, TypeOK
  <2>1. near \subseteq Cell
    BY DEF Dilate, Near
  <2>. HIDE DEF near
  <2>2. CASE more /\ flow = "Continue"
    BY <1>2, <2>0, <2>1, <2>2 DEF near
  <2>3. CASE ~(more /\ flow = "Continue")
    BY <1>2, <2>0, <2>3
  <2>. QED
    BY <2>2, <2>3
<1>. HIDE DEF moved, more, boundary
<1>6. TypeOK'
  BY <1>3, <1>5, LeaderIsWorker DEF Inv, TypeOK
<1>7. Between'
  BY <1>3, <1>4, LeaderIsWorker DEF Between, Leading, Inv, TypeOK
<1>8. Phases'
  BY <1>3, <1>4, <1>7 DEF Phases, Between
<1>9. Present' = {}
  BY <1>7, LeaderIsWorker DEF Present, Between
<1>10. Moved' = {} /\ Claims' /\ Scans'
  BY <1>3, <1>4, <1>9, NothingInHand
<1>11. \A s \in State : Consistent(s)' <=> Consistent(s)
  BY <1>3, AllConsistentKept
<1>12. Covered'
  <2>. SUFFICES ASSUME outcome' = "running", NEW s \in State, Updates(s)
                PROVE  Consistent(s)' \/ Waiting(s)'
    BY DEF Covered, Updates
  <2>1. CASE Reads(s) \cap moved = {}
    BY <1>4, <1>11, <2>1
  <2>2. CASE Reads(s) \cap moved # {}
    <3>1. PICK t \in Reads(s) : t \in moved /\ t \in State
      BY <1>4, <2>2
    <3>2. /\ t[1] \in Near(s[1]) /\ s[1] \in Near(t[1])
          /\ Circ(s[2], t[2]) <= ThetaReach
      BY <3>1, ReadsAreNear
    <3>3. s[1] \in cand'
      BY <1>5, <3>1, <3>2 DEF Dilate
    <3>4. s[2] \in Theta /\ t[2] \in Theta /\ t[1] \in Cell /\ t = <<t[1], t[2]>>
      BY <3>1 DEF State
    <3>5. s[2] \in EvalMask(s[1])'
      <4>1. CASE engine' # "sparse"
        BY <3>4, <4>1 DEF EvalMask
      <4>2. CASE engine' = "sparse"
        <5>1. mask' = [c \in Cell |-> {th \in Theta : <<c, th>> \in moved}]
          BY <1>3, <4>2 DEF Lead, LeadEngine, moved
        <5>2. t[2] \in mask'[t[1]]
          BY <3>1, <3>4, <5>1
        <5>3. t[2] \in UNION {mask'[d] : d \in Near(s[1])}
          BY <3>2, <5>2
        <5>4. s[2] \in RotDilate(UNION {mask'[d] : d \in Near(s[1])})
          BY <3>2, <3>4, <5>3 DEF RotDilate
        <5>5. round' # 0
          BY <1>3 DEF Inv, TypeOK
        <5>. QED
          BY <4>2, <5>4, <5>5 DEF EvalMask
      <4>. QED
        BY <4>1, <4>2
    <3>. QED
      BY <3>3, <3>5 DEF Waiting
  <2>. QED
    BY <2>1, <2>2
<1>13. Converged'
  BY <1>4, <1>5, <1>11 DEF Converged, Updates
<1>. QED
  BY <1>6, <1>8, <1>10, <1>12, <1>13 DEF Inv

\* The threads meet, before and after the leader.
LEMMA BarrierInv ==
    ASSUME Inv, Barrier1 \/ Barrier2
    PROVE  Inv'
<1>0. /\ TypeOK /\ UNCHANGED <<engine, cp, mask, cand, round, outcome, changed, todo, scan, returned>>
  BY DEF Inv, Barrier1, Barrier2
<1>1. TypeOK'
  BY <1>0 DEF Barrier1, Barrier2, TypeOK
<1>2. Present' = Present /\ Phases'
  <2>1. CASE Barrier1
    <3>1. \A w \in Worker : pc[w] = "b1"
      BY <2>1 DEF Barrier1
    <3>2. /\ pc' = [w \in Worker |-> IF w = Leader THEN "lead" ELSE "b2"]
      BY <2>1 DEF Barrier1
    <3>3. Computing /\ cand = {} /\ ~returned /\ \A w \in Worker : todo[w] = {}
      BY <3>1, LeaderIsWorker DEF Inv, Phases, Computing, Leading, Between, Leaving
    <3>4. Leading'
      BY <1>0, <3>2, <3>3, LeaderIsWorker DEF Leading, Computing
    <3>5. Present = Worker /\ Present' = Worker
      BY <3>1, <3>2, LeaderIsWorker DEF Present
    <3>6. \A w \in Worker : pc'[w] \notin {"b1", "compute"}
      BY <3>2
    <3>. QED
      BY <1>0, <3>3, <3>4, <3>5, <3>6 DEF Phases
  <2>2. CASE Barrier2
    <3>1. \A w \in Worker : pc[w] = "b2"
      BY <2>2 DEF Barrier2
    <3>2. pc' = [w \in Worker |-> "woken"]
      BY <2>2 DEF Barrier2
    <3>3. ~returned /\ \A w \in Worker : todo[w] = {}
      BY <3>1, LeaderIsWorker DEF Inv, Phases
    <3>4. (Computing \/ Leaving)'
      BY <1>0, <3>2 DEF Computing, Leaving
    <3>5. Present = {} /\ Present' = {}
      BY <3>1, <3>2, LeaderIsWorker DEF Present
    <3>. QED
      BY <1>0, <3>2, <3>3, <3>4, <3>5 DEF Phases
  <2>. QED
    BY <2>1, <2>2
<1>3. Moved' = Moved /\ Framed
  BY <1>0, <1>2 DEF Moved, Framed
<1>4. \A w \in Worker : pc'[w] \notin {"compute", "b1"}
  BY DEF Barrier1, Barrier2
<1>5. Claims'
  BY <1>0, <1>3, <1>4 DEF Inv, Claims, OneWriter
<1>6. Scans'
  BY <1>0, <1>3, ScannedKept DEF Inv, Scans, TypeOK
<1>7. Covered' /\ Converged'
  <2>1. \A s \in State : (Consistent(s)' <=> Consistent(s)) /\ (Waiting(s)' <=> Waiting(s))
    BY <1>0, AllConsistentKept DEF Waiting, EvalMask
  <2>. QED
    BY <1>0, <1>3, <2>1 DEF Inv, Covered, Converged, Updates
<1>. QED
  BY <1>1, <1>2, <1>5, <1>6, <1>7 DEF Inv

\* A thread begins a round with an empty list, or leaves.
LEMMA WakeInv ==
    ASSUME Inv, NEW w \in Worker, Wake(w)
    PROVE  Inv'
<1>0. /\ TypeOK /\ pc[w] = "woken"
      /\ UNCHANGED <<engine, cp, mask, cand, round, outcome, todo, scan, returned>>
  BY DEF Inv, Wake
<1>1. TypeOK'
  BY <1>0 DEF Wake, TypeOK
<1>2. todo[w] = {} /\ ~returned /\ (Computing \/ Leaving)
  BY <1>0, LeaderIsWorker DEF Inv, Phases, Computing, Leading, Between, Leaving
<1>3. Phases' /\ Moved' = Moved /\ \A v \in Worker : pc'[v] \in {"compute", "b1"} =>
          changed'[v] = {} \/ (pc[v] \in {"compute", "b1"} /\ changed'[v] = changed[v])
  <2>1. CASE outcome = "running"
    <3>1. /\ pc' = [pc EXCEPT ![w] = "compute"] /\ changed' = [changed EXCEPT ![w] = {}]
      BY <2>1 DEF Wake
    <3>2. pc'[w] = "compute" /\ changed'[w] = {}
          /\ \A v \in Worker \ {w} : pc'[v] = pc[v] /\ changed'[v] = changed[v]
      BY <1>0, <3>1 DEF TypeOK
    <3>3. Computing
      BY <1>2, <2>1 DEF Leaving
    <3>4. Computing'
      BY <1>0, <3>2, <3>3 DEF Computing
    <3>5. Phases'
      BY <1>0, <1>2, <3>2, <3>4 DEF Inv, Phases
    <3>6. Present' = Present \cup {w} /\ w \notin Present /\ Present \subseteq Worker
      <4>1. pc[Leader] # "lead" /\ pc'[Leader] # "lead"
        BY <3>3, <3>4, LeaderIsWorker DEF Computing
      <4>. QED
        BY <1>0, <3>2, <4>1 DEF Present
    <3>7. ASSUME NEW t PROVE t \in Moved' <=> t \in Moved
      <4>1. t \in Moved' <=> \E v \in Present \cup {w} : t \in changed'[v]
        BY <3>6 DEF Moved
      <4>2. t \in Moved <=> \E v \in Present : t \in changed[v]
        BY DEF Moved
      <4>. QED
        BY <3>2, <3>6, <4>1, <4>2
    <3>. QED
      BY <3>2, <3>5, <3>7
  <2>2. CASE outcome # "running"
    <3>1. pc' = [pc EXCEPT ![w] = "exit"] /\ changed' = changed
      BY <2>2 DEF Wake
    <3>2. pc'[w] = "exit" /\ \A v \in Worker \ {w} : pc'[v] = pc[v]
      BY <1>0, <3>1 DEF TypeOK
    <3>3. Leaving
      BY <1>2, <2>2 DEF Computing
    <3>4. Leaving'
      BY <1>0, <3>2, <3>3 DEF Leaving
    <3>5. Phases'
      BY <1>0, <1>2, <3>2, <3>4 DEF Inv, Phases
    <3>6. Present = {} /\ Present' = {}
      BY <3>3, <3>4, LeaderIsWorker DEF Present, Leaving
    <3>7. \A v \in Worker : pc'[v] \notin {"compute", "b1"}
      BY <3>4 DEF Leaving
    <3>. QED
      BY <3>5, <3>6, <3>7 DEF Moved
  <2>. QED
    BY <2>1, <2>2
<1>4. Framed
  BY <1>0, <1>3 DEF Framed
<1>5. Claims'
  BY <1>0, <1>3 DEF Inv, Claims, OneWriter
<1>6. Scans'
  BY <1>0, <1>4, ScannedKept DEF Inv, Scans, TypeOK
<1>7. Covered' /\ Converged'
  <2>1. \A s \in State : (Consistent(s)' <=> Consistent(s)) /\ (Waiting(s)' <=> Waiting(s))
    BY <1>0, AllConsistentKept DEF Waiting, EvalMask
  <2>. QED
    BY <1>0, <1>3, <2>1 DEF Inv, Covered, Converged, Updates
<1>. QED
  BY <1>1, <1>3, <1>5, <1>6, <1>7 DEF Inv

-----------------------------------------------------------------------------
(* Induction: the whole solve.                                             *)

\* What a solve hands back when it converged, from what holds of the array.
LEMMA ReturnIsConsistent ==
    ASSUME Inv, outcome = "converged", NEW s \in State, Updates(s)
    PROVE  /\ WriteBack.val[s] = LeastFused(s)
           /\ WriteBack.act[s] = None <=> WriteBack.val[s] = MaxCost
           /\ WriteBack.act[s] # None => FusedCost(s, WriteBack.act[s]) = WriteBack.val[s]
<1>1. WriteBack.val[s] = LeastFused(s) /\ WriteBack.act[s] = FinalPolicy(s)
  BY DEF WriteBack, Inv, Converged, Consistent
<1>2. cp[s] = Unreached => LeastFused(s) = MaxCost
  BY DEF Inv, Converged, Consistent, Total
<1>3. CASE LeastFused(s) = MaxCost
  BY <1>1, <1>3 DEF FinalPolicy
<1>4. CASE LeastFused(s) # MaxCost
  <2>. DEFINE C == {MaxCost} \cup ({FusedCost(s, a) : a \in Action} \cap Cost)
              A == {a \in Action : FusedCost(s, a) = LeastFused(s)}
  <2>1. C \subseteq Nat /\ C # {} /\ LeastFused(s) = Least(C)
    BY BellmanAssumption DEF Cost, LeastFused
  <2>2. Least(C) \in C
    BY <2>1, LeastIsLeast
  <2>3. A \subseteq Nat /\ A # {}
    BY <1>4, <2>1, <2>2 DEF Action
  <2>4. Least(A) \in A
    BY <2>3, LeastIsLeast
  <2>5. FinalPolicy(s) = Least(A)
    BY <1>2, <1>4 DEF FinalPolicy
  <2>. QED
    BY <1>1, <1>4, <2>4, <2>5, BellmanAssumption
<1>. QED
  BY <1>3, <1>4

SafeInv == Inv /\ ConvergedIsConsistent

LEMMA ReturnInv ==
    ASSUME Inv, Return
    PROVE  SafeInv'
<1>0. /\ \A w \in Worker : pc[w] = "exit"
      /\ returned' = TRUE /\ (outcome # "cancelled" => field' = WriteBack)
      /\ UNCHANGED <<engine, cp, mask, cand, round, outcome, changed, pc, todo, scan>>
  BY DEF Return
<1>1. TypeOK'
  BY <1>0 DEF Inv, TypeOK
<1>2. Leaving'
  BY <1>0, LeaderIsWorker DEF Inv, Phases, Computing, Leading, Between, Leaving
<1>3. Phases'
  BY <1>0, <1>2 DEF Inv, Phases
<1>4. Moved' = Moved /\ Framed
  BY <1>0 DEF Moved, Present, Framed
<1>5. Claims'
  BY <1>0, <1>4 DEF Inv, Claims, OneWriter
<1>6. Scans'
  BY <1>0, <1>4, ScannedKept DEF Inv, Scans, TypeOK
<1>7. Covered' /\ Converged'
  <2>1. \A s \in State : (Consistent(s)' <=> Consistent(s)) /\ (Waiting(s)' <=> Waiting(s))
    BY <1>0, AllConsistentKept DEF Waiting, EvalMask
  <2>. QED
    BY <1>0, <1>4, <2>1 DEF Inv, Covered, Converged, Updates
<1>8. ConvergedIsConsistent'
  <2>1. PICK f : f = field'
    OBVIOUS
  <2>2. ASSUME outcome = "converged", NEW s \in State, Updates(s)
        PROVE  /\ f.val[s] = LeastFused(s)'
               /\ f.act[s] = None <=> f.val[s] = MaxCost
               /\ f.act[s] # None => FusedCost(s, f.act[s])' = f.val[s]
    <3>1. f = WriteBack
      BY <1>0, <2>1, <2>2
    <3>2. /\ f.val[s] = LeastFused(s)
          /\ f.act[s] = None <=> f.val[s] = MaxCost
          /\ f.act[s] # None => FusedCost(s, f.act[s]) = f.val[s]
      BY <2>2, <3>1, ReturnIsConsistent
    <3>3. LeastFused(s)' = LeastFused(s)
      BY <1>0, CostsDependOnInputs
    <3>4. FusedCost(s, f.act[s])' = FusedCost(s, f.act[s])
      BY <1>0 DEF FusedCost, EntryAt
    <3>. QED
      BY <3>2, <3>3, <3>4
  <2>. QED
    BY <1>0, <2>1, <2>2 DEF ConvergedIsConsistent
<1>. QED
  BY <1>1, <1>3, <1>5, <1>6, <1>7, <1>8 DEF Inv, SafeInv

\* At the start every state whose value can change at all is a candidate: the
\* others read nothing that is reached.
LEMMA InvInit == Init => SafeInv
<1>. SUFFICES ASSUME Init PROVE SafeInv
  OBVIOUS
<1>. DEFINE reached == {t \in State : field.val[t] < MaxCost}
<1>0. /\ field.val \in [State -> Cost] /\ cp = Fused(field.val)
      /\ cand = Dilate({s[1] : s \in reached}) /\ round = 0 /\ outcome = "running"
      /\ changed = [w \in Worker |-> {}] /\ pc = [w \in Worker |-> "compute"]
      /\ todo = [w \in Worker |-> {}] /\ scan = [w \in Worker |-> Idle] /\ returned = FALSE
  BY SparseAssumption DEF Init
<1>1. ASSUME NEW s \in State
      PROVE  /\ cp[s] = IF Free[s[1]] /\ field.val[s] # MaxCost THEN field.val[s] + Pen[s[1]]
                        ELSE Unreached
             /\ field.val[s] \in Cost /\ s[1] \in Cell /\ Pen[s[1]] \in Nat
  BY <1>0, SparseAssumption DEF Fused, State
<1>2. TypeOK
  <2>1. cand \subseteq Cell
    BY <1>0 DEF Dilate, Near
  <2>2. cp \in [State -> Nat \cup {Unreached}]
    <3>1. \A s \in State : cp[s] \in Nat \cup {Unreached}
      BY <1>1, BellmanAssumption DEF Cost
    <3>. QED
      BY <1>0, <3>1 DEF Fused
  <2>. QED
    BY <1>0, <2>1, <2>2 DEF TypeOK
<1>3. Computing /\ Phases
  BY <1>0 DEF Computing, Phases
<1>4. Moved = {}
  BY <1>0 DEF Moved, Present
<1>5. Claims /\ Scans
  BY <1>0, <1>4 DEF Claims, OneWriter, Scans
<1>6. Covered
  <2>. SUFFICES ASSUME NEW s \in State, Updates(s) PROVE Consistent(s) \/ Waiting(s)
    BY DEF Covered
  <2>1. CASE s[1] \in cand
    <3>1. s[2] \in EvalMask(s[1])
      BY <1>0 DEF EvalMask, State
    <3>. QED
      BY <2>1, <3>1 DEF Waiting
  <2>2. CASE s[1] \notin cand
    <3>0. ASSUME NEW t \in State, s[1] \in Near(t[1]) PROVE field.val[t] = MaxCost
      <4>1. t \notin reached
        BY <1>0, <2>2, <3>0 DEF Dilate
      <4>. QED
        BY <1>1, <4>1, BellmanAssumption DEF Cost
    <3>1. Total(s) = MaxCost
      <4>1. s[1] \in Near(s[1])
        BY <1>1, BellmanAssumption DEF Near, Cell
      <4>2. cp[s] = Unreached
        BY <1>1, <3>0, <4>1
      <4>. QED
        BY <4>2 DEF Total
    <3>2. ASSUME NEW a \in Action PROVE FusedCost(s, a) = MaxCost
      <4>0. s[2] \in Theta
        BY DEF State
      <4>1. PICK o \in Trans[s[2]][a] : TRUE
        BY <4>0, OutcomeAssumption
      <4>2. EntryAt(s, o) = Unreached
        <5>1. CASE Target(s, o) \notin Cell
          BY <5>1 DEF EntryAt
        <5>2. CASE Target(s, o) \in Cell
          <6>1. At(s, o) \in Reads(s)
            BY DEF Reads, At
          <6>2. At(s, o) \in State
            BY <4>0, <5>2, TransAssumption DEF At, State
          <6>3. field.val[At(s, o)] = MaxCost
            BY <3>0, <6>1, <6>2, ReadsAreNear
          <6>. QED
            BY <1>1, <5>2, <6>2, <6>3 DEF EntryAt
        <5>. QED
          BY <5>1, <5>2
      <4>. QED
        BY <4>2 DEF FusedCost
    <3>3. LeastFused(s) = MaxCost
      <4>1. {MaxCost} \cup ({FusedCost(s, a) : a \in Action} \cap Cost) = {MaxCost}
        BY <3>2
      <4>. QED
        BY <4>1, LeastOfOne DEF LeastFused
    <3>. QED
      BY <3>1, <3>3 DEF Consistent
  <2>. QED
    BY <2>1, <2>2
<1>7. Converged /\ ConvergedIsConsistent
  BY <1>0 DEF Converged, ConvergedIsConsistent
<1>. QED
  BY <1>2, <1>3, <1>5, <1>6, <1>7 DEF Inv, SafeInv

LEMMA InvNext == SafeInv /\ [Next]_vars => SafeInv'
<1>. SUFFICES ASSUME SafeInv, [Next]_vars PROVE SafeInv'
  OBVIOUS
<1>0. Inv
  BY DEF SafeInv
\* Nothing happens after the solve has returned.
<1>1. ASSUME Inv', ~returned, UNCHANGED returned PROVE SafeInv'
  BY <1>1 DEF SafeInv, ConvergedIsConsistent
<1>2. ASSUME NEW w \in Worker, Thread(w) PROVE SafeInv'
  <2>1. Inv'
    BY <1>0, <1>2, ClaimInv, LoadInv, StoreInv, WakeInv DEF Thread
  <2>2. UNCHANGED returned /\ pc[w] \in {"compute", "woken"}
    BY <1>2 DEF Thread, Claim, Load, Store, Wake
  <2>3. ~returned
    BY <1>0, <2>2 DEF Inv, Phases
  <2>. QED
    BY <1>1, <2>1, <2>2, <2>3
<1>3. CASE Barrier1 \/ Barrier2 \/ Lead \/ LeadEngine
  <2>1. Inv'
    BY <1>0, <1>3, BarrierInv, LeadInv
  <2>2. UNCHANGED returned /\ pc[Leader] \in {"b1", "b2", "lead"}
    BY <1>3, LeaderIsWorker DEF Barrier1, Barrier2, Lead, LeadEngine, Decide
  <2>3. ~returned
    BY <1>0, <2>2, LeaderIsWorker DEF Inv, Phases
  <2>. QED
    BY <1>1, <2>1, <2>2, <2>3
<1>4. CASE Return
  BY <1>0, <1>4, ReturnInv
<1>5. CASE UNCHANGED vars
  <2>0. UNCHANGED <<engine, field, cp, mask, cand, round, outcome, changed, pc, todo, scan, returned>>
    BY <1>5 DEF vars
  <2>1. Moved' = Moved /\ Framed
    BY <2>0 DEF Moved, Present, Framed
  <2>2. TypeOK' /\ Phases' /\ Claims'
    BY <1>0, <2>0, <2>1 DEF Inv, TypeOK, Phases, Computing, Leading, Between, Leaving, Claims, OneWriter
  <2>3. Scans'
    BY <1>0, <2>0, <2>1, ScannedKept DEF Inv, Scans, TypeOK
  <2>4. \A s \in State : (Consistent(s)' <=> Consistent(s)) /\ (Waiting(s)' <=> Waiting(s))
    BY <2>0, AllConsistentKept DEF Waiting, EvalMask
  <2>5. Covered' /\ Converged'
    BY <1>0, <2>0, <2>1, <2>4 DEF Inv, Covered, Converged, Updates
  <2>6. \A s \in State : \A a : LeastFused(s)' = LeastFused(s) /\ FusedCost(s, a)' = FusedCost(s, a)
    BY <2>0 DEF LeastFused, FusedCost, EntryAt
  <2>7. ConvergedIsConsistent'
    BY <2>0, <2>6 DEF SafeInv, ConvergedIsConsistent, Updates
  <2>. QED
    BY <2>2, <2>3, <2>5, <2>7 DEF Inv, SafeInv
<1>. QED
  BY <1>2, <1>3, <1>4, <1>5 DEF Next

LEMMA Invariance == Spec => []SafeInv
  BY InvInit, InvNext, PTL DEF Spec

\* frontier2d_sparse.rs, "the cells of a claimed block have a single writer".
THEOREM WriterSafety == Spec => []OneWriter
<1>1. SafeInv => OneWriter
  BY DEF SafeInv, Inv, Claims
<1>. QED
  BY Invariance, <1>1, PTL

\* frontier2d_sparse.rs, "a state whose inputs moved is a candidate of the next
\* round": the masks and the window of the frontier cover every dependence.
THEOREM FrontierSafety == Spec => []NothingForgotten
<1>1. SafeInv => NothingForgotten
  <2>. SUFFICES ASSUME SafeInv, pc[Leader] = "b2", outcome = "running",
                       NEW s \in State, Updates(s), Total(s) # LeastFused(s)
                PROVE  s[1] \in cand /\ s[2] \in EvalMask(s[1])
    BY DEF NothingForgotten
  <2>1. Between
    BY LeaderIsWorker DEF SafeInv, Inv, Phases, Computing, Leading, Leaving
  <2>2. Moved = {} /\ \A w \in Worker : todo[w] = {}
    BY <2>1, LeaderIsWorker DEF SafeInv, Inv, Phases, Between, Moved, Present
  <2>3. Waiting(s)
    BY <2>2 DEF SafeInv, Inv, Covered, Consistent
  <2>. QED
    BY <2>2, <2>3 DEF Waiting
<1>. QED
  BY Invariance, <1>1, PTL

\* frontier2d_sparse.rs:18, "at the end every (cell, heading) is consistent with
\* the Bellman update at the present values".
THEOREM ConvergenceSafety == Spec => []ConvergedIsConsistent
<1>1. SafeInv => ConvergedIsConsistent
  BY DEF SafeInv
<1>. QED
  BY Invariance, <1>1, PTL

-----------------------------------------------------------------------------
(* A solve from a fresh field that is stopped early.  Its values only fall *)
(* and each of them is what some action costs at present or more, provided *)
(* that no sum of costs leaves a word: limit is the largest entry such a   *)
(* sum has room for, and Fits says that the entries stay below it.         *)

Fits(limit) == \A s \in State : cp[s] # Unreached => cp[s] <= limit

\* Every outcome of the action is reached.
Open(s, a) == \A o \in Trans[s[2]][a] : EntryAt(s, o) # Unreached

\* A value that some action warrants.
Attained(s, x) == x = MaxCost \/ \E a \in Action : Open(s, a) /\ FusedCost(s, a) <= x

\* A reached entry is a value below MaxCost of a free cell, plus the penalty.
Entries ==
    \A s \in State : cp[s] # Unreached =>
        /\ cp[s] \in Nat /\ Free[s[1]]
        /\ cp[s] - Pen[s[1]] \in Nat /\ cp[s] - Pen[s[1]] < MaxCost

Warranted ==
    /\ \A s \in State : Updates(s) => Attained(s, Total(s))
    /\ \A w \in Worker : \A s \in todo[w] : Updates(s)

\* What action b will cost the evaluation sc if nothing moves any more: what it
\* has read already, and the present entries.
Expected(sc, b) ==
    [o \in Trans[sc.s[2]][b] |->
        IF b = sc.a /\ o \in DOMAIN sc.got THEN sc.got[o] ELSE EntryAt(sc.s, o)]

\* What has been read is a reached entry, and no lower than it is now.
ReadsAreOld(sc, limit) ==
    \A o \in DOMAIN sc.got :
        /\ sc.a \in Action /\ o \in Trans[sc.s[2]][sc.a]
        /\ sc.got[o] \in Nat /\ sc.got[o] <= limit
        /\ EntryAt(sc.s, o) # Unreached /\ EntryAt(sc.s, o) <= sc.got[o]

\* The evaluation will not end above the present value.
WillNotRise(sc) ==
    \/ sc.best <= Total(sc.s)
    \/ \E b \in Action : b >= sc.a /\ Open(sc.s, b) /\ WeightedSum(Expected(sc, b)) <= Total(sc.s)

Falling(sc, limit) ==
    Attained(sc.s, sc.best) /\ ReadsAreOld(sc, limit) /\ WillNotRise(sc)

Descent(limit) ==
    Fresh => /\ Entries /\ Warranted
             /\ \A w \in Worker : todo[w] # {} => Falling(scan[w], limit)

\* What is at rest in the array is a value: Total of it is a cost.
LEMMA TotalIsCost ==
    ASSUME Entries, NEW s \in State
    PROVE  Total(s) \in Nat /\ Total(s) <= MaxCost
  BY BellmanAssumption DEF Entries, Total

\* The entries of an open action.
LEMMA OpenEntries ==
    ASSUME Entries, NEW limit, Roomy(limit), Fits(limit), NEW s \in State, NEW a \in Action
    PROVE  \A o \in Trans[s[2]][a] : EntryAt(s, o) # Unreached =>
               EntryAt(s, o) \in Nat /\ EntryAt(s, o) <= limit
<1>. SUFFICES ASSUME NEW o \in Trans[s[2]][a], EntryAt(s, o) # Unreached
              PROVE  EntryAt(s, o) \in Nat /\ EntryAt(s, o) <= limit
  OBVIOUS
<1>1. Target(s, o) \in Cell /\ EntryAt(s, o) = cp[At(s, o)]
  BY DEF EntryAt
<1>2. At(s, o) \in State
  BY <1>1, TransAssumption DEF At, State
<1>. QED
  BY <1>1, <1>2 DEF Entries, Fits

\* The values fell, or stayed as they were.
Lowered ==
    \A t \in State : cp[t] # Unreached => cp'[t] # Unreached /\ cp'[t] <= cp[t]

\* What is read of an outcome falls with the array.
LEMMA EntriesLowered ==
    ASSUME Lowered, NEW s \in State, NEW a \in Action, NEW o \in Trans[s[2]][a],
           EntryAt(s, o) # Unreached
    PROVE  EntryAt(s, o)' # Unreached /\ EntryAt(s, o)' <= EntryAt(s, o)
<1>1. Target(s, o) \in Cell /\ EntryAt(s, o) = cp[At(s, o)] /\ EntryAt(s, o)' = cp'[At(s, o)]
  BY DEF EntryAt
<1>2. At(s, o) \in State
  BY <1>1, TransAssumption DEF At, State
<1>. QED
  BY <1>1, <1>2 DEF Lowered

LEMMA WeightedIsWeighed == \A h : WeightedSum(h) = Weighed(h)
  BY DEF WeightedSum, Weighed

\* So does what an action costs, and a value that was warranted still is.
LEMMA AttainedKept ==
    ASSUME NEW limit, Roomy(limit), Entries, Fits(limit), Entries', Fits(limit)', Lowered,
           NEW s \in State, NEW x \in Nat, Attained(s, x)
    PROVE  Attained(s, x)'
<1>1. CASE x = MaxCost
  BY <1>1 DEF Attained
<1>2. ASSUME NEW a \in Action, Open(s, a), FusedCost(s, a) <= x
      PROVE  Attained(s, x)'
  <2>. DEFINE T == Trans[s[2]][a]
              F == [o \in T |-> EntryAt(s, o)]
              G == [o \in T |-> EntryAt(s, o)']
  <2>1. s[2] \in Theta
    BY DEF State
  <2>2. ASSUME NEW o \in T
        PROVE  /\ EntryAt(s, o) # Unreached /\ EntryAt(s, o)' # Unreached
               /\ EntryAt(s, o) \in Nat /\ EntryAt(s, o) <= limit
               /\ EntryAt(s, o)' \in Nat /\ EntryAt(s, o)' <= EntryAt(s, o)
    <3>1. EntryAt(s, o) # Unreached
      BY <1>2 DEF Open
    <3>2. EntryAt(s, o)' # Unreached /\ EntryAt(s, o)' <= EntryAt(s, o)
      BY <3>1, EntriesLowered
    <3>3. EntryAt(s, o) \in Nat /\ EntryAt(s, o) <= limit
      BY <3>1, OpenEntries
    <3>4. Target(s, o) \in Cell /\ EntryAt(s, o)' = cp'[At(s, o)]
      BY <3>1 DEF EntryAt
    <3>5. At(s, o) \in State
      BY <2>1, <3>4, TransAssumption DEF At, State
    <3>6. EntryAt(s, o)' \in Nat
      BY <3>2, <3>4, <3>5 DEF Entries
    <3>. QED
      BY <3>1, <3>2, <3>3, <3>6
  <2>3. Open(s, a)'
    BY <2>2 DEF Open
  <2>4. FusedCost(s, a) = Weighed(F) /\ FusedCost(s, a)' = Weighed(G)
    <3>1. FusedCost(s, a) = WeightedSum(F)
      BY <2>2 DEF FusedCost
    <3>2. FusedCost(s, a)' = WeightedSum(G)
      BY <2>2 DEF FusedCost, WeightedSum
    <3>. QED
      BY <3>1, <3>2, WeightedIsWeighed
  <2>5. DOMAIN F = T /\ DOMAIN G = T
        /\ \A o \in T : G[o] \in Nat /\ F[o] \in Nat /\ G[o] <= F[o] /\ F[o] <= limit
    BY <2>2
  <2>. HIDE DEF F, G
  <2>6. Weighed(G) \in Nat /\ Weighed(F) \in Nat /\ Weighed(G) <= Weighed(F)
    BY <2>1, <2>5, WeighedIsMonotone
  <2>7. FusedCost(s, a)' <= x
    BY <1>2, <2>4, <2>6
  <2>. QED
    BY <2>3, <2>7 DEF Attained
<1>. QED
  BY <1>1, <1>2 DEF Attained

\* An evaluation that another thread's store does not touch is still on its way
\* down: what it has not read yet only fell.
LEMMA FallingKept ==
    ASSUME NEW limit, Roomy(limit), Entries, Fits(limit), Entries', Fits(limit)', Lowered,
           NEW sc, sc.s \in State, sc.best \in Nat, Falling(sc, limit),
           Total(sc.s)' = Total(sc.s)
    PROVE  /\ Attained(sc.s, sc.best)'
           /\ \A o \in DOMAIN sc.got :
                 /\ sc.a \in Action /\ o \in Trans[sc.s[2]][sc.a]
                 /\ sc.got[o] \in Nat /\ sc.got[o] <= limit
                 /\ EntryAt(sc.s, o)' # Unreached /\ EntryAt(sc.s, o)' <= sc.got[o]
           /\ \/ sc.best <= Total(sc.s)'
              \/ \E b \in Action : /\ b >= sc.a /\ Open(sc.s, b)'
                                   /\ WeightedSum(Expected(sc, b)') <= Total(sc.s)'
<1>. DEFINE s == sc.s
<1>0. s \in State /\ s[2] \in Theta
  BY DEF State
<1>1. Attained(sc.s, sc.best)'
  BY AttainedKept DEF Falling
<1>2. ASSUME NEW b \in Action, NEW o \in Trans[s[2]][b], EntryAt(s, o) # Unreached
      PROVE  /\ EntryAt(s, o) \in Nat /\ EntryAt(s, o) <= limit
             /\ EntryAt(s, o)' \in Nat /\ EntryAt(s, o)' # Unreached
             /\ EntryAt(s, o)' <= EntryAt(s, o)
  <2>1. EntryAt(s, o)' # Unreached /\ EntryAt(s, o)' <= EntryAt(s, o)
    BY <1>0, <1>2, EntriesLowered
  <2>2. EntryAt(s, o) \in Nat /\ EntryAt(s, o) <= limit
    BY <1>0, <1>2, OpenEntries
  <2>3. Target(s, o) \in Cell /\ EntryAt(s, o)' = cp'[At(s, o)]
    BY <1>2 DEF EntryAt
  <2>4. At(s, o) \in State
    BY <1>0, <2>3, TransAssumption DEF At, State
  <2>5. EntryAt(s, o)' \in Nat
    BY <2>1, <2>3, <2>4 DEF Entries
  <2>. QED
    BY <2>1, <2>2, <2>5
<1>3. ASSUME NEW o \in DOMAIN sc.got
      PROVE  /\ sc.a \in Action /\ o \in Trans[sc.s[2]][sc.a]
             /\ sc.got[o] \in Nat /\ sc.got[o] <= limit
             /\ EntryAt(sc.s, o) # Unreached
             /\ EntryAt(sc.s, o)' # Unreached /\ EntryAt(sc.s, o)' <= sc.got[o]
  <2>1. /\ sc.a \in Action /\ o \in Trans[s[2]][sc.a] /\ sc.got[o] \in Nat /\ sc.got[o] <= limit
        /\ EntryAt(s, o) # Unreached /\ EntryAt(s, o) <= sc.got[o]
    BY <1>3 DEF Falling, ReadsAreOld
  <2>2. /\ EntryAt(s, o) \in Nat /\ EntryAt(s, o)' \in Nat /\ EntryAt(s, o)' # Unreached
        /\ EntryAt(s, o)' <= EntryAt(s, o)
    BY <1>2, <2>1
  <2>. HIDE DEF s
  <2>3. EntryAt(s, o)' <= sc.got[o]
    BY <2>1, <2>2
  <2>. QED
    BY <2>1, <2>2, <2>3 DEF s
<1>4. ASSUME NEW b \in Action, b >= sc.a, Open(s, b), WeightedSum(Expected(sc, b)) <= Total(s)
      PROVE  Open(s, b)' /\ WeightedSum(Expected(sc, b)') <= Total(s)
  <2>. DEFINE T == Trans[s[2]][b]
              F == Expected(sc, b)
              G == Expected(sc, b)'
  <2>1. Open(s, b)'
    BY <1>2, <1>4 DEF Open
  <2>2. DOMAIN F = T /\ DOMAIN G = T
    BY DEF Expected
  <2>3. ASSUME NEW o \in T
        PROVE  G[o] \in Nat /\ F[o] \in Nat /\ G[o] <= F[o] /\ F[o] <= limit
    <3>1. CASE b = sc.a /\ o \in DOMAIN sc.got
      <4>1. F[o] = sc.got[o] /\ G[o] = sc.got[o]
        BY <3>1 DEF Expected
      <4>2. sc.got[o] \in Nat /\ sc.got[o] <= limit
        BY <3>1, <1>3
      <4>. QED
        BY <4>1, <4>2
    <3>2. CASE ~(b = sc.a /\ o \in DOMAIN sc.got)
      <4>1. F[o] = EntryAt(s, o) /\ G[o] = EntryAt(s, o)'
        BY <3>2 DEF Expected
      <4>2. EntryAt(s, o) # Unreached
        BY <1>4 DEF Open
      <4>. QED
        BY <1>2, <4>1, <4>2
    <3>. QED
      BY <3>1, <3>2
  <2>4. WeightedSum(F) = Weighed(F) /\ WeightedSum(G) = Weighed(G)
    BY WeightedIsWeighed
  <2>. HIDE DEF F, G, T
  <2>5. Weighed(G) \in Nat /\ Weighed(F) \in Nat /\ Weighed(G) <= Weighed(F)
    BY <1>0, <2>2, <2>3, WeighedIsMonotone DEF T
  <2>6. Total(s) \in Nat /\ WeightedSum(F) <= Total(s)
    BY <1>0, <1>4, TotalIsCost DEF F
  <2>7. WeightedSum(G) <= Total(s)
    BY <2>4, <2>5, <2>6
  <2>. QED
    BY <2>1, <2>7 DEF G
<1>5. \/ sc.best <= Total(s)
      \/ \E b \in Action : b >= sc.a /\ Open(s, b) /\ WeightedSum(Expected(sc, b)) <= Total(s)
  BY DEF Falling, WillNotRise
<1>. QED
  BY <1>1, <1>3, <1>4, <1>5

\* The same for the evaluation of a thread.
LEMMA WorkerFalls ==
    ASSUME NEW limit, Roomy(limit), Entries, Fits(limit), Entries', Fits(limit)', Lowered,
           NEW w \in Worker, NEW sc, scan[w] = sc, scan'[w] = sc, sc.s \in State,
           sc.best \in Nat, Falling(sc, limit), Total(sc.s)' = Total(sc.s)
    PROVE  Falling(scan[w], limit)'
<1>1. /\ Attained(sc.s, sc.best)'
      /\ \A o \in DOMAIN sc.got :
            /\ sc.a \in Action /\ o \in Trans[sc.s[2]][sc.a]
            /\ sc.got[o] \in Nat /\ sc.got[o] <= limit
            /\ EntryAt(sc.s, o)' # Unreached /\ EntryAt(sc.s, o)' <= sc.got[o]
      /\ \/ sc.best <= Total(sc.s)'
         \/ \E b \in Action : /\ b >= sc.a /\ Open(sc.s, b)'
                              /\ WeightedSum(Expected(sc, b)') <= Total(sc.s)'
  BY FallingKept
<1>2. Attained(scan[w].s, scan[w].best)'
  BY <1>1 DEF Attained, Open, FusedCost, EntryAt
<1>3. ReadsAreOld(scan[w], limit)'
  BY <1>1 DEF ReadsAreOld, EntryAt
<1>4. WillNotRise(scan[w])'
  <2>1. Total(scan[w].s)' = Total(sc.s)'
    BY DEF Total
  <2>2. CASE sc.best <= Total(sc.s)'
    BY <2>1, <2>2 DEF WillNotRise
  <2>3. ASSUME NEW b \in Action, b >= sc.a, Open(sc.s, b)',
               WeightedSum(Expected(sc, b)') <= Total(sc.s)'
        PROVE  WillNotRise(scan[w])'
    <3>1. Open(scan[w].s, b)'
      BY <2>3 DEF Open, EntryAt
    <3>2. Expected(scan[w], b)' = Expected(sc, b)'
      BY DEF Expected, EntryAt
    <3>3. WeightedSum(Expected(scan[w], b))' = WeightedSum(Expected(sc, b)')
      BY <3>2 DEF WeightedSum
    <3>. QED
      BY <2>1, <2>3, <3>1, <3>3 DEF WillNotRise
  <2>. QED
    BY <1>1, <2>2, <2>3
<1>. QED
  BY <1>2, <1>3, <1>4 DEF Falling

\* A new reading of the same array.
LEMMA NewScanFalls ==
    ASSUME NEW limit, NEW w \in Worker, NEW sc, scan'[w] = sc, cp' = cp, Falling(sc, limit)
    PROVE  Falling(scan[w], limit)'
<1>1. Attained(scan[w].s, scan[w].best)'
  BY DEF Falling, Attained, Open, FusedCost, EntryAt
<1>2. ReadsAreOld(scan[w], limit)'
  BY DEF Falling, ReadsAreOld, EntryAt
<1>3. WillNotRise(scan[w])'
  BY DEF Falling, WillNotRise, Open, Expected, EntryAt, Total, WeightedSum
<1>. QED
  BY <1>1, <1>2, <1>3 DEF Falling

\* An evaluation begins below the present value: the action that warrants it is
\* still to be read.
LEMMA BeginFalls ==
    ASSUME NEW limit, NEW w \in Worker, Entries', Warranted', todo'[w] \subseteq State,
           todo'[w] # {}, scan'[w] = Evaluate(todo'[w])
    PROVE  Falling(scan[w], limit)'
<1>1. PICK s \in todo'[w] : scan'[w] = Begin(s, 1, MaxCost)
  BY EarliestIsIn DEF Evaluate
<1>2. /\ scan'[w].s = s /\ scan'[w].a = 1 /\ scan'[w].best = MaxCost
      /\ DOMAIN scan'[w].got = {} /\ s \in State
  BY <1>1 DEF Begin
<1>3. Total(s)' = MaxCost \/ \E b \in Action : Open(s, b)' /\ FusedCost(s, b)' <= Total(s)'
  <2>1. Updates(s)
    BY DEF Warranted, Updates
  <2>. QED
    BY <1>2, <2>1 DEF Warranted, Updates, Attained
<1>4. Attained(scan[w].s, scan[w].best)'
  BY <1>2 DEF Attained
<1>5. ReadsAreOld(scan[w], limit)'
  BY <1>2 DEF ReadsAreOld
<1>6. WillNotRise(scan[w])'
  <2>1. CASE Total(s)' = MaxCost
    <3>1. Total(scan[w].s)' = MaxCost
      BY <1>2, <2>1 DEF Total
    <3>. QED
      BY <1>2, <3>1, BellmanAssumption DEF WillNotRise
  <2>2. ASSUME NEW b \in Action, Open(s, b)', FusedCost(s, b)' <= Total(s)'
        PROVE  WillNotRise(scan[w])'
    <3>1. b >= 1
      BY DEF Action
    <3>. DEFINE F == [o \in Trans[s[2]][b] |-> EntryAt(s, o)']
    <3>2. FusedCost(s, b)' = WeightedSum(F)
      BY <2>2 DEF FusedCost, Open, WeightedSum
    <3>3. Expected(scan[w], b)' = F
      BY <1>2 DEF Expected, EntryAt
    <3>4. Open(scan[w].s, b)'
      BY <1>2, <2>2 DEF Open, EntryAt
    <3>5. Total(scan[w].s)' = Total(s)'
      BY <1>2 DEF Total
    <3>. HIDE DEF F
    <3>6. WeightedSum(Expected(scan[w], b))' = WeightedSum(F)
      BY <3>3 DEF WeightedSum
    <3>. QED
      BY <1>2, <2>2, <3>1, <3>2, <3>4, <3>5, <3>6 DEF WillNotRise
  <2>. QED
    BY <1>3, <2>1, <2>2
<1>. QED
  BY <1>4, <1>5, <1>6 DEF Falling

LEMMA LowerIsLower ==
    ASSUME NEW best \in Cost, NEW cost
    PROVE  /\ Lower(best, cost) \in {best} \cup ({cost} \cap Cost) /\ Lower(best, cost) <= best
           /\ cost \in Cost => Lower(best, cost) <= cost
<1>. DEFINE D == {best} \cup ({cost} \cap Cost)
<1>1. D \subseteq Nat /\ D # {} /\ best \in D
  BY BellmanAssumption DEF Cost
<1>2. cost \in Cost => cost \in D
  OBVIOUS
<1>. HIDE DEF D
<1>3. Least(D) \in D /\ \A y \in D : Least(D) <= y
  BY <1>1, LeastIsLeast
<1>4. Lower(best, cost) = Least(D)
  BY DEF Lower, D
<1>. QED
  BY <1>1, <1>2, <1>3, <1>4 DEF D

\* Nothing was stored: the array is as warranted as it was.
LEMMA SameArray ==
    ASSUME cp' = cp, Entries
    PROVE  /\ Entries' /\ Lowered
           /\ \A s \in State : Total(s)' = Total(s)
           /\ \A s \in State : \A x : Attained(s, x) => Attained(s, x)'
<1>1. Entries' /\ \A s \in State : Total(s)' = Total(s)
  BY DEF Entries, Total
<1>2. Lowered
  <2>. SUFFICES ASSUME NEW t \in State, cp[t] # Unreached PROVE cp[t] <= cp[t]
    BY DEF Lowered
  <2>. QED
    BY DEF Entries
<1>3. ASSUME NEW s \in State, NEW x, Attained(s, x) PROVE Attained(s, x)'
  BY <1>3 DEF Attained, Open, FusedCost, EntryAt
<1>. QED
  BY <1>1, <1>2, <1>3

\* A load.
LEMMA LoadFalls ==
    ASSUME NEW limit, Roomy(limit), Inv, Entries, Fits(limit), NEW w \in Worker, Load(w),
           Falling(scan[w], limit)
    PROVE  Falling(scan[w], limit)'
<1>0. PICK sc, s, a : sc = scan[w] /\ s = sc.s /\ a = sc.a
  OBVIOUS
<1>. DEFINE outs == Trans[s[2]][a]
            Done(cost) == Begin(s, a + 1, Lower(sc.best, cost))
<1>1. /\ todo[w] # {} /\ a \in Action /\ cp' = cp
  BY <1>0 DEF Load
<1>2. PICK o \in outs \ DOMAIN sc.got : scan' = [scan EXCEPT ![w] = Loaded(sc, o)]
  BY <1>0 DEF Load
<1>. DEFINE v == EntryAt(s, o)
            got == [p \in DOMAIN sc.got \cup {o} |-> IF p = o THEN v ELSE sc.got[p]]
            new == IF v = Unreached THEN Done(MaxCost)
                   ELSE IF DOMAIN got = outs THEN Done(WeightedSum(got))
                   ELSE [s |-> s, a |-> a, got |-> got, best |-> sc.best]
<1>3. scan'[w] = new
  <2>1. Loaded(sc, o) = new
    BY <1>0, Zenon DEF Loaded
  <2>. QED
    BY <1>2, <2>1 DEF Inv, TypeOK
<1>4. s \in State /\ s[2] \in Theta /\ sc.best \in Cost /\ a \in Nat
  BY <1>0, <1>1 DEF Inv, Scans, Scanned, TypeOK, Action, State
<1>5. /\ Total(s) \in Nat /\ Total(s) <= MaxCost /\ sc.best \in Nat /\ sc.best <= MaxCost
      /\ Cost \subseteq Nat /\ \A n \in Nat : n <= MaxCost => n \in Cost
  BY <1>4, TotalIsCost, BellmanAssumption DEF Cost
<1>6. Attained(s, sc.best) /\ ReadsAreOld(sc, limit) /\ WillNotRise(sc)
  BY <1>0 DEF Falling
<1>7. \A b \in Action : \A p \in Trans[s[2]][b] :
          EntryAt(s, p) # Unreached => EntryAt(s, p) \in Nat /\ EntryAt(s, p) <= limit
  BY <1>4, OpenEntries
<1>8. ASSUME v # Unreached, NEW p \in DOMAIN got
      PROVE  /\ p \in outs /\ got[p] \in Nat /\ got[p] <= limit
             /\ EntryAt(s, p) # Unreached /\ EntryAt(s, p) <= got[p]
  <2>1. CASE p = o
    <3>1. got[p] = EntryAt(s, p) /\ p \in outs
      BY <1>2, <2>1
    <3>2. EntryAt(s, p) # Unreached
      BY <1>8, <2>1
    <3>3. EntryAt(s, p) \in Nat /\ EntryAt(s, p) <= limit
      BY <1>1, <1>7, <3>1, <3>2
    <3>. QED
      BY <3>1, <3>2, <3>3
  <2>2. CASE p # o
    <3>1. p \in DOMAIN sc.got /\ got[p] = sc.got[p]
      BY <2>2
    <3>. QED
      BY <1>0, <1>6, <3>1 DEF ReadsAreOld
  <2>. QED
    BY <2>1, <2>2
\* The read was of the present entry: what is expected of the actions stays.
<1>9. ASSUME v # Unreached, NEW b \in Action, NEW nx, nx.s = s, nx.a = a, nx.got = got
      PROVE  Expected(nx, b) = Expected(sc, b)
  <2>1. ASSUME NEW p \in Trans[s[2]][b]
        PROVE  (IF b = a /\ p \in DOMAIN got THEN got[p] ELSE EntryAt(s, p))
                 = (IF b = a /\ p \in DOMAIN sc.got THEN sc.got[p] ELSE EntryAt(s, p))
    BY <1>2
  <2>. HIDE DEF got
  <2>. QED
    BY <1>0, <1>9, <2>1 DEF Expected
\* Its cost is known: the actions after it are not read at all.
<1>10. ASSUME NEW nx, nx.s = s, nx.a = a + 1, DOMAIN nx.got = {}, NEW b \in Action, b # a
       PROVE  Expected(nx, b) = Expected(sc, b)
  BY <1>0, <1>10 DEF Expected
<1>. HIDE DEF got, v, outs
<1>11. ASSUME NEW cost, new = Done(cost), Attained(s, Lower(sc.best, cost)),
              Open(s, a) /\ WeightedSum(Expected(sc, a)) <= Total(s) =>
                  cost \in Cost /\ cost <= Total(s)
       PROVE  Falling(scan[w], limit)'
  <2>0. PICK nx : nx = Done(cost)
    OBVIOUS
  <2>1. scan'[w] = nx
    BY <1>3, <1>11, <2>0
  <2>2. nx.s = s /\ nx.a = a + 1 /\ nx.best = Lower(sc.best, cost) /\ DOMAIN nx.got = {}
    BY <2>0 DEF Begin
  <2>3. /\ nx.best \in Nat /\ nx.best <= sc.best
        /\ cost \in Cost => nx.best <= cost
    <3>1. /\ Lower(sc.best, cost) \in {sc.best} \cup ({cost} \cap Cost)
          /\ Lower(sc.best, cost) <= sc.best
          /\ cost \in Cost => Lower(sc.best, cost) <= cost
      BY <1>4, LowerIsLower
    <3>2. Lower(sc.best, cost) \in Nat
      BY <1>5, <3>1
    <3>. QED
      BY <2>2, <3>1, <3>2
  <2>4. WillNotRise(nx)
    <3>1. CASE sc.best <= Total(s)
      BY <1>5, <2>2, <2>3, <3>1 DEF WillNotRise
    <3>2. ASSUME NEW b \in Action, b >= a, Open(s, b),
                 WeightedSum(Expected(sc, b)) <= Total(s)
          PROVE  WillNotRise(nx)
      <4>1. CASE b = a
        <5>1. cost \in Nat /\ cost <= Total(s) /\ nx.best <= cost
          BY <1>5, <1>11, <2>3, <3>2, <4>1
        <5>2. nx.best <= Total(s)
          BY <1>5, <2>3, <5>1
        <5>. QED
          BY <2>2, <5>2 DEF WillNotRise
      <4>2. CASE b # a
        <5>1. b >= nx.a
          BY <1>4, <2>2, <3>2, <4>2 DEF Action
        <5>2. Expected(nx, b) = Expected(sc, b)
          BY <1>10, <2>2, <4>2
        <5>. QED
          BY <2>2, <3>2, <5>1, <5>2 DEF WillNotRise
      <4>. QED
        BY <4>1, <4>2
    <3>. QED
      BY <1>0, <1>6, <3>1, <3>2 DEF WillNotRise
  <2>5. Falling(nx, limit)
    BY <1>11, <2>2, <2>4 DEF Falling, ReadsAreOld
  <2>. QED
    BY <1>1, <2>1, <2>5, NewScanFalls
<1>12. CASE v = Unreached
  <2>1. new = Done(MaxCost)
    BY <1>12
  <2>2. Lower(sc.best, MaxCost) = sc.best
    <3>1. /\ Lower(sc.best, MaxCost) \in {sc.best} \cup ({MaxCost} \cap Cost)
          /\ Lower(sc.best, MaxCost) <= sc.best
      BY <1>4, LowerIsLower
    <3>. QED
      BY <1>5, <3>1, BellmanAssumption
  <2>3. ~Open(s, a)
    BY <1>2, <1>12 DEF Open, v, outs
  <2>. QED
    BY <1>6, <1>11, <2>1, <2>2, <2>3
<1>13. CASE v # Unreached /\ DOMAIN got = outs
  <2>1. new = Done(WeightedSum(got))
    BY <1>13
  <2>. DEFINE F == [p \in outs |-> EntryAt(s, p)]
  <2>2. \A p \in outs : /\ got[p] \in Nat /\ got[p] <= limit /\ EntryAt(s, p) # Unreached
                        /\ EntryAt(s, p) <= got[p] /\ EntryAt(s, p) \in Nat
    BY <1>1, <1>7, <1>8, <1>13 DEF outs
  <2>3. Open(s, a)
    BY <2>2 DEF Open, outs
  <2>4. FusedCost(s, a) = Weighed(F)
    BY <2>2, WeightedIsWeighed DEF FusedCost, outs
  <2>5. DOMAIN F = outs /\ \A p \in outs : F[p] = EntryAt(s, p)
    OBVIOUS
  <2>. HIDE DEF F
  <2>6. Weighed(F) <= Weighed(got) /\ Weighed(F) \in Nat /\ Weighed(got) \in Nat
    BY <1>1, <1>4, <1>13, <2>2, <2>5, WeighedIsMonotone DEF outs
  <2>7. WeightedSum(got) = Weighed(got)
    BY WeightedIsWeighed
  <2>8. Attained(s, Lower(sc.best, WeightedSum(got)))
    <3>1. Attained(s, WeightedSum(got))
      BY <1>1, <2>3, <2>4, <2>6, <2>7 DEF Attained
    <3>2. Lower(sc.best, WeightedSum(got)) \in {sc.best, WeightedSum(got)}
      BY <1>4, LowerIsLower
    <3>. QED
      BY <1>6, <3>1, <3>2
  <2>9. Expected(sc, a) = got
    <3>1. \A p \in outs : (IF p \in DOMAIN sc.got THEN sc.got[p] ELSE EntryAt(s, p)) = got[p]
      BY <1>2, <1>13 DEF got, v
    <3>2. Expected(sc, a) = [p \in outs |-> IF p \in DOMAIN sc.got THEN sc.got[p] ELSE EntryAt(s, p)]
      BY <1>0 DEF Expected, outs
    <3>3. got = [p \in outs |-> got[p]]
      BY <1>13 DEF got
    <3>. QED
      BY <3>1, <3>2, <3>3
  <2>10. WeightedSum(Expected(sc, a)) <= Total(s) =>
             WeightedSum(got) \in Cost /\ WeightedSum(got) <= Total(s)
    BY <1>5, <2>6, <2>7, <2>9, BellmanAssumption
  <2>. QED
    BY <1>11, <2>1, <2>8, <2>10
<1>14. CASE v # Unreached /\ DOMAIN got # outs
  <2>0. PICK nx : nx = [s |-> s, a |-> a, got |-> got, best |-> sc.best]
    OBVIOUS
  <2>1. scan'[w] = nx
    BY <1>3, <1>14, <2>0
  <2>2. nx.s = s /\ nx.a = a /\ nx.best = sc.best /\ nx.got = got
    BY <2>0
  <2>3. ReadsAreOld(nx, limit)
    BY <1>1, <1>8, <1>14, <2>2 DEF ReadsAreOld, outs
  <2>4. \A b \in Action : Expected(nx, b) = Expected(sc, b)
    BY <1>9, <1>14, <2>2
  <2>5. WillNotRise(nx)
    BY <1>0, <1>6, <2>2, <2>4 DEF WillNotRise
  <2>6. Falling(nx, limit)
    BY <1>6, <2>2, <2>3, <2>5 DEF Falling
  <2>. QED
    BY <1>1, <2>1, <2>6, NewScanFalls
<1>. QED
  BY <1>12, <1>13, <1>14

\* Threads that nothing happened to.
LEMMA OthersFall ==
    ASSUME NEW limit, Roomy(limit), Inv, Entries, Fits(limit), Entries', Fits(limit)', Lowered,
           NEW v \in Worker, todo[v] # {}, scan'[v] = scan[v], Falling(scan[v], limit),
           \A s \in todo[v] : Total(s)' = Total(s)
    PROVE  Falling(scan[v], limit)'
<1>0. PICK sc : sc = scan[v]
  OBVIOUS
<1>1. sc.s \in todo[v] /\ sc.s \in State /\ sc.best \in Nat
  BY <1>0, BellmanAssumption DEF Inv, Scans, Scanned, TypeOK, Cost
<1>2. Total(sc.s)' = Total(sc.s)
  BY <1>1
<1>. QED
  BY <1>0, <1>1, <1>2, WorkerFalls

\* A store, if it changes anything, lowers one value to what some action costs
\* at most.
LEMMA StoreFalls ==
    ASSUME NEW limit, Roomy(limit), Inv, Inv', Entries, Warranted, Fits(limit), Fits(limit)',
           \A v \in Worker : todo[v] # {} => Falling(scan[v], limit),
           NEW w \in Worker, Store(w)
    PROVE  /\ Entries' /\ Warranted'
           /\ \A v \in Worker : todo'[v] # {} => Falling(scan[v], limit)'
<1>0. PICK s, best : s = scan[w].s /\ best = scan[w].best
  OBVIOUS
<1>. DEFINE moved == best # Total(s)
<1>1. /\ todo[w] # {} /\ scan[w].a \notin Action
      /\ cp' = IF moved THEN [cp EXCEPT ![s] = Entry(s, best)] ELSE cp
      /\ todo' = [todo EXCEPT ![w] = @ \ {s}]
      /\ scan' = [scan EXCEPT ![w] = Evaluate(todo'[w])]
  BY <1>0 DEF Store
<1>2. s \in todo[w] /\ s \in State /\ best \in Cost /\ scan[w].a = NumActions + 1
  BY <1>0, <1>1, BellmanAssumption DEF Inv, Scans, Scanned, TypeOK, Action
<1>3. best \in Nat /\ Total(s) \in Nat /\ Total(s) <= MaxCost /\ MaxCost \in Nat
  BY <1>2, TotalIsCost, BellmanAssumption DEF Cost
<1>4. best <= Total(s)
  <2>1. \A b \in Action : ~(b >= scan[w].a)
    BY <1>2, BellmanAssumption DEF Action
  <2>. QED
    BY <1>0, <1>1, <2>1 DEF Falling, WillNotRise
<1>5. Free[s[1]] /\ Updates(s) /\ Pen[s[1]] \in Nat
  BY <1>2, SparseAssumption DEF Warranted, Updates, Evaluated, Map, State
<1>6. ASSUME moved
      PROVE  /\ best < MaxCost /\ cp'[s] = best + Pen[s[1]] /\ cp'[s] # Unreached
             /\ cp[s] # Unreached => cp'[s] <= cp[s]
  <2>1. best < Total(s) /\ best < MaxCost
    BY <1>3, <1>4, <1>6
  <2>2. Entry(s, best) = best + Pen[s[1]]
    BY <1>3, <2>1 DEF Entry, EntryUnsafe, EntryFused
  <2>3. cp'[s] = best + Pen[s[1]]
    BY <1>1, <1>2, <1>6, <2>2 DEF Inv, TypeOK
  <2>4. best + Pen[s[1]] # Unreached
    BY <1>2, SparseAssumption DEF State
  <2>5. ASSUME cp[s] # Unreached PROVE best + Pen[s[1]] <= cp[s]
    <3>1. Total(s) = cp[s] - Pen[s[1]] /\ cp[s] \in Nat
      BY <1>2, <2>5 DEF Total, Entries
    <3>. QED
      BY <1>3, <1>5, <2>1, <3>1
  <2>. QED
    BY <2>1, <2>3, <2>4, <2>5
<1>7. \A t \in State : (t # s \/ ~moved) => cp'[t] = cp[t]
  BY <1>1, <1>2 DEF Inv, TypeOK
<1>. HIDE DEF moved
<1>8. Entries'
  <2>. SUFFICES ASSUME NEW t \in State, cp'[t] # Unreached
                PROVE  /\ cp'[t] \in Nat /\ Free[t[1]]
                       /\ cp'[t] - Pen[t[1]] \in Nat /\ cp'[t] - Pen[t[1]] < MaxCost
    BY DEF Entries
  <2>1. CASE t = s /\ moved
    BY <1>3, <1>5, <1>6, <2>1
  <2>2. CASE ~(t = s /\ moved)
    BY <1>7, <2>2 DEF Entries
  <2>. QED
    BY <2>1, <2>2
<1>9. Lowered
  <2>. SUFFICES ASSUME NEW t \in State, cp[t] # Unreached
                PROVE  cp'[t] # Unreached /\ cp'[t] <= cp[t]
    BY DEF Lowered
  <2>1. CASE t = s /\ moved
    BY <1>6, <2>1
  <2>2. CASE ~(t = s /\ moved)
    BY <1>7, <2>2 DEF Entries
  <2>. QED
    BY <2>1, <2>2
<1>10. Total(s)' = best
  <2>1. CASE moved
    <3>1. Total(s)' = cp'[s] - Pen[s[1]]
      BY <1>6, <2>1 DEF Total
    <3>. QED
      BY <1>3, <1>5, <1>6, <2>1, <3>1
  <2>2. CASE ~moved
    BY <1>2, <1>7, <2>2 DEF Total, moved
  <2>. QED
    BY <2>1, <2>2
<1>11. \A t \in State : t # s => Total(t)' = Total(t)
  BY <1>7 DEF Total
<1>12. /\ todo'[w] = todo[w] \ {s} /\ \A v \in Worker \ {w} : todo'[v] = todo[v]
       /\ scan'[w] = Evaluate(todo'[w]) /\ \A v \in Worker \ {w} : scan'[v] = scan[v]
  BY <1>1 DEF Inv, TypeOK
<1>13. Warranted'
  <2>1. ASSUME NEW t \in State, Updates(t)
        PROVE  Total(t)' = MaxCost
               \/ \E a \in Action : Open(t, a)' /\ FusedCost(t, a)' <= Total(t)'
    <3>0. PICK x : x = Total(t)'
      OBVIOUS
    <3>1. x \in Nat /\ Attained(t, x)
      <4>1. CASE t = s
        BY <1>0, <1>1, <1>3, <1>10, <3>0, <4>1 DEF Falling
      <4>2. CASE t # s
        BY <1>11, <2>1, <3>0, <4>2, TotalIsCost DEF Warranted
      <4>. QED
        BY <4>1, <4>2
    <3>2. Attained(t, x)'
      BY <1>8, <1>9, <3>1, AttainedKept
    <3>. QED
      BY <3>0, <3>2 DEF Attained
  <2>2. \A v \in Worker : todo'[v] \subseteq todo[v]
    BY <1>12
  <2>3. \A t \in State : Updates(t) => Attained(t, Total(t))'
    BY <2>1 DEF Attained
  <2>. QED
    BY <2>2, <2>3 DEF Warranted, Updates
<1>14. ASSUME NEW v \in Worker, todo'[v] # {} PROVE Falling(scan[v], limit)'
  <2>1. CASE v = w
    <3>1. todo'[w] \subseteq State
      BY DEF Inv, TypeOK
    <3>. QED
      BY <1>8, <1>12, <1>13, <1>14, <2>1, <3>1, BeginFalls
  <2>2. CASE v # w
    <3>1. todo'[v] = todo[v] /\ scan'[v] = scan[v] /\ todo[v] \subseteq State
      BY <1>12, <2>2 DEF Inv, TypeOK
    <3>2. s \notin todo[v]
      BY <1>2, <2>2 DEF Inv, Claims, OneWriter
    <3>3. \A t \in todo[v] : Total(t)' = Total(t)
      BY <1>11, <3>1, <3>2
    <3>. QED
      BY <1>8, <1>9, <1>14, <3>1, <3>3, OthersFall
  <2>. QED
    BY <2>1, <2>2
<1>. QED
  BY <1>8, <1>13, <1>14

LEMMA DescentInit ==
    ASSUME Init, NEW limit PROVE Descent(limit)
<1>. SUFFICES ASSUME Fresh
              PROVE  /\ Entries /\ Warranted
                     /\ \A w \in Worker : todo[w] # {} => Falling(scan[w], limit)
  BY DEF Descent
<1>0. /\ start.val \in [State -> Cost] /\ cp = Fused(start.val)
      /\ todo = [w \in Worker |-> {}]
  BY SparseAssumption DEF Init
<1>1. ASSUME NEW s \in State
      PROVE  /\ cp[s] = IF Free[s[1]] /\ start.val[s] # MaxCost THEN start.val[s] + Pen[s[1]]
                        ELSE Unreached
             /\ start.val[s] \in Cost /\ Pen[s[1]] \in Nat
  BY <1>0, SparseAssumption DEF Fused, State
<1>2. Entries
  <2>. SUFFICES ASSUME NEW s \in State, cp[s] # Unreached
                PROVE  /\ cp[s] \in Nat /\ Free[s[1]]
                       /\ cp[s] - Pen[s[1]] \in Nat /\ cp[s] - Pen[s[1]] < MaxCost
    BY DEF Entries
  <2>1. Free[s[1]] /\ start.val[s] # MaxCost /\ cp[s] = start.val[s] + Pen[s[1]]
    BY <1>1
  <2>2. start.val[s] \in Nat /\ start.val[s] < MaxCost /\ Pen[s[1]] \in Nat
    BY <1>1, <2>1, BellmanAssumption DEF Cost
  <2>. QED
    BY <2>1, <2>2
<1>3. Warranted
  <2>1. ASSUME NEW s \in State, Updates(s) PROVE Attained(s, Total(s))
    <3>1. cp[s] = Unreached
      BY <1>1, <2>1 DEF Fresh
    <3>. QED
      BY <3>1 DEF Attained, Total
  <2>. QED
    BY <1>0, <2>1 DEF Warranted
<1>. QED
  BY <1>0, <1>2, <1>3

LEMMA DescentNext ==
    ASSUME NEW limit, Roomy(limit), SafeInv, SafeInv', Fits(limit), Fits(limit)',
           Descent(limit), [Next]_vars
    PROVE  Descent(limit)'
<1>1. start' = start
  BY DEF Next, vars, Thread, Claim, Load, Store, Wake, Barrier1, Barrier2, Lead, LeadEngine, Decide, Return
<1>2. SUFFICES ASSUME Fresh
               PROVE  /\ Entries' /\ Warranted'
                      /\ \A v \in Worker : todo'[v] # {} => Falling(scan[v], limit)'
  BY <1>1 DEF Descent, Fresh, Updates
<1>3. /\ Entries /\ Warranted /\ Inv /\ Inv'
      /\ \A v \in Worker : todo[v] # {} => Falling(scan[v], limit)
  BY <1>2 DEF Descent, SafeInv
<1>4. ASSUME cp' = cp, \A v \in Worker : \A s \in todo'[v] : Updates(s)
      PROVE  Entries' /\ Lowered /\ Warranted' /\ \A s \in State : Total(s)' = Total(s)
  <2>1. /\ Entries' /\ Lowered
        /\ \A s \in State : Total(s)' = Total(s)
        /\ \A s \in State : \A x : Attained(s, x) => Attained(s, x)'
    BY <1>3, <1>4, SameArray
  <2>2. ASSUME NEW s \in State, Updates(s) PROVE Attained(s, Total(s))'
    BY <1>3, <1>4, <2>2 DEF Warranted, Attained, Total, Open, FusedCost, EntryAt
  <2>. QED
    BY <1>4, <2>1, <2>2 DEF Warranted, Updates
<1>5. ASSUME cp' = cp, todo' = todo, scan' = scan
      PROVE  /\ Entries' /\ Warranted'
             /\ \A v \in Worker : todo'[v] # {} => Falling(scan[v], limit)'
  <2>1. Entries' /\ Lowered /\ Warranted' /\ \A s \in State : Total(s)' = Total(s)
    BY <1>3, <1>4, <1>5 DEF Warranted
  <2>2. ASSUME NEW v \in Worker, todo'[v] # {} PROVE Falling(scan[v], limit)'
    <3>1. todo[v] \subseteq State
      BY <1>3 DEF Inv, TypeOK
    <3>. QED
      BY <1>3, <1>5, <2>1, <2>2, <3>1, OthersFall
  <2>. QED
    BY <2>1, <2>2
<1>6. ASSUME NEW w \in Worker, Claim(w)
      PROVE  /\ Entries' /\ Warranted'
             /\ \A v \in Worker : todo'[v] # {} => Falling(scan[v], limit)'
  <2>1. /\ todo' = [todo EXCEPT ![w] = StatesOf(First(cand))] /\ cp' = cp
        /\ scan' = [scan EXCEPT ![w] = Evaluate(todo'[w])]
    BY <1>6 DEF Claim
  <2>2. /\ todo'[w] = StatesOf(First(cand)) /\ scan'[w] = Evaluate(todo'[w])
        /\ \A v \in Worker \ {w} : todo'[v] = todo[v] /\ scan'[v] = scan[v]
    BY <1>3, <2>1 DEF Inv, TypeOK
  <2>3. \A s \in todo'[w] : Updates(s)
    BY <2>2 DEF StatesOf, Column, EngineColumn
  <2>4. Entries' /\ Lowered /\ Warranted' /\ \A s \in State : Total(s)' = Total(s)
    BY <1>3, <1>4, <2>1, <2>2, <2>3 DEF Warranted
  <2>5. ASSUME NEW v \in Worker, todo'[v] # {} PROVE Falling(scan[v], limit)'
    <3>1. todo[v] \subseteq State /\ todo'[v] \subseteq State
      BY <1>3 DEF Inv, TypeOK
    <3>2. CASE v = w
      BY <2>2, <2>4, <2>5, <3>1, <3>2, BeginFalls
    <3>3. CASE v # w
      BY <1>3, <2>2, <2>4, <2>5, <3>1, <3>3, OthersFall
    <3>. QED
      BY <3>2, <3>3
  <2>. QED
    BY <2>4, <2>5
<1>7. ASSUME NEW w \in Worker, Load(w)
      PROVE  /\ Entries' /\ Warranted'
             /\ \A v \in Worker : todo'[v] # {} => Falling(scan[v], limit)'
  <2>1. todo' = todo /\ cp' = cp /\ todo[w] # {}
    BY <1>7 DEF Load
  <2>2. \A v \in Worker \ {w} : scan'[v] = scan[v]
    BY <1>3, <1>7 DEF Load, Inv, TypeOK
  <2>3. Entries' /\ Lowered /\ Warranted' /\ \A s \in State : Total(s)' = Total(s)
    BY <1>3, <1>4, <2>1 DEF Warranted
  <2>4. ASSUME NEW v \in Worker, todo'[v] # {} PROVE Falling(scan[v], limit)'
    <3>1. todo[v] \subseteq State
      BY <1>3 DEF Inv, TypeOK
    <3>2. CASE v = w
      BY <1>3, <1>7, <2>1, <3>2, LoadFalls
    <3>3. CASE v # w
      BY <1>3, <2>1, <2>2, <2>3, <2>4, <3>1, <3>3, OthersFall
    <3>. QED
      BY <3>2, <3>3
  <2>. QED
    BY <2>3, <2>4
<1>8. ASSUME NEW w \in Worker, Store(w)
      PROVE  /\ Entries' /\ Warranted'
             /\ \A v \in Worker : todo'[v] # {} => Falling(scan[v], limit)'
  BY <1>3, <1>8, StoreFalls
<1>9. ASSUME NEW w \in Worker, Wake(w) PROVE cp' = cp /\ todo' = todo /\ scan' = scan
  BY <1>9 DEF Wake
<1>10. ASSUME Barrier1 \/ Barrier2 \/ Lead \/ LeadEngine \/ Return \/ UNCHANGED vars
       PROVE  cp' = cp /\ todo' = todo /\ scan' = scan
  BY <1>10 DEF vars, Barrier1, Barrier2, Lead, LeadEngine, Decide, Return
<1>. QED
  BY <1>5, <1>6, <1>7, <1>8, <1>9, <1>10 DEF Next, Thread

\* The field that is written back: the policy of a reached state is an action of
\* least cost, and some action costs no more than the value.
LEMMA WriteBackDescends ==
    ASSUME NEW limit, Roomy(limit), Fits(limit), Entries, Warranted, outcome # "converged",
           NEW f, f = WriteBack, NEW s \in State, Updates(s), f.val[s] < MaxCost
    PROVE  f.act[s] # None /\ ActionCost(s, f.act[s], f.val, Free, Pen) <= f.val[s]
<1>. DEFINE A == {FusedCost(s, a) : a \in Action} \cap Cost
            C == {MaxCost} \cup A
            least == LeastFused(s)
<1>0. /\ f.val = [t \in State |-> Total(t)] /\ f.val[s] = Total(s) /\ f.act[s] = FinalPolicy(s)
      /\ s[2] \in Theta
  BY DEF WriteBack, State
<1>1. Total(s) \in Nat /\ Total(s) < MaxCost /\ MaxCost \in Nat
  BY <1>0, TotalIsCost, BellmanAssumption
<1>2. PICK b \in Action : Open(s, b) /\ FusedCost(s, b) <= Total(s)
  BY <1>0, <1>1 DEF Warranted, Attained
<1>3. ASSUME NEW a \in Action, Open(s, a)
      PROVE  FusedCost(s, a) \in Nat /\ ActionCost(s, a, f.val, Free, Pen) = FusedCost(s, a)
  <2>. DEFINE T == Trans[s[2]][a]
              F == [o \in T |-> EntryAt(s, o)]
  <2>1. ASSUME NEW o \in T
        PROVE  /\ EntryAt(s, o) # Unreached /\ EntryAt(s, o) \in Nat /\ EntryAt(s, o) <= limit
               /\ Target(s, o) \in Cell /\ Free[Target(s, o)]
               /\ f.val[<<Target(s, o), o.th>>] + Pen[Target(s, o)] = EntryAt(s, o)
    <3>1. EntryAt(s, o) # Unreached
      BY <1>3 DEF Open
    <3>2. Target(s, o) \in Cell /\ EntryAt(s, o) = cp[At(s, o)]
      BY <3>1 DEF EntryAt
    <3>3. At(s, o) \in State /\ At(s, o)[1] = Target(s, o) /\ At(s, o) = <<Target(s, o), o.th>>
      BY <1>0, <3>2, TransAssumption DEF At, State
    <3>4. Free[Target(s, o)] /\ cp[At(s, o)] \in Nat
      BY <3>1, <3>2, <3>3 DEF Entries
    <3>5. Pen[Target(s, o)] \in Nat
      BY <3>2, SparseAssumption
    <3>6. f.val[At(s, o)] = cp[At(s, o)] - Pen[Target(s, o)]
      BY <1>0, <3>1, <3>2, <3>3 DEF Total
    <3>7. EntryAt(s, o) \in Nat /\ EntryAt(s, o) <= limit
      BY <3>1, OpenEntries
    <3>8. f.val[At(s, o)] + Pen[Target(s, o)] = EntryAt(s, o)
      BY <3>2, <3>4, <3>5, <3>6
    <3>. QED
      BY <3>1, <3>2, <3>3, <3>4, <3>7, <3>8
  <2>2. FusedCost(s, a) = WeightedSum(F)
    BY <2>1 DEF FusedCost
  <2>3. WeightedSum(F) = (SumFunction([o \in T |-> EntryAt(s, o) * o.prob]) % Word) \div ProbBase
    BY DEF WeightedSum
  <2>4. [o \in T |-> (f.val[<<Target(s, o), o.th>>] + Pen[Target(s, o)]) * o.prob]
          = [o \in T |-> EntryAt(s, o) * o.prob]
    BY <2>1
  <2>5. ActionCost(s, a, f.val, Free, Pen) = WeightedSum(F)
    <3>1. ~ \E o \in T : Target(s, o) \notin Cell \/ ~Free[Target(s, o)]
      BY <2>1
    <3>. HIDE DEF F
    <3>. QED
      BY <2>3, <2>4, <3>1 DEF ActionCost
  <2>6. DOMAIN F = T /\ \A o \in T : F[o] \in Nat /\ F[o] <= limit
    BY <2>1
  <2>. HIDE DEF F, T
  <2>7. Weighed(F) \in Nat
    BY <1>0, <2>6, WeighedIsMonotone DEF T
  <2>. QED
    BY <2>2, <2>5, <2>7, WeightedIsWeighed
<1>4. FusedCost(s, b) \in A
  BY <1>1, <1>2, <1>3 DEF Cost
<1>5. C \subseteq Nat /\ C # {} /\ least = Least(C)
  BY <1>1 DEF LeastFused, Cost
<1>6. Least(C) \in C /\ \A y \in C : Least(C) <= y
  <2>. HIDE DEF C
  <2>. QED
    BY <1>5, LeastIsLeast
<1>7. least \in Nat /\ least <= Total(s) /\ least # MaxCost
  <2>1. least <= FusedCost(s, b) /\ least \in Nat
    BY <1>4, <1>5, <1>6
  <2>. HIDE DEF least
  <2>. QED
    BY <1>1, <1>2, <1>3, <2>1
<1>. DEFINE P == {a \in Action : FusedCost(s, a) = least}
<1>8. P \subseteq Nat /\ P # {}
  <2>1. least \in A
    BY <1>5, <1>6, <1>7
  <2>. QED
    BY <2>1 DEF Action
<1>9. Least(P) \in P
  <2>. HIDE DEF P
  <2>. QED
    BY <1>8, LeastIsLeast
<1>10. f.act[s] = Least(P)
  BY <1>0, <1>7 DEF FinalPolicy
<1>11. f.act[s] \in Action /\ FusedCost(s, f.act[s]) = least
  BY <1>9, <1>10
<1>12. Open(s, f.act[s])
  BY <1>7, <1>11 DEF FusedCost, Open
<1>. HIDE DEF least
<1>. QED
  BY <1>0, <1>3, <1>7, <1>11, <1>12, BellmanAssumption

StopInv(limit) == Descent(limit) /\ StoppedFieldDescends

LEMMA StopNext ==
    ASSUME NEW limit, Roomy(limit), SafeInv, SafeInv', Fits(limit), Fits(limit)',
           StopInv(limit), [Next]_vars
    PROVE  StopInv(limit)'
<1>1. Descent(limit)'
  BY DescentNext DEF StopInv
<1>2. StoppedFieldDescends'
  <2>. SUFFICES ASSUME returned', outcome' = "stopped", Fresh',
                       NEW s \in State, Updates(s), field'.val[s] < MaxCost
                PROVE  /\ field'.act[s] # None
                       /\ ActionCost(s, field'.act[s], field'.val, Free, Pen) <= field'.val[s]
    BY DEF StoppedFieldDescends, Updates
  <2>1. start' = start /\ Fresh
    BY DEF Next, vars, Thread, Claim, Load, Store, Wake, Barrier1, Barrier2, Lead, LeadEngine,
           Decide, Return, Fresh, Updates
  <2>2. CASE Return
    <3>1. outcome = "stopped" /\ field' = WriteBack
      BY <2>2 DEF Return
    <3>2. Entries /\ Warranted
      BY <2>1 DEF StopInv, Descent
    <3>. QED
      BY <3>1, <3>2, WriteBackDescends
  <2>3. CASE UNCHANGED vars
    BY <2>1, <2>3 DEF vars, StopInv, StoppedFieldDescends
  <2>4. CASE ~Return /\ Next
    <3>1. UNCHANGED returned
      BY <2>4 DEF Next, Thread, Claim, Load, Store, Wake, Barrier1, Barrier2, Lead, LeadEngine, Decide
    <3>2. \A w \in Worker : pc[w] = "exit"
      <4>1. returned
        BY <3>1
      <4>. QED
        BY <4>1 DEF SafeInv, Inv, Phases
    <3>. QED
      BY <2>4, <3>2, LeaderIsWorker
         DEF Next, Thread, Claim, Load, Store, Wake, Barrier1, Barrier2, Lead, LeadEngine
  <2>. QED
    BY <2>2, <2>3, <2>4
<1>. QED
  BY <1>1, <1>2 DEF StopInv

\* Partiality::UpperBound: a solve that began on a fresh field and was told to
\* stop hands out a field that can be followed: the stored action of a reached
\* state costs at most the stored value, whatever the threads read of each
\* other's unfinished rounds.  The entries have to leave room for the sums: a
\* cost that wraps around looks cheap.
THEOREM StoppedSafety ==
    ASSUME NEW CONSTANT limit, Roomy(limit)
    PROVE  Spec /\ []Fits(limit) => []StoppedFieldDescends
<1>1. Init => StopInv(limit)
  <2>1. Init => StoppedFieldDescends
    BY DEF Init, StoppedFieldDescends
  <2>. QED
    BY <2>1, DescentInit DEF StopInv
<1>2. /\ SafeInv /\ SafeInv' /\ Fits(limit) /\ Fits(limit)' /\ StopInv(limit) /\ [Next]_vars
      => StopInv(limit)'
  BY StopNext
<1>3. StopInv(limit) => StoppedFieldDescends
  BY DEF StopInv
<1>. QED
  BY <1>1, <1>2, <1>3, Invariance, PTL DEF Spec

-----------------------------------------------------------------------------
(* What a solve from a fresh field converges to.  Values that no update    *)
(* lowers stay below everything the threads read, compute and store; so    *)
(* the field of a converged solve, which is such values itself, is the     *)
(* greatest, and there is only one, however the threads interleave.        *)

\* action_cost_fused on the array of the values v.
ArrayCost(s, a, v) ==
    LET outs == Trans[s[2]][a]
    IN  IF \E o \in outs : Target(s, o) \notin Cell \/ Fused(v)[At(s, o)] = Unreached THEN MaxCost
        ELSE WeightedSum([o \in outs |-> Fused(v)[At(s, o)]])
ArrayLeast(s, v) == Least({MaxCost} \cup ({ArrayCost(s, a, v) : a \in Action} \cap Cost))

\* The first action of least cost.
ArrayPolicy(s, v) ==
    IF ~Updates(s) \/ ArrayLeast(s, v) = MaxCost THEN None
    ELSE Least({a \in Action : ArrayCost(s, a, v) = ArrayLeast(s, v)})

\* Values that no update lowers, the values of the goal being those given.
Solution(v) ==
    \A s \in State : IF Updates(s) THEN v[s] <= ArrayLeast(s, v)
                     ELSE Free[s[1]] => v[s] <= start.val[s]

\* No other solution has a dearer state: there is at most one such field.
GreatestSolution(v) ==
    /\ v \in [State -> Cost] /\ Solution(v)
    /\ \A u \in [State -> Cost] : Solution(u) => \A s \in State : u[s] <= v[s]

\* A converged solve from a fresh field returns the greatest solution.
ConvergedIsGreatest ==
    (returned /\ outcome = "converged" /\ Fresh) => GreatestSolution(field.val)

\* Nothing that the evaluation sc knows is below v.
Bounds(sc, v) ==
    /\ v[sc.s] <= sc.best
    /\ \A o \in DOMAIN sc.got :
          /\ Target(sc.s, o) \in Cell
          /\ Fused(v)[At(sc.s, o)] # Unreached /\ Fused(v)[At(sc.s, o)] <= sc.got[o]

\* Nor is anything in the array.
NotBelow(v) ==
    /\ \A s \in State : cp[s] # Unreached => Fused(v)[s] # Unreached /\ Fused(v)[s] <= cp[s]
    /\ \A w \in Worker : todo[w] # {} => Bounds(scan[w], v)

\* The inductive invariant; the rest of it is Inv and Descent.
GreatInv ==
    Fresh => /\ \A s \in State : ~Updates(s) => cp[s] = Fused(start.val)[s]
             /\ \A v \in [State -> Cost] : Solution(v) => NotBelow(v)

\* The array of some values.
LEMMA ArrayOfValues ==
    ASSUME NEW v \in [State -> Cost], NEW s \in State
    PROVE  /\ Fused(v)[s] # Unreached <=> Free[s[1]] /\ v[s] < MaxCost
           /\ Fused(v)[s] # Unreached =>
                 Fused(v)[s] \in Nat /\ Fused(v)[s] = v[s] + Pen[s[1]]
           /\ v[s] \in Nat /\ v[s] <= MaxCost /\ Pen[s[1]] \in Nat /\ MaxCost \in Nat
<1>1. Fused(v)[s] = IF Free[s[1]] /\ v[s] # MaxCost THEN v[s] + Pen[s[1]] ELSE Unreached
  BY DEF Fused
<1>2. s[1] \in Cell /\ v[s] \in Cost /\ Pen[s[1]] \in Nat /\ v[s] + Pen[s[1]] # Unreached
  BY SparseAssumption DEF State
<1>3. v[s] \in Nat /\ v[s] <= MaxCost /\ MaxCost \in Nat
  BY <1>2, BellmanAssumption DEF Cost
<1>. QED
  BY <1>1, <1>2, <1>3

\* The first evaluation of what a thread claimed, or of what is left of it.
LEMMA BeginBounds ==
    ASSUME NEW S, S \subseteq State, S # {}, NEW v \in [State -> Cost]
    PROVE  Bounds(Evaluate(S), v)
<1>0. PICK sc : sc = Begin(Earliest(S), 1, MaxCost)
  OBVIOUS
<1>1. Evaluate(S) = sc
  BY <1>0 DEF Evaluate
<1>2. sc.s = Earliest(S) /\ sc.best = MaxCost /\ DOMAIN sc.got = {}
  BY <1>0 DEF Begin
<1>3. Earliest(S) \in State
  BY EarliestIsIn
<1>4. v[sc.s] <= sc.best
  BY <1>2, <1>3, ArrayOfValues
<1>. QED
  BY <1>1, <1>2, <1>4 DEF Bounds

LEMMA GreatInit == Init => GreatInv
<1>. SUFFICES ASSUME Init, Fresh
              PROVE  /\ \A s \in State : ~Updates(s) => cp[s] = Fused(start.val)[s]
                     /\ \A v \in [State -> Cost] : Solution(v) => NotBelow(v)
  BY DEF GreatInv
<1>0. /\ start.val \in [State -> Cost] /\ cp = Fused(start.val)
      /\ todo = [w \in Worker |-> {}]
  BY SparseAssumption DEF Init
<1>1. ASSUME NEW v \in [State -> Cost], Solution(v), NEW s \in State, cp[s] # Unreached
      PROVE  Fused(v)[s] # Unreached /\ Fused(v)[s] <= cp[s]
  <2>1. /\ Free[s[1]] /\ start.val[s] < MaxCost /\ start.val[s] \in Nat
        /\ cp[s] = start.val[s] + Pen[s[1]]
    BY <1>0, <1>1, ArrayOfValues
  <2>2. ~Updates(s)
    BY <2>1 DEF Fresh
  <2>3. v[s] <= start.val[s]
    BY <1>1, <2>1, <2>2 DEF Solution
  <2>4. v[s] \in Nat /\ v[s] < MaxCost
    BY <2>1, <2>3, ArrayOfValues
  <2>5. Fused(v)[s] # Unreached /\ Fused(v)[s] = v[s] + Pen[s[1]] /\ Pen[s[1]] \in Nat
    BY <2>1, <2>4, ArrayOfValues
  <2>. QED
    BY <2>1, <2>3, <2>4, <2>5
<1>. QED
  BY <1>0, <1>1 DEF NotBelow

\* A load: the entry is not below that of v, and once every outcome is known the
\* cost is not below what the action costs at v.
LEMMA LoadBounds ==
    ASSUME NEW limit, Roomy(limit), Inv, Entries, Warranted, Fits(limit), NEW w \in Worker, Load(w),
           Falling(scan[w], limit), NEW v \in [State -> Cost], Solution(v), NotBelow(v)
    PROVE  Bounds(scan'[w], v)
<1>0. PICK sc, s, a : sc = scan[w] /\ s = sc.s /\ a = sc.a
  OBVIOUS
<1>. DEFINE outs == Trans[s[2]][a]
            Done(cost) == Begin(s, a + 1, Lower(sc.best, cost))
<1>1. todo[w] # {} /\ a \in Action
  BY <1>0 DEF Load
<1>2. PICK o \in outs \ DOMAIN sc.got : scan' = [scan EXCEPT ![w] = Loaded(sc, o)]
  BY <1>0 DEF Load
<1>. DEFINE e == EntryAt(s, o)
            got == [p \in DOMAIN sc.got \cup {o} |-> IF p = o THEN e ELSE sc.got[p]]
            new == IF e = Unreached THEN Done(MaxCost)
                   ELSE IF DOMAIN got = outs THEN Done(WeightedSum(got))
                   ELSE [s |-> s, a |-> a, got |-> got, best |-> sc.best]
<1>3. scan'[w] = new
  <2>1. Loaded(sc, o) = new
    BY <1>0, Zenon DEF Loaded
  <2>. QED
    BY <1>2, <2>1 DEF Inv, TypeOK
<1>4. s \in State /\ s[2] \in Theta /\ sc.best \in Cost /\ Updates(s)
  BY <1>0, <1>1 DEF Inv, Scans, Scanned, TypeOK, State, Warranted
<1>5. /\ v[s] \in Nat /\ v[s] <= MaxCost /\ MaxCost \in Nat
      /\ \A n : n \in Cost <=> n \in Nat /\ n <= MaxCost
  BY <1>4, ArrayOfValues, BellmanAssumption DEF Cost
<1>6. Bounds(sc, v) /\ ReadsAreOld(sc, limit)
  BY <1>0, <1>1 DEF NotBelow, Falling
<1>7. ASSUME e # Unreached, NEW p \in DOMAIN got
      PROVE  /\ p \in outs /\ got[p] \in Nat /\ got[p] <= limit /\ Target(s, p) \in Cell
             /\ Fused(v)[At(s, p)] # Unreached /\ Fused(v)[At(s, p)] <= got[p]
  <2>1. CASE p = o
    <3>1. got[p] = EntryAt(s, p) /\ p \in outs /\ EntryAt(s, p) # Unreached
      BY <1>2, <1>7, <2>1
    <3>2. Target(s, p) \in Cell /\ EntryAt(s, p) = cp[At(s, p)]
      BY <3>1 DEF EntryAt
    <3>3. At(s, p) \in State
      BY <1>1, <1>4, <3>1, <3>2, TransAssumption DEF At, State
    <3>4. EntryAt(s, p) \in Nat /\ EntryAt(s, p) <= limit
      BY <3>1, <3>2, <3>3 DEF Entries, Fits
    <3>5. Fused(v)[At(s, p)] # Unreached /\ Fused(v)[At(s, p)] <= EntryAt(s, p)
      BY <3>1, <3>2, <3>3 DEF NotBelow
    <3>. HIDE DEF got
    <3>. QED
      BY <3>1, <3>2, <3>4, <3>5
  <2>2. CASE p # o
    <3>1. p \in DOMAIN sc.got /\ got[p] = sc.got[p]
      BY <2>2
    <3>. HIDE DEF got
    <3>2. p \in outs /\ sc.got[p] \in Nat /\ sc.got[p] <= limit
      BY <1>0, <1>6, <3>1 DEF ReadsAreOld
    <3>3. /\ Target(s, p) \in Cell
          /\ Fused(v)[At(s, p)] # Unreached /\ Fused(v)[At(s, p)] <= sc.got[p]
      BY <1>0, <1>6, <3>1 DEF Bounds
    <3>. QED
      BY <3>1, <3>2, <3>3
  <2>. QED
    BY <2>1, <2>2
<1>8. v[s] <= sc.best
  BY <1>0, <1>6 DEF Bounds
<1>. HIDE DEF got, e, outs
<1>9. ASSUME NEW cost, new = Done(cost), cost \in Cost => v[s] <= cost
      PROVE  Bounds(scan'[w], v)
  <2>0. PICK nx : nx = Done(cost)
    OBVIOUS
  <2>1. scan'[w] = nx
    BY <1>3, <1>9, <2>0
  <2>2. nx.s = s /\ nx.best = Lower(sc.best, cost) /\ DOMAIN nx.got = {}
    BY <2>0 DEF Begin
  <2>3. Lower(sc.best, cost) \in {sc.best} \cup ({cost} \cap Cost)
    BY <1>4, LowerIsLower
  <2>4. v[s] <= Lower(sc.best, cost)
    BY <1>8, <1>9, <2>3
  <2>. QED
    BY <2>1, <2>2, <2>4 DEF Bounds
<1>10. CASE e = Unreached
  BY <1>5, <1>9, <1>10
<1>11. CASE e # Unreached /\ DOMAIN got = outs
  <2>. DEFINE F == [p \in outs |-> Fused(v)[At(s, p)]]
              C == {MaxCost} \cup ({ArrayCost(s, b, v) : b \in Action} \cap Cost)
  <2>1. ASSUME NEW p \in outs
        PROVE  /\ got[p] \in Nat /\ got[p] <= limit /\ Target(s, p) \in Cell
               /\ Fused(v)[At(s, p)] # Unreached /\ Fused(v)[At(s, p)] \in Nat
               /\ Fused(v)[At(s, p)] <= got[p]
    <3>1. /\ got[p] \in Nat /\ got[p] <= limit /\ Target(s, p) \in Cell
          /\ Fused(v)[At(s, p)] # Unreached /\ Fused(v)[At(s, p)] <= got[p]
      BY <1>7, <1>11
    <3>2. At(s, p) \in State
      BY <1>1, <1>4, <3>1, TransAssumption DEF At, State, outs
    <3>. QED
      BY <3>1, <3>2, ArrayOfValues
  <2>2. ArrayCost(s, a, v) = WeightedSum(F)
    BY <2>1 DEF ArrayCost, outs
  <2>3. DOMAIN F = outs /\ \A p \in outs : F[p] = Fused(v)[At(s, p)]
    OBVIOUS
  <2>. HIDE DEF F
  <2>4. Weighed(F) \in Nat /\ Weighed(got) \in Nat /\ Weighed(F) <= Weighed(got)
    BY <1>1, <1>4, <1>11, <2>1, <2>3, WeighedIsMonotone DEF outs
  <2>5. WeightedSum(F) = Weighed(F) /\ WeightedSum(got) = Weighed(got)
    BY WeightedIsWeighed
  <2>6. ASSUME WeightedSum(got) \in Cost PROVE v[s] <= WeightedSum(got)
    <3>1. ArrayCost(s, a, v) \in Nat /\ ArrayCost(s, a, v) <= WeightedSum(got)
          /\ ArrayCost(s, a, v) \in Cost /\ WeightedSum(got) \in Nat
      BY <1>5, <2>2, <2>4, <2>5, <2>6
    <3>2. C \subseteq Nat /\ C # {} /\ ArrayCost(s, a, v) \in C /\ ArrayLeast(s, v) = Least(C)
      BY <1>1, <1>5, <3>1 DEF ArrayLeast
    <3>. HIDE DEF C
    <3>3. Least(C) \in Nat /\ Least(C) <= ArrayCost(s, a, v)
      BY <3>2, LeastIsLeast
    <3>4. v[s] <= ArrayLeast(s, v)
      BY <1>4 DEF Solution
    <3>. QED
      BY <1>5, <3>1, <3>2, <3>3, <3>4
  <2>7. new = Done(WeightedSum(got))
    BY <1>11
  <2>. QED
    BY <1>9, <2>6, <2>7
<1>12. CASE e # Unreached /\ DOMAIN got # outs
  <2>0. PICK nx : nx = [s |-> s, a |-> a, got |-> got, best |-> sc.best]
    OBVIOUS
  <2>1. scan'[w] = nx
    BY <1>3, <1>12, <2>0
  <2>2. nx.s = s /\ nx.best = sc.best /\ nx.got = got
    BY <2>0
  <2>. QED
    BY <1>7, <1>8, <1>12, <2>1, <2>2 DEF Bounds
<1>. QED
  BY <1>10, <1>11, <1>12

\* A store: a state of which the evaluation is at its end gets a value that is
\* not below that of v.
LEMMA StoreBounds ==
    ASSUME Inv, Inv', Entries', Warranted, NEW w \in Worker, Store(w),
           NEW v \in [State -> Cost], NotBelow(v)
    PROVE  NotBelow(v)'
<1>0. PICK s, best : s = scan[w].s /\ best = scan[w].best
  OBVIOUS
<1>. DEFINE moved == best # Total(s)
<1>1. /\ todo[w] # {}
      /\ cp' = IF moved THEN [cp EXCEPT ![s] = Entry(s, best)] ELSE cp
      /\ todo' = [todo EXCEPT ![w] = @ \ {s}]
      /\ scan' = [scan EXCEPT ![w] = Evaluate(todo'[w])]
  BY <1>0 DEF Store
<1>2. s \in todo[w] /\ s \in State /\ best \in Cost /\ v[s] <= best /\ Updates(s)
  BY <1>0, <1>1 DEF Inv, Scans, Scanned, TypeOK, NotBelow, Bounds, Warranted
<1>3. \A t \in State : (t # s \/ ~moved) => cp'[t] = cp[t]
  BY <1>1, <1>2 DEF Inv, TypeOK
<1>4. moved => cp'[s] = Entry(s, best)
  BY <1>1, <1>2 DEF Inv, TypeOK
<1>. HIDE DEF moved
<1>5. ASSUME NEW t \in State, cp'[t] # Unreached
      PROVE  Fused(v)[t] # Unreached /\ Fused(v)[t] <= cp'[t]
  <2>1. CASE t = s /\ moved
    <3>1. cp'[s] = best + Pen[s[1]]
      BY <1>4, <1>5, <2>1 DEF Entry, EntryUnsafe, EntryFused
    <3>2. Free[s[1]] /\ cp'[s] - Pen[s[1]] < MaxCost
      BY <1>5, <2>1 DEF Entries
    <3>3. best \in Nat /\ Pen[s[1]] \in Nat /\ v[s] \in Nat
      BY <1>2, ArrayOfValues, BellmanAssumption DEF Cost
    <3>4. best < MaxCost
      BY <3>1, <3>2, <3>3
    <3>5. v[s] < MaxCost
      BY <1>2, <3>3, <3>4, BellmanAssumption
    <3>6. Fused(v)[s] # Unreached /\ Fused(v)[s] = v[s] + Pen[s[1]]
      BY <1>2, <3>2, <3>5, ArrayOfValues
    <3>. QED
      BY <1>2, <2>1, <3>1, <3>3, <3>6
  <2>2. CASE ~(t = s /\ moved)
    BY <1>3, <1>5, <2>2 DEF NotBelow
  <2>. QED
    BY <2>1, <2>2
<1>6. ASSUME NEW u \in Worker, todo'[u] # {} PROVE Bounds(scan'[u], v)
  <2>1. CASE u = w
    <3>1. scan'[w] = Evaluate(todo'[w]) /\ todo'[w] \subseteq State
      BY <1>1 DEF Inv, TypeOK
    <3>. QED
      BY <1>6, <2>1, <3>1, BeginBounds
  <2>2. CASE u # w
    <3>1. scan'[u] = scan[u] /\ todo'[u] = todo[u]
      BY <1>1, <2>2 DEF Inv, TypeOK
    <3>. QED
      BY <1>6, <3>1 DEF NotBelow
  <2>. QED
    BY <2>1, <2>2
<1>. QED
  BY <1>5, <1>6 DEF NotBelow, Bounds

LEMMA GreatNext ==
    ASSUME NEW limit, Roomy(limit), SafeInv, SafeInv', Fits(limit), Descent(limit), Descent(limit)',
           GreatInv, [Next]_vars
    PROVE  GreatInv'
<1>1. start' = start
  BY DEF Next, vars, Thread, Claim, Load, Store, Wake, Barrier1, Barrier2, Lead, LeadEngine, Decide, Return
<1>2. SUFFICES ASSUME Fresh
               PROVE  /\ \A s \in State : ~Updates(s) => cp'[s] = Fused(start.val)[s]
                      /\ \A v \in [State -> Cost] : Solution(v) => NotBelow(v)'
  <2>1. Fresh' = Fresh /\ \A s : Updates(s)' = Updates(s)
    BY <1>1 DEF Fresh, Updates
  <2>2. Fused(start.val)' = Fused(start.val)
    BY <1>1 DEF Fused
  <2>3. ASSUME NEW v \in [State -> Cost] PROVE Solution(v)' = Solution(v)
    BY <1>1 DEF Solution, Updates, ArrayLeast, ArrayCost
  <2>. QED
    BY <1>1, <2>1, <2>2, <2>3 DEF GreatInv
<1>3. /\ Entries /\ Entries' /\ Warranted /\ Inv /\ Inv'
      /\ \A w \in Worker : todo[w] # {} => Falling(scan[w], limit)
      /\ \A s \in State : ~Updates(s) => cp[s] = Fused(start.val)[s]
      /\ \A v \in [State -> Cost] : Solution(v) => NotBelow(v)
  <2>1. Fresh'
    BY <1>1, <1>2 DEF Fresh, Updates
  <2>. QED
    BY <1>2, <2>1 DEF Descent, SafeInv, GreatInv
<1>4. SUFFICES ASSUME NEW v \in [State -> Cost]
               PROVE  /\ \A s \in State : ~Updates(s) => cp'[s] = cp[s]
                      /\ Solution(v) => NotBelow(v)'
  <2>1. \A v \in [State -> Cost] : \A s \in State : ~Updates(s) => cp'[s] = cp[s]
    BY <1>4
  <2>2. \A v \in [State -> Cost] : Solution(v) => NotBelow(v)'
    BY <1>4
  <2>3. [s \in State |-> MaxCost] \in [State -> Cost]
    BY BellmanAssumption DEF Cost
  <2>4. \A s \in State : ~Updates(s) => cp'[s] = cp[s]
    BY <2>1, <2>3
  <2>. QED
    BY <1>3, <2>2, <2>4
<1>5. ASSUME cp' = cp, Solution(v), \A w \in Worker : todo'[w] # {} => Bounds(scan'[w], v)
      PROVE  NotBelow(v)'
  BY <1>3, <1>5 DEF NotBelow, Bounds
<1>6. ASSUME NEW w \in Worker, Claim(w)
      PROVE  cp' = cp /\ (Solution(v) => NotBelow(v)')
  <2>1. /\ todo' = [todo EXCEPT ![w] = StatesOf(First(cand))] /\ cp' = cp
        /\ scan' = [scan EXCEPT ![w] = Evaluate(todo'[w])]
    BY <1>6 DEF Claim
  <2>2. /\ scan'[w] = Evaluate(todo'[w]) /\ todo'[w] \subseteq State
        /\ \A u \in Worker \ {w} : todo'[u] = todo[u] /\ scan'[u] = scan[u]
    BY <1>3, <2>1 DEF Inv, TypeOK
  <2>3. todo'[w] # {} => Bounds(scan'[w], v)
    BY <2>2, BeginBounds
  <2>4. Solution(v) => \A u \in Worker : todo'[u] # {} => Bounds(scan'[u], v)
    BY <1>3, <2>2, <2>3 DEF NotBelow
  <2>. QED
    BY <1>5, <2>1, <2>4
<1>7. ASSUME NEW w \in Worker, Load(w)
      PROVE  cp' = cp /\ (Solution(v) => NotBelow(v)')
  <2>1. todo' = todo /\ cp' = cp /\ todo[w] # {}
    BY <1>7 DEF Load
  <2>2. \A u \in Worker \ {w} : scan'[u] = scan[u]
    BY <1>3, <1>7 DEF Load, Inv, TypeOK
  <2>3. Solution(v) => Bounds(scan'[w], v)
    BY <1>3, <1>7, <2>1, LoadBounds
  <2>4. Solution(v) => \A u \in Worker : todo'[u] # {} => Bounds(scan'[u], v)
    BY <1>3, <2>1, <2>2, <2>3 DEF NotBelow
  <2>. QED
    BY <1>5, <2>1, <2>4
<1>8. ASSUME NEW w \in Worker, Store(w)
      PROVE  /\ \A s \in State : ~Updates(s) => cp'[s] = cp[s]
             /\ Solution(v) => NotBelow(v)'
  <2>1. Solution(v) => NotBelow(v)'
    BY <1>3, <1>8, StoreBounds
  <2>2. \A s \in State : ~Updates(s) => cp'[s] = cp[s]
    <3>1. todo[w] # {} /\ scan[w].s \in todo[w] /\ Updates(scan[w].s)
      BY <1>3, <1>8 DEF Store, Inv, Scans, Scanned, Warranted
    <3>2. \A s \in State : s # scan[w].s => cp'[s] = cp[s]
      BY <1>3, <1>8 DEF Store, Inv, TypeOK
    <3>. QED
      BY <3>1, <3>2
  <2>. QED
    BY <2>1, <2>2
<1>9. ASSUME NEW w \in Worker, Wake(w) PROVE cp' = cp /\ todo' = todo /\ scan' = scan
  BY <1>9 DEF Wake
<1>10. ASSUME Barrier1 \/ Barrier2 \/ Lead \/ LeadEngine \/ Return \/ UNCHANGED vars
       PROVE  cp' = cp /\ todo' = todo /\ scan' = scan
  BY <1>10 DEF vars, Barrier1, Barrier2, Lead, LeadEngine, Decide, Return
<1>11. ASSUME cp' = cp, todo' = todo, scan' = scan PROVE Solution(v) => NotBelow(v)'
  BY <1>3, <1>5, <1>11 DEF NotBelow
<1>. QED
  BY <1>6, <1>7, <1>8, <1>9, <1>10, <1>11 DEF Next, Thread

\* The array at rest is that of the values it stands for, so the costs are too.
LEMMA ArrayOfField ==
    ASSUME Entries, cp \in [State -> Nat \cup {Unreached}], NEW f, f = [s \in State |-> Total(s)]
    PROVE  /\ f \in [State -> Cost] /\ Fused(f) = cp
           /\ \A s \in State : /\ ArrayLeast(s, f) = LeastFused(s)
                               /\ \A a \in Action : ArrayCost(s, a, f) = FusedCost(s, a)
<1>1. f \in [State -> Cost]
  BY TotalIsCost, BellmanAssumption DEF Cost
<1>2. ASSUME NEW s \in State
      PROVE  (IF Free[s[1]] /\ f[s] # MaxCost THEN f[s] + Pen[s[1]] ELSE Unreached) = cp[s]
  <2>1. f[s] = Total(s) /\ Pen[s[1]] \in Nat
    BY SparseAssumption DEF State
  <2>2. CASE cp[s] = Unreached
    BY <2>1, <2>2 DEF Total
  <2>3. CASE cp[s] # Unreached
    <3>1. /\ cp[s] \in Nat /\ Free[s[1]] /\ Total(s) = cp[s] - Pen[s[1]]
          /\ Total(s) \in Nat /\ Total(s) < MaxCost
      BY <2>3 DEF Entries, Total
    <3>2. Total(s) + Pen[s[1]] = cp[s] /\ Total(s) # MaxCost
      BY <2>1, <3>1, BellmanAssumption
    <3>. QED
      BY <2>1, <3>1, <3>2
  <2>. QED
    BY <2>2, <2>3
<1>3. Fused(f) = cp
  BY <1>2 DEF Fused
<1>4. ASSUME NEW s \in State, NEW a \in Action PROVE ArrayCost(s, a, f) = FusedCost(s, a)
  <2>1. \A o \in Trans[s[2]][a] :
            /\ EntryAt(s, o) = Unreached <=> Target(s, o) \notin Cell \/ Fused(f)[At(s, o)] = Unreached
            /\ EntryAt(s, o) # Unreached => EntryAt(s, o) = Fused(f)[At(s, o)]
    BY <1>3 DEF EntryAt
  <2>2. CASE \E o \in Trans[s[2]][a] : EntryAt(s, o) = Unreached
    BY <2>1, <2>2 DEF ArrayCost, FusedCost
  <2>3. CASE ~ \E o \in Trans[s[2]][a] : EntryAt(s, o) = Unreached
    <3>1. [o \in Trans[s[2]][a] |-> EntryAt(s, o)] = [o \in Trans[s[2]][a] |-> Fused(f)[At(s, o)]]
      BY <2>1, <2>3
    <3>2. ArrayCost(s, a, f) = WeightedSum([o \in Trans[s[2]][a] |-> Fused(f)[At(s, o)]])
      BY <2>1, <2>3 DEF ArrayCost
    <3>3. FusedCost(s, a) = WeightedSum([o \in Trans[s[2]][a] |-> EntryAt(s, o)])
      BY <2>3 DEF FusedCost
    <3>. QED
      BY <3>1, <3>2, <3>3
  <2>. QED
    BY <2>2, <2>3
<1>5. ASSUME NEW s \in State PROVE ArrayLeast(s, f) = LeastFused(s)
  <2>1. {ArrayCost(s, a, f) : a \in Action} = {FusedCost(s, a) : a \in Action}
    BY <1>4
  <2>. QED
    BY <2>1 DEF ArrayLeast, LeastFused
<1>. QED
  BY <1>1, <1>3, <1>4, <1>5

\* The caller has what the array stood for.
HandedBack == returned /\ outcome = "converged" => field = WriteBack

LEMMA HandedBackNext ==
    ASSUME SafeInv, SafeInv', HandedBack, [Next]_vars PROVE HandedBack'
<1>. SUFFICES ASSUME returned', outcome' = "converged" PROVE field' = WriteBack'
  BY DEF HandedBack
<1>0. ASSUME cp' = cp, outcome' = outcome PROVE WriteBack' = WriteBack
  <2>1. \A s \in State : Total(s)' = Total(s) /\ LeastFused(s)' = LeastFused(s)
                         /\ \A a \in Action : FusedCost(s, a)' = FusedCost(s, a)
    BY <1>0 DEF Total, LeastFused, FusedCost, EntryAt
  <2>2. \A s \in State : FinalPolicy(s)' = FinalPolicy(s)
    BY <1>0, <2>1 DEF FinalPolicy, Updates
  <2>. QED
    BY <2>1, <2>2 DEF WriteBack
<1>1. CASE Return
  BY <1>0, <1>1 DEF Return, sharedVars
<1>2. CASE UNCHANGED vars
  <2>1. UNCHANGED <<field, cp, outcome, returned>>
    BY <1>2 DEF vars, sharedVars
  <2>. QED
    BY <1>0, <2>1 DEF HandedBack
<1>3. CASE ~Return /\ Next
  <2>1. returned' = returned
    BY <1>3 DEF Next, Thread, Claim, Load, Store, Wake, Barrier1, Barrier2, Lead, LeadEngine, Decide
  <2>2. \A w \in Worker : pc[w] = "exit"
    BY <2>1 DEF SafeInv, Inv, Phases
  <2>. QED
    BY <1>3, <2>2, LeaderIsWorker
       DEF Next, Thread, Claim, Load, Store, Wake, Barrier1, Barrier2, Lead, LeadEngine
<1>. QED
  BY <1>1, <1>2, <1>3

LEMMA ConvergedSolves ==
    ASSUME NEW limit, SafeInv, Descent(limit), GreatInv, HandedBack,
           returned, outcome = "converged", Fresh, start.val \in [State -> Cost]
    PROVE  GreatestSolution(field.val) /\ \A s \in State : field.act[s] = ArrayPolicy(s, field.val)
<1>0. PICK f : f = [s \in State |-> Total(s)]
  OBVIOUS
<1>1. /\ field.val = f /\ \A s \in State : field.act[s] = FinalPolicy(s)
      /\ Entries /\ cp \in [State -> Nat \cup {Unreached}]
      /\ \A s \in State : Updates(s) => Total(s) = LeastFused(s)
  BY <1>0 DEF HandedBack, WriteBack, Descent, SafeInv, Inv, TypeOK, Converged, Consistent
<1>2. /\ f \in [State -> Cost] /\ Fused(f) = cp
      /\ \A s \in State : /\ ArrayLeast(s, f) = LeastFused(s)
                          /\ \A a \in Action : ArrayCost(s, a, f) = FusedCost(s, a)
  BY <1>0, <1>1, ArrayOfField
<1>3. Solution(f)
  <2>1. ASSUME NEW s \in State, Updates(s) PROVE f[s] <= ArrayLeast(s, f)
    <3>1. f[s] = ArrayLeast(s, f) /\ f[s] \in Nat
      BY <1>0, <1>1, <1>2, <2>1, ArrayOfValues
    <3>. QED
      BY <3>1
  <2>2. ASSUME NEW s \in State, ~Updates(s), Free[s[1]] PROVE f[s] <= start.val[s]
    <3>1. Fused(f)[s] = Fused(start.val)[s]
      BY <1>2, <2>2 DEF GreatInv
    <3>2. f[s] \in Nat /\ f[s] <= MaxCost /\ start.val[s] \in Nat /\ start.val[s] <= MaxCost
          /\ MaxCost \in Nat /\ Pen[s[1]] \in Nat
      BY <1>2, ArrayOfValues
    <3>3. CASE Fused(start.val)[s] = Unreached
      <4>1. ~(start.val[s] < MaxCost)
        BY <2>2, <3>3, ArrayOfValues
      <4>. QED
        BY <3>2, <4>1
    <3>4. CASE Fused(start.val)[s] # Unreached
      <4>1. Fused(f)[s] = f[s] + Pen[s[1]] /\ Fused(start.val)[s] = start.val[s] + Pen[s[1]]
        BY <1>2, <3>1, <3>4, ArrayOfValues
      <4>2. \A x, y, z \in Nat : x + z = y + z => x <= y
        OBVIOUS
      <4>. QED
        BY <3>1, <3>2, <4>1, <4>2
    <3>. QED
      BY <3>3, <3>4
  <2>. QED
    BY <2>1, <2>2 DEF Solution
<1>4. ASSUME NEW u \in [State -> Cost], Solution(u), NEW s \in State PROVE u[s] <= f[s]
  <2>1. u[s] \in Nat /\ u[s] <= MaxCost /\ f[s] \in Nat /\ Pen[s[1]] \in Nat /\ f[s] = Total(s)
    BY <1>0, <1>2, ArrayOfValues
  <2>2. CASE cp[s] = Unreached
    BY <2>1, <2>2 DEF Total
  <2>3. CASE cp[s] # Unreached
    <3>1. Fused(u)[s] # Unreached /\ Fused(u)[s] <= cp[s]
      BY <1>4, <2>3 DEF GreatInv, NotBelow
    <3>2. Fused(u)[s] = u[s] + Pen[s[1]] /\ cp[s] = f[s] + Pen[s[1]]
      BY <1>2, <2>3, <3>1, ArrayOfValues
    <3>. QED
      BY <2>1, <3>1, <3>2
  <2>. QED
    BY <2>2, <2>3
<1>5. ASSUME NEW s \in State PROVE FinalPolicy(s) = ArrayPolicy(s, f)
  <2>1. {a \in Action : FusedCost(s, a) = LeastFused(s)} = {a \in Action : ArrayCost(s, a, f) = ArrayLeast(s, f)}
    BY <1>2
  <2>2. Updates(s) /\ cp[s] = Unreached => LeastFused(s) = MaxCost
    BY <1>1 DEF Total
  <2>. QED
    BY <1>2, <2>1, <2>2 DEF FinalPolicy, ArrayPolicy
<1>. QED
  BY <1>1, <1>2, <1>3, <1>4, <1>5 DEF GreatestSolution

\* All of it together.
SolveInv(limit) ==
    /\ Descent(limit) /\ GreatInv /\ HandedBack /\ start.val \in [State -> Cost]

LEMMA Solved ==
    ASSUME NEW CONSTANT limit, Roomy(limit)
    PROVE  Spec /\ []Fits(limit) => [](SafeInv /\ SolveInv(limit))
<1>1. Init => SolveInv(limit)
  <2>1. Init => HandedBack /\ start.val \in [State -> Cost]
    BY SparseAssumption DEF Init, HandedBack
  <2>. QED
    BY <2>1, DescentInit, GreatInit DEF SolveInv
<1>2. /\ SafeInv /\ SafeInv' /\ Fits(limit) /\ Fits(limit)' /\ SolveInv(limit) /\ [Next]_vars
      => SolveInv(limit)'
  <2>. SUFFICES ASSUME SafeInv, SafeInv', Fits(limit), Fits(limit)', SolveInv(limit), [Next]_vars
                PROVE  SolveInv(limit)'
    OBVIOUS
  <2>1. Descent(limit)'
    BY DescentNext DEF SolveInv
  <2>2. GreatInv'
    BY <2>1, GreatNext DEF SolveInv
  <2>3. HandedBack'
    BY HandedBackNext DEF SolveInv
  <2>4. start' = start
    BY DEF Next, vars, Thread, Claim, Load, Store, Wake, Barrier1, Barrier2, Lead, LeadEngine, Decide, Return
  <2>. QED
    BY <2>1, <2>2, <2>3, <2>4 DEF SolveInv
<1>. QED
  BY <1>1, <1>2, Invariance, PTL DEF Spec

\* frontier2d_sparse.rs, "bit-exact": a solve from a fresh field that is reported
\* as converged has returned the greatest solution of the clamped equations.
\* There is only one, so the values depend neither on the number of threads nor
\* on how their loads and stores interleave.
THEOREM SparseGreatest ==
    ASSUME NEW CONSTANT limit, Roomy(limit)
    PROVE  Spec /\ []Fits(limit) => []ConvergedIsGreatest
<1>1. SafeInv /\ SolveInv(limit) => ConvergedIsGreatest
  BY ConvergedSolves DEF SolveInv, ConvergedIsGreatest
<1>. QED
  BY <1>1, Solved, PTL

\* What the original solver has reached.
FinalCosts ==
    [s \in State |-> IF Original(Map, start).val[s] < ReachThresh
                     THEN Original(Map, start).val[s] ELSE MaxCost]

\* The original solver, run by itself, ends on the greatest solution, with the
\* first action of least cost: no cost of a state that counts as reached is the
\* work of a sum that wrapped around.
OriginalSolves ==
    /\ GreatestSolution(FinalCosts)
    /\ \A s \in State : Original(Map, start).val[s] < ReachThresh =>
           Original(Map, start).act[s] = ArrayPolicy(s, FinalCosts)

\* frontier2d_sparse.rs, "the converged values and policy of reachable cells are
\* bit-exact with the original": it is enough that the original solver, which is
\* sequential, solves the equations; no schedule of the threads ends elsewhere.
THEOREM SparseIsOriginal ==
    ASSUME NEW CONSTANT limit, Roomy(limit)
    PROVE  Spec /\ Fresh /\ OriginalSolves /\ []Fits(limit) => []ConvergedIsOriginal
<1>1. SafeInv /\ SolveInv(limit) /\ Fresh /\ OriginalSolves => ConvergedIsOriginal
  <2>. SUFFICES ASSUME SafeInv, SolveInv(limit), Fresh, OriginalSolves,
                       returned, outcome = "converged", NEW s \in State,
                       Original(Map, start).val[s] < ReachThresh
                PROVE  /\ field.val[s] = Original(Map, start).val[s]
                       /\ field.act[s] = Original(Map, start).act[s]
    BY DEF ConvergedIsOriginal
  <2>1. GreatestSolution(field.val) /\ field.act[s] = ArrayPolicy(s, field.val)
    BY ConvergedSolves DEF SolveInv
  <2>2. GreatestSolution(FinalCosts)
    BY DEF OriginalSolves
  <2>3. ASSUME NEW t \in State PROVE field.val[t] = FinalCosts[t]
    <3>1. field.val[t] <= FinalCosts[t] /\ FinalCosts[t] <= field.val[t]
      BY <2>1, <2>2 DEF GreatestSolution
    <3>2. field.val[t] \in Nat /\ FinalCosts[t] \in Nat
      BY <2>1, <2>2, ArrayOfValues DEF GreatestSolution
    <3>. QED
      BY <3>1, <3>2
  <2>4. field.val = FinalCosts
    <3>1. field.val \in [State -> Cost] /\ FinalCosts \in [State -> Cost]
      BY <2>1, <2>2 DEF GreatestSolution
    <3>. HIDE DEF FinalCosts
    <3>. QED
      BY <2>3, <3>1
  <2>5. FinalCosts[s] = Original(Map, start).val[s]
    BY DEF FinalCosts
  <2>6. Original(Map, start).act[s] = ArrayPolicy(s, FinalCosts)
    BY DEF OriginalSolves
  <2>. HIDE DEF FinalCosts
  <2>. QED
    BY <2>1, <2>4, <2>5, <2>6
<1>2. Fresh /\ OriginalSolves /\ start' = start => Fresh' /\ OriginalSolves'
  <2>. SUFFICES ASSUME Fresh, OriginalSolves, start' = start PROVE Fresh' /\ OriginalSolves'
    OBVIOUS
  <2>1. Fresh'
    BY DEF Fresh, Updates
  <2>2. FinalCosts' = FinalCosts
    BY DEF FinalCosts
  <2>3. \A v : Solution(v)' = Solution(v)
    BY DEF Solution, Updates, ArrayLeast, ArrayCost
  <2>4. GreatestSolution(FinalCosts)'
    BY <2>2, <2>3 DEF GreatestSolution, OriginalSolves
  <2>5. \A s \in State : ArrayPolicy(s, FinalCosts)' = ArrayPolicy(s, FinalCosts)
    BY <2>2 DEF ArrayPolicy, ArrayLeast, ArrayCost, Updates
  <2>. QED
    BY <2>1, <2>4, <2>5 DEF OriginalSolves
<1>3. [Next]_vars => start' = start
  BY DEF Next, vars, Thread, Claim, Load, Store, Wake, Barrier1, Barrier2, Lead, LeadEngine, Decide, Return
<1>. QED
  BY <1>1, <1>2, <1>3, Solved, PTL DEF Spec
=============================================================================
