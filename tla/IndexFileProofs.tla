-------------------------- MODULE IndexFileProofs --------------------------
(***************************************************************************)
(* Theorems about IndexFile, for all references, leaf sizes and scales.    *)
(***************************************************************************)
EXTENDS IndexFile, TLAPS, WellFoundedInduction, FiniteSetTheorems, SequenceTheorems

-----------------------------------------------------------------------------
(* Induction, over sets of numbers.                                        *)

LEMMA LeastElement ==
  ASSUME NEW T, T \subseteq Nat, T # {}
  PROVE  \E m \in T : \A n \in T : m <= n
<1> DEFINE R == {ss \in Nat \X Nat : ss[1] < ss[2]}
<1>1. IsWellFoundedOn(R, Nat)
  BY NatLessThanWellFounded DEF OpToRel
<1>2. PICK m \in T : \A n \in T : ~(<<n, m>> \in R)
  BY <1>1, WFMin
<1>3. \A n \in T : ~(n < m)
  BY <1>2
<1> QED BY <1>2, <1>3

LEMMA AllNumbers ==
  ASSUME NEW T, 0 \in T, \A n \in Nat : n \in T => n + 1 \in T
  PROVE  \A n \in Nat : n \in T
<1> DEFINE U == {n \in Nat : n \notin T}
<1>1. SUFFICES ASSUME U # {} PROVE FALSE
  OBVIOUS
<1>2. PICK m \in U : \A n \in U : m <= n
  BY <1>1, LeastElement
<1>3. m # 0 /\ m - 1 \in Nat /\ m - 1 \notin U
  BY <1>2
<1> QED BY <1>2, <1>3

-----------------------------------------------------------------------------
(* The descent through the partition tree.                                 *)

(* The nodes that a descent of d steps goes through.                       *)
IsDescent(p, v, d, node) ==
  node = [k \in 0..d |-> IF k = 0 THEN 0
                         ELSE 2 * node[k - 1] + (IF Side(p, v, node[k - 1]) THEN 2 ELSE 1)]

LEMMA DescentExists ==
  ASSUME NEW p, NEW v
  PROVE  \A d \in Nat : \E node : IsDescent(p, v, d, node)
<1> DEFINE T == {d \in Nat : \E node : IsDescent(p, v, d, node)}
<1>1. 0 \in T
  <2> DEFINE g == [k \in 0..0 |-> 0]
  <2>1. IsDescent(p, v, 0, g)
    BY DEF IsDescent
  <2> QED BY <2>1
<1>2. ASSUME NEW d \in Nat, d \in T PROVE d + 1 \in T
  <2>1. PICK node : IsDescent(p, v, d, node)
    BY <1>2
  <2> DEFINE Step(n) == 2 * n + (IF Side(p, v, n) THEN 2 ELSE 1)
             g == [k \in 0..(d + 1) |-> IF k = d + 1 THEN Step(node[d]) ELSE node[k]]
  <2>2. \A k \in 0..d : node[k] = IF k = 0 THEN 0 ELSE Step(node[k - 1])
    BY <2>1 DEF IsDescent
  <2> HIDE DEF Step
  <2>3. \A k \in 0..(d + 1) : g[k] = IF k = 0 THEN 0 ELSE Step(g[k - 1])
    <3> TAKE k \in 0..(d + 1)
    <3>1. CASE k = d + 1
      <4>1. g[k] = Step(node[d]) /\ k - 1 = d /\ d \in 0..(d + 1) /\ d # d + 1 /\ k # 0
        BY <3>1
      <4>2. g[d] = node[d]
        BY <4>1
      <4> QED BY <4>1, <4>2
    <3>2. CASE k # d + 1
      <4>1. k \in 0..d /\ (k # 0 => k - 1 \in 0..d)
        BY <3>2
      <4>2. g[k] = node[k] /\ (k # 0 => g[k - 1] = node[k - 1])
        BY <4>1
      <4> QED BY <2>2, <4>1, <4>2
    <3> QED BY <3>1, <3>2
  <2>4. g = [k \in 0..(d + 1) |-> IF k = 0 THEN 0 ELSE Step(g[k - 1])]
    <3>1. DOMAIN g = 0..(d + 1) /\ g = [k \in 0..(d + 1) |-> g[k]]
      OBVIOUS
    <3> HIDE DEF g
    <3> QED BY <2>3, <3>1
  <2>5. IsDescent(p, v, d + 1, g)
    <3> HIDE DEF g
    <3> QED BY <2>4 DEF IsDescent, Step
  <2> HIDE DEF g
  <2> QED BY <2>5
<1> HIDE DEF T
<1>3. \A d \in Nat : d \in T
  BY <1>1, <1>2, AllNumbers
<1> QED BY <1>3 DEF T

(* The two descents go through the same nodes as far as the shorter goes.  *)
LEMMA DescentsAgree ==
  ASSUME NEW p, NEW v, NEW d \in Nat, NEW e \in Nat, d <= e,
         NEW a, IsDescent(p, v, d, a), NEW b, IsDescent(p, v, e, b)
  PROVE  a[d] = b[d]
<1> DEFINE Step(n) == 2 * n + (IF Side(p, v, n) THEN 2 ELSE 1)
           T == {k \in Nat : k <= d => a[k] = b[k]}
<1>1. /\ \A k \in 0..d : a[k] = IF k = 0 THEN 0 ELSE Step(a[k - 1])
      /\ \A k \in 0..e : b[k] = IF k = 0 THEN 0 ELSE Step(b[k - 1])
  BY DEF IsDescent
<1> HIDE DEF Step
<1>2. 0 \in T
  BY <1>1
<1>3. ASSUME NEW k \in Nat, k \in T PROVE k + 1 \in T
  <2>1. CASE k + 1 <= d
    <3>1. k + 1 \in 0..d /\ k + 1 \in 0..e /\ k + 1 # 0 /\ (k + 1) - 1 = k /\ k <= d
      BY <2>1
    <3>2. a[k] = b[k]
      BY <1>3, <3>1
    <3> QED BY <1>1, <3>1, <3>2
  <2> QED BY <2>1
<1> HIDE DEF T
<1>4. d \in T
  BY <1>2, <1>3, AllNumbers
<1> QED BY <1>4 DEF T

LEMMA NodeAtSteps ==
  ASSUME NEW p, NEW v
  PROVE  /\ NodeAt(p, v, 0) = 0
         /\ \A d \in Nat : NodeAt(p, v, d + 1) = 2 * NodeAt(p, v, d)
                             + (IF Side(p, v, NodeAt(p, v, d)) THEN 2 ELSE 1)
<1>1. ASSUME NEW d \in Nat PROVE \E node : IsDescent(p, v, d, node) /\ NodeAt(p, v, d) = node[d]
  <2> DEFINE node == CHOOSE g : IsDescent(p, v, d, g)
  <2>1. IsDescent(p, v, d, node)
    BY <1>1, DescentExists
  <2>2. NodeAt(p, v, d) = node[d]
    BY Zenon DEF NodeAt, IsDescent
  <2> QED BY <2>1, <2>2
<1>2. NodeAt(p, v, 0) = 0
  <2>1. PICK a : IsDescent(p, v, 0, a) /\ NodeAt(p, v, 0) = a[0]
    BY <1>1
  <2> QED BY <2>1 DEF IsDescent
<1>3. ASSUME NEW d \in Nat
      PROVE  NodeAt(p, v, d + 1) = 2 * NodeAt(p, v, d)
                                     + (IF Side(p, v, NodeAt(p, v, d)) THEN 2 ELSE 1)
  <2>1. PICK a : IsDescent(p, v, d, a) /\ NodeAt(p, v, d) = a[d]
    BY <1>1
  <2>2. PICK b : IsDescent(p, v, d + 1, b) /\ NodeAt(p, v, d + 1) = b[d + 1]
    BY <1>1
  <2>3. a[d] = b[d]
    BY <2>1, <2>2, DescentsAgree
  <2>4. b[d + 1] = 2 * b[d] + (IF Side(p, v, b[d]) THEN 2 ELSE 1)
    BY <2>2 DEF IsDescent
  <2> QED BY <2>1, <2>2, <2>3, <2>4
<1> QED BY <1>2, <1>3

LEMMA NodeAtNat ==
  ASSUME NEW p, NEW v
  PROVE  \A d \in Nat : NodeAt(p, v, d) \in Nat
<1> DEFINE T == {d \in Nat : NodeAt(p, v, d) \in Nat}
<1>1. 0 \in T
  BY NodeAtSteps
<1>2. ASSUME NEW d \in Nat, d \in T PROVE d + 1 \in T
  <2>1. NodeAt(p, v, d + 1) = 2 * NodeAt(p, v, d)
                                + (IF Side(p, v, NodeAt(p, v, d)) THEN 2 ELSE 1)
    BY NodeAtSteps
  <2>2. NodeAt(p, v, d) \in Nat
    BY <1>2
  <2> QED BY <2>1, <2>2
<1> HIDE DEF T
<1>3. \A d \in Nat : d \in T
  BY <1>1, <1>2, AllNumbers
<1> QED BY <1>3 DEF T

(* The first node of a level: where nobody takes the right side.           *)
Leftmost(d) == NodeAt(<< >>, << >>, d)

LEMMA LeftmostSteps ==
  /\ Leftmost(0) = 0
  /\ \A d \in Nat : Leftmost(d) \in Nat /\ Leftmost(d + 1) = 2 * Leftmost(d) + 1
<1>1. \A n : ~Side(<< >>, << >>, n)
  BY DEF Side
<1>2. \A d \in Nat : Leftmost(d + 1) = 2 * Leftmost(d) + 1
  BY <1>1, NodeAtSteps DEF Leftmost
<1>3. Leftmost(0) = 0 /\ \A d \in Nat : Leftmost(d) \in Nat
  BY NodeAtSteps, NodeAtNat DEF Leftmost
<1> QED BY <1>2, <1>3

LEMMA LevelsAscend ==
  ASSUME NEW d \in Nat
  PROVE  \A e \in Nat : d < e => 2 * Leftmost(d) < Leftmost(e)
<1> DEFINE T == {e \in Nat : d < e => 2 * Leftmost(d) < Leftmost(e)}
<1>1. 0 \in T
  OBVIOUS
<1>2. ASSUME NEW e \in Nat, e \in T PROVE e + 1 \in T
  <2>1. Leftmost(d) \in Nat /\ Leftmost(e) \in Nat /\ Leftmost(e + 1) = 2 * Leftmost(e) + 1
    BY LeftmostSteps
  <2>2. CASE d = e
    BY <2>1, <2>2
  <2>3. CASE d < e
    <3>1. 2 * Leftmost(d) < Leftmost(e)
      BY <1>2, <2>3
    <3> QED BY <2>1, <3>1
  <2>4. CASE ~(d < e + 1)
    BY <2>4
  <2> QED BY <2>2, <2>3, <2>4
<1> HIDE DEF T
<1>3. \A e \in Nat : e \in T
  BY <1>1, <1>2, AllNumbers
<1> QED BY <1>3 DEF T

(* A descent is, after d steps, in level d.                                *)
LEMMA NodeInItsLevel ==
  ASSUME NEW p, NEW v
  PROVE  \A d \in Nat : Leftmost(d) <= NodeAt(p, v, d) /\ NodeAt(p, v, d) <= 2 * Leftmost(d)
<1> DEFINE T == {d \in Nat : Leftmost(d) <= NodeAt(p, v, d) /\ NodeAt(p, v, d) <= 2 * Leftmost(d)}
<1>1. 0 \in T
  <2>1. NodeAt(p, v, 0) = 0 /\ Leftmost(0) = 0
    BY NodeAtSteps, LeftmostSteps
  <2> QED BY <2>1
<1>2. ASSUME NEW d \in Nat, d \in T PROVE d + 1 \in T
  <2>1. NodeAt(p, v, d + 1) = 2 * NodeAt(p, v, d)
                                + (IF Side(p, v, NodeAt(p, v, d)) THEN 2 ELSE 1)
    BY NodeAtSteps
  <2>2. Leftmost(d) \in Nat /\ Leftmost(d + 1) = 2 * Leftmost(d) + 1 /\ NodeAt(p, v, d) \in Nat
    BY LeftmostSteps, NodeAtNat
  <2>3. Leftmost(d) <= NodeAt(p, v, d) /\ NodeAt(p, v, d) <= 2 * Leftmost(d)
    BY <1>2
  <2> QED BY <2>1, <2>2, <2>3
<1> HIDE DEF T
<1>3. \A d \in Nat : d \in T
  BY <1>1, <1>2, AllNumbers
<1> QED BY <1>3 DEF T

(* A node is reached after one number of steps only.                       *)
LEMMA LevelsAreDisjoint ==
  ASSUME NEW p, NEW v, NEW q, NEW w, NEW d \in Nat, NEW e \in Nat,
         NodeAt(p, v, d) = NodeAt(q, w, e)
  PROVE  d = e
<1>1. /\ Leftmost(d) <= NodeAt(p, v, d) /\ NodeAt(p, v, d) <= 2 * Leftmost(d)
      /\ Leftmost(e) <= NodeAt(q, w, e) /\ NodeAt(q, w, e) <= 2 * Leftmost(e)
  BY NodeInItsLevel
<1>2. (d < e => 2 * Leftmost(d) < Leftmost(e)) /\ (e < d => 2 * Leftmost(e) < Leftmost(d))
  BY LevelsAscend
<1>3. Leftmost(d) \in Nat /\ Leftmost(e) \in Nat /\ NodeAt(p, v, d) \in Nat
  BY LeftmostSteps, NodeAtNat
<1> QED BY <1>1, <1>2, <1>3

(* A predicate changes no descent before its own node.                     *)
LEMMA DescentUnchanged ==
  ASSUME NEW p, NEW q, NEW v, NEW m, NEW e \in Nat,
         \A n : n # m => (Side(p, v, n) <=> Side(q, v, n)),
         \A k \in 0..(e - 1) : NodeAt(p, v, k) # m
  PROVE  NodeAt(p, v, e) = NodeAt(q, v, e)
<1> DEFINE T == {k \in Nat : k <= e => NodeAt(p, v, k) = NodeAt(q, v, k)}
<1>1. 0 \in T
  BY NodeAtSteps
<1>2. ASSUME NEW k \in Nat, k \in T PROVE k + 1 \in T
  <2>1. SUFFICES ASSUME k + 1 <= e PROVE NodeAt(p, v, k + 1) = NodeAt(q, v, k + 1)
    OBVIOUS
  <2>2. NodeAt(p, v, k) = NodeAt(q, v, k) /\ k \in 0..(e - 1)
    BY <1>2, <2>1
  <2>3. Side(p, v, NodeAt(p, v, k)) <=> Side(q, v, NodeAt(q, v, k))
    BY <2>2
  <2>4. /\ NodeAt(p, v, k + 1) = 2 * NodeAt(p, v, k) + (IF Side(p, v, NodeAt(p, v, k)) THEN 2 ELSE 1)
        /\ NodeAt(q, v, k + 1) = 2 * NodeAt(q, v, k) + (IF Side(q, v, NodeAt(q, v, k)) THEN 2 ELSE 1)
    BY NodeAtSteps
  <2> QED BY <2>2, <2>3, <2>4
<1> HIDE DEF T
<1>3. e \in T
  BY <1>1, <1>2, AllNumbers
<1> QED BY <1>3 DEF T

-----------------------------------------------------------------------------
(* Training.                                                               *)

Call == [node : Nat, depth : Nat, queries : SUBSET Nat]

(* No vector comes to both nodes, whatever the predicates.                 *)
Apart(a, b) ==
  \A p, v : ~(NodeAt(p, v, a.depth) = a.node /\ NodeAt(p, v, b.depth) = b.node)

CallsApart(calls) == \A j, k \in DOMAIN calls : j # k => Apart(calls[j], calls[k])

TrainingInv == work \in Seq(Call) /\ TrainedOnItsQueries /\ CallsApart(work)

LEMMA FirstReplacedByTwo ==
  ASSUME NEW C, NEW s \in Seq(C), s # << >>, NEW a \in C, NEW b \in C,
         NEW t, t = <<a, b>> \o Tail(s)
  PROVE  /\ t \in Seq(C) /\ Len(t) = Len(s) + 1
         /\ t[1] = a /\ t[2] = b
         /\ \A k \in 3..Len(t) : k - 1 \in 2..Len(s) /\ t[k] = s[k - 1]
<1>1. /\ Tail(s) \in Seq(C) /\ Len(Tail(s)) = Len(s) - 1
      /\ \A k \in 1..Len(Tail(s)) : Tail(s)[k] = s[k + 1]
  OBVIOUS
<1>2. <<a, b>> \in Seq(C) /\ Len(<<a, b>>) = 2 /\ <<a, b>>[1] = a /\ <<a, b>>[2] = b
  OBVIOUS
<1>3. /\ t \in Seq(C) /\ Len(t) = 2 + Len(Tail(s))
      /\ \A k \in 1..Len(t) : t[k] = IF k <= 2 THEN <<a, b>>[k] ELSE Tail(s)[k - 2]
  BY <1>1, <1>2, ConcatProperties
<1>4. Len(s) \in Nat /\ Len(s) >= 1
  OBVIOUS
<1>5. ASSUME NEW k \in 3..Len(t) PROVE k - 1 \in 2..Len(s) /\ t[k] = s[k - 1]
  <2>1. k \in 1..Len(t) /\ ~(k <= 2) /\ k - 2 \in 1..Len(Tail(s)) /\ (k - 2) + 1 = k - 1 /\ k - 1 \in 2..Len(s)
    BY <1>1, <1>3, <1>4
  <2>2. t[k] = Tail(s)[k - 2]
    BY <2>1, <1>3
  <2> QED BY <2>1, <2>2, <1>1
<1>6. 1 \in 1..Len(t) /\ 2 \in 1..Len(t)
  BY <1>1, <1>3, <1>4
<1>7. t[1] = a /\ t[2] = b
  BY <1>2, <1>3, <1>6
<1> QED BY <1>1, <1>3, <1>4, <1>5, <1>7

(* The child of a node is reached through it.                              *)
LEMMA ThroughTheParent ==
  ASSUME NEW p, NEW v, NEW d \in Nat, NEW m \in Nat, NEW c \in {1, 2},
         NodeAt(p, v, d + 1) = 2 * m + c
  PROVE  NodeAt(p, v, d) = m /\ (Side(p, v, m) <=> c = 2)
<1>1. NodeAt(p, v, d + 1) = 2 * NodeAt(p, v, d) + (IF Side(p, v, NodeAt(p, v, d)) THEN 2 ELSE 1)
  BY NodeAtSteps
<1>2. NodeAt(p, v, d) \in Nat
  BY NodeAtNat
<1> QED BY <1>1, <1>2

LEMMA ChildrenApart ==
  ASSUME NEW a \in Call, NEW b, Apart(a, b),
         NEW c, NEW side \in {1, 2}, c.depth = a.depth + 1, c.node = 2 * a.node + side
  PROVE  Apart(c, b)
<1>1. SUFFICES ASSUME NEW p, NEW v, NodeAt(p, v, c.depth) = c.node, NodeAt(p, v, b.depth) = b.node
               PROVE  FALSE
  BY DEF Apart
<1>2. a.depth \in Nat /\ a.node \in Nat /\ NodeAt(p, v, a.depth + 1) = 2 * a.node + side
  BY <1>1 DEF Call
<1>3. NodeAt(p, v, a.depth) = a.node
  BY <1>2, ThroughTheParent
<1> QED BY <1>1, <1>3 DEF Apart

LEMMA LoadTrains ==
  ASSUME TrainingInv, Load
  PROVE  TrainingInv'
<1>1. PICK in \in Inputs[run] :
        LET refs == [i \in DOMAIN in.rows |-> ReferenceOf(in.rows[i], in.scale)]
            learns == Len(refs) >= K + 1 /\ KeyBits > 0
        IN  IF WellFormed(in.rows)
            THEN /\ phase' = "train"
                 /\ input' = [refs |-> refs, leafSize |-> ClampLeaf(in.leafSize), scale |-> in.scale]
                 /\ tree' = IF learns THEN [n \in 0..(LevelSize(KeyBits) - 2) |-> Disabled] ELSE << >>
                 /\ work' = IF learns
                            THEN <<[node |-> 0, depth |-> 0, queries |-> Sampled(Len(refs))]>>
                            ELSE << >>
            ELSE phase' = "failed" /\ UNCHANGED <<input, tree, work>>
  BY Zenon DEF Load
<1>2. CASE UNCHANGED <<input, tree, work>>
  BY <1>2 DEF TrainingInv, TrainedOnItsQueries, CallsApart
<1>3. CASE work' = << >>
  BY <1>3 DEF TrainingInv, TrainedOnItsQueries, CallsApart
<1>4. CASE work' = <<[node |-> 0, depth |-> 0, queries |-> Sampled(Len(input.refs)')]>>
  <2>1. Sampled(Len(input.refs)') \subseteq Nat
    BY DEF Sampled
  <2>2. DOMAIN work' = {1}
    BY <1>4
  <2>3. work'[1].node = 0 /\ work'[1].depth = 0 /\ work'[1].queries = Sampled(Len(input.refs)')
    BY <1>4
  <2>4. \A v : NodeAt(tree', v, 0) = 0
    BY NodeAtSteps
  <2>5. TrainedOnItsQueries'
    BY <2>2, <2>3, <2>4 DEF TrainedOnItsQueries
  <2>6. work' \in Seq(Call)
    BY <1>4, <2>1 DEF Call
  <2>7. CallsApart(work')
    BY <2>2 DEF CallsApart
  <2> QED BY <2>5, <2>6, <2>7 DEF TrainingInv
<1>5. \/ UNCHANGED <<input, tree, work>>
      \/ work' = << >>
      \/ work' = <<[node |-> 0, depth |-> 0, queries |-> Sampled(Len(input.refs)')]>>
  BY <1>1
<1> QED BY <1>2, <1>3, <1>4, <1>5

LEMMA SkipTrains ==
  ASSUME TrainingInv, SkipNode
  PROVE  TrainingInv'
<1>1. work \in Seq(Call) /\ work # << >> /\ work' = Tail(work) /\ tree' = tree /\ input' = input
  BY DEF TrainingInv, SkipNode
<1>2. /\ work' \in Seq(Call)
      /\ \A k \in DOMAIN work' : k + 1 \in DOMAIN work /\ work'[k] = work[k + 1]
  BY <1>1
<1>3. TrainedOnItsQueries'
  BY <1>1, <1>2 DEF TrainingInv, TrainedOnItsQueries
<1>4. \A k \in DOMAIN work' : k \in Nat
  BY <1>2
<1>5. CallsApart(work')
  BY <1>2, <1>4 DEF TrainingInv, CallsApart
<1> QED BY <1>2, <1>3, <1>5 DEF TrainingInv

LEMMA TrainTrains ==
  ASSUME TrainingInv, TrainNode
  PROVE  TrainingInv'
<1> DEFINE call == work[1]
           m == call.node
           e == call.depth
           vec(i) == input.refs[i].vector
           S == Sampled(Len(input.refs))
<1>1. PICK p \in Eligible(input.refs, work[1].queries) :
        /\ tree' = [tree EXCEPT ![work[1].node] = p]
        /\ work' = <<[node |-> 2 * work[1].node + 1, depth |-> work[1].depth + 1,
                      queries |-> Left(input.refs, work[1].queries, p)],
                     [node |-> 2 * work[1].node + 2, depth |-> work[1].depth + 1,
                      queries |-> Right(input.refs, work[1].queries, p)]>> \o Tail(work)
  BY Zenon DEF TrainNode
<1>2. /\ work \in Seq(Call) /\ work # << >> /\ Trains(work[1]) /\ input' = input
  BY DEF TrainNode, TrainingInv
<1>3. call \in Call /\ 1 \in DOMAIN work
  BY <1>2
<1>4. m \in Nat /\ e \in Nat /\ m \in DOMAIN tree /\ call.queries \subseteq Nat
  BY <1>2, <1>3 DEF Trains, Call
<1>5. p.enabled = TRUE
  BY DEF Eligible, Candidates
<1>6. call.queries = {i \in S : NodeAt(tree, vec(i), e) = m}
  BY <1>3 DEF TrainingInv, TrainedOnItsQueries
<1>7. PICK q \in call.queries : TRUE
  <2>1. call.queries # {}
    <3>1. Cardinality(call.queries) >= 8
      BY <1>2 DEF Trains
    <3>2. Cardinality({}) = 0
      BY FS_EmptySet
    <3> QED BY <3>1, <3>2
  <2> QED BY <2>1
<1>8. NodeAt(tree, vec(q), e) = m
  BY <1>6, <1>7
<1>9. /\ DOMAIN tree' = DOMAIN tree /\ tree'[m] = p
      /\ \A n \in DOMAIN tree : n # m => tree'[n] = tree[n]
  BY <1>1, <1>4
(* How the new predicate changes the descents.                             *)
<1>10. \A v, n : n # m => (Side(tree, v, n) <=> Side(tree', v, n))
  BY <1>9 DEF Side
<1>11. \A v : Side(tree', v, m) <=> v[p.dim] > p.threshold
  BY <1>4, <1>5, <1>9 DEF Side
<1> HIDE DEF call, m, e, vec, S
<1>12. ASSUME NEW v, NEW k \in Nat, k # e PROVE NodeAt(tree, v, k) # m
  BY <1>4, <1>8, <1>12, LevelsAreDisjoint
<1>13. ASSUME NEW v, NEW d \in Nat, d <= e PROVE NodeAt(tree', v, d) = NodeAt(tree, v, d)
  <2>1. \A k \in 0..(d - 1) : NodeAt(tree, v, k) # m
    <3>1. \A k \in 0..(d - 1) : k \in Nat /\ k # e
      BY <1>4, <1>13
    <3> QED BY <3>1, <1>12
  <2>2. \A n : n # m => (Side(tree, v, n) <=> Side(tree', v, n))
    BY <1>10
  <2> QED BY <2>1, <2>2, DescentUnchanged
<1>14. ASSUME NEW v, NEW d \in Nat, NodeAt(tree, v, e) # m
       PROVE  NodeAt(tree', v, d) = NodeAt(tree, v, d)
  <2>1. \A k \in 0..(d - 1) : NodeAt(tree, v, k) # m
    <3>1. \A k \in 0..(d - 1) : k \in Nat
      OBVIOUS
    <3> QED BY <3>1, <1>12, <1>14
  <2>2. \A n : n # m => (Side(tree, v, n) <=> Side(tree', v, n))
    BY <1>10
  <2> QED BY <2>1, <2>2, DescentUnchanged
(* The calls that follow.                                                  *)
<1> DEFINE QL == Left(input.refs, call.queries, p)
           QR == Right(input.refs, call.queries, p)
           cl == [node |-> 2 * m + 1, depth |-> e + 1, queries |-> QL]
           cr == [node |-> 2 * m + 2, depth |-> e + 1, queries |-> QR]
<1>15. QR = {i \in call.queries : vec(i)[p.dim] > p.threshold} /\ QL = call.queries \ QR
  BY DEF Left, Right, vec
<1>16. cl \in Call /\ cr \in Call
  <2>1. QR \subseteq Nat /\ QL \subseteq Nat
    BY <1>15, <1>4
  <2> HIDE DEF QL, QR
  <2> QED BY <2>1, <1>4 DEF Call
<1>17. work' = <<cl, cr>> \o Tail(work)
  BY <1>1 DEF call, m, e
<1>18. /\ cl.node = 2 * m + 1 /\ cl.depth = e + 1 /\ cl.queries = QL
       /\ cr.node = 2 * m + 2 /\ cr.depth = e + 1 /\ cr.queries = QR
  OBVIOUS
<1> HIDE DEF QL, QR, cl, cr
<1>19. /\ work' \in Seq(Call) /\ Len(work') = Len(work) + 1
       /\ work'[1] = cl /\ work'[2] = cr
       /\ \A k \in 3..Len(work') : k - 1 \in 2..Len(work) /\ work'[k] = work[k - 1]
  BY <1>2, <1>16, <1>17, FirstReplacedByTwo
<1>20. ASSUME NEW i \in S
       PROVE  /\ NodeAt(tree', vec(i), e + 1) = 2 * m + 1
                   <=> NodeAt(tree, vec(i), e) = m /\ ~(vec(i)[p.dim] > p.threshold)
              /\ NodeAt(tree', vec(i), e + 1) = 2 * m + 2
                   <=> NodeAt(tree, vec(i), e) = m /\ vec(i)[p.dim] > p.threshold
  <2>1. NodeAt(tree', vec(i), e) = NodeAt(tree, vec(i), e)
    BY <1>4, <1>13
  <2>2. NodeAt(tree', vec(i), e + 1)
          = 2 * NodeAt(tree', vec(i), e) + (IF Side(tree', vec(i), NodeAt(tree', vec(i), e)) THEN 2 ELSE 1)
    BY <1>4, NodeAtSteps
  <2>3. NodeAt(tree', vec(i), e) \in Nat
    BY <1>4, NodeAtNat
  <2>4. Side(tree', vec(i), m) <=> vec(i)[p.dim] > p.threshold
    BY <1>11
  <2>5. CASE NodeAt(tree, vec(i), e) = m /\ vec(i)[p.dim] > p.threshold
    BY <1>4, <2>1, <2>2, <2>4, <2>5
  <2>6. CASE NodeAt(tree, vec(i), e) = m /\ ~(vec(i)[p.dim] > p.threshold)
    BY <1>4, <2>1, <2>2, <2>4, <2>6
  <2>7. CASE NodeAt(tree, vec(i), e) # m
    <3>1. \A c \in {1, 2} : NodeAt(tree', vec(i), e + 1) # 2 * m + c
      BY SMTT(30), <1>4, <2>1, <2>7, ThroughTheParent
    <3> QED BY <2>7, <3>1
  <2> QED BY <2>5, <2>6, <2>7
<1>21. /\ QL = {i \in S : NodeAt(tree', vec(i), e + 1) = 2 * m + 1}
       /\ QR = {i \in S : NodeAt(tree', vec(i), e + 1) = 2 * m + 2}
  <2>1. \A i : i \in call.queries <=> i \in S /\ NodeAt(tree, vec(i), e) = m
    BY <1>6
  <2> QED BY <2>1, <1>15, <1>20
<1>22. ASSUME NEW k \in 2..Len(work) PROVE Apart(work[1], work[k]) /\ work[k] \in Call
  <2>1. k \in DOMAIN work /\ k # 1
    BY <1>2
  <2> QED BY <2>1, <1>2, <1>3 DEF TrainingInv, CallsApart
<1>23. ASSUME NEW k \in 2..Len(work), NEW v
       PROVE  NodeAt(tree', v, work[k].depth) = work[k].node
                <=> NodeAt(tree, v, work[k].depth) = work[k].node
  <2>1. Apart(call, work[k]) /\ work[k].depth \in Nat
    BY <1>22 DEF call, Call
  <2>2. CASE NodeAt(tree, v, e) # m
    BY <2>1, <2>2, <1>14
  <2>3. CASE NodeAt(tree, v, e) = m
    <3>1. NodeAt(tree', v, e) = m
      BY <2>3, <1>4, <1>13
    <3>2. NodeAt(tree, v, work[k].depth) # work[k].node
      BY <2>1, <2>3 DEF Apart, m, e
    <3>3. NodeAt(tree', v, work[k].depth) # work[k].node
      BY <2>1, <3>1 DEF Apart, m, e
    <3> QED BY <3>2, <3>3
  <2> QED BY <2>2, <2>3
<1>24. TrainedOnItsQueries'
  <2>1. DOMAIN work' = 1..Len(work') /\ Len(work') \in Nat /\ Len(work) \in Nat
    BY <1>19, <1>2
  <2>2. SUFFICES ASSUME NEW k \in 1..Len(work')
                 PROVE  work'[k].queries = {i \in S : NodeAt(tree', vec(i), work'[k].depth) = work'[k].node}
    BY <1>2, <2>1 DEF TrainedOnItsQueries, S, vec
  <2>3. CASE k = 1
    BY <2>3, <1>18, <1>19, <1>21
  <2>4. CASE k = 2
    BY <2>4, <1>18, <1>19, <1>21
  <2>5. CASE k \in 3..Len(work')
    <3>1. k - 1 \in 2..Len(work) /\ work'[k] = work[k - 1]
      BY <2>5, <1>19
    <3>2. k - 1 \in DOMAIN work
      BY <3>1, <1>2
    <3>3. work[k - 1].queries = {i \in S : NodeAt(tree, vec(i), work[k - 1].depth) = work[k - 1].node}
      BY <3>2 DEF TrainingInv, TrainedOnItsQueries, S, vec
    <3> QED BY <3>1, <3>3, <1>23
  <2> QED BY <2>1, <2>3, <2>4, <2>5
<1>25. CallsApart(work')
  <2>1. DOMAIN work' = 1..Len(work') /\ Len(work') \in Nat /\ Len(work) \in Nat
    BY <1>19, <1>2
  <2>2. Apart(cl, cr)
    BY <1>4, <1>18 DEF Apart
  <2>3. ASSUME NEW k \in 2..Len(work) PROVE Apart(cl, work[k]) /\ Apart(cr, work[k])
    <3>1. Apart(call, work[k])
      BY <1>22 DEF call
    <3>2. cl.depth = call.depth + 1 /\ cl.node = 2 * call.node + 1
      BY <1>18 DEF m, e
    <3>3. cr.depth = call.depth + 1 /\ cr.node = 2 * call.node + 2
      BY <1>18 DEF m, e
    <3>4. Apart(cl, work[k])
      BY <1>3, <3>1, <3>2, ChildrenApart
    <3>5. Apart(cr, work[k])
      BY <1>3, <3>1, <3>3, ChildrenApart
    <3> QED BY <3>4, <3>5
  <2>4. \A a, b : Apart(a, b) => Apart(b, a)
    BY DEF Apart
  <2>5. SUFFICES ASSUME NEW j \in 1..Len(work'), NEW k \in 1..Len(work'), j < k
                 PROVE  Apart(work'[j], work'[k])
    BY <2>1, <2>4 DEF CallsApart
  <2>6. CASE k = 2
    BY <2>2, <2>5, <2>6, <1>19
  <2>7. CASE k \in 3..Len(work') /\ j \in {1, 2}
    <3>1. k - 1 \in 2..Len(work) /\ work'[k] = work[k - 1] /\ work'[j] \in {cl, cr}
      BY <2>7, <1>19
    <3> QED BY <3>1, <2>3
  <2>8. CASE k \in 3..Len(work') /\ j \in 3..Len(work')
    <3>1. /\ k - 1 \in 2..Len(work) /\ work'[k] = work[k - 1]
          /\ j - 1 \in 2..Len(work) /\ work'[j] = work[j - 1] /\ j - 1 # k - 1
      BY <2>5, <2>8, <1>19
    <3>2. k - 1 \in DOMAIN work /\ j - 1 \in DOMAIN work
      BY <3>1, <1>2
    <3> QED BY <3>1, <3>2 DEF TrainingInv, CallsApart
  <2> QED BY <2>1, <2>5, <2>6, <2>7, <2>8
<1> QED BY <1>19, <1>24, <1>25 DEF TrainingInv

(* Training: a call is trained on the queries that the finished descent    *)
(* brings to its node (TrainedOnItsQueries), whichever predicates are      *)
(* chosen on the way: the descents of two pending calls never meet, so the *)
(* predicate of one changes none of the other.                             *)
THEOREM TrainingIsFaithful == Spec => []TrainedOnItsQueries
<1>1. Init => TrainingInv
  BY DEF Init, TrainingInv, TrainedOnItsQueries, CallsApart
<1>2. TrainingInv /\ [Next]_vars => TrainingInv'
  <2>1. SUFFICES ASSUME TrainingInv, [Next]_vars PROVE TrainingInv'
    OBVIOUS
  <2>2. CASE UNCHANGED <<input, tree, work>>
    BY <2>1, <2>2 DEF TrainingInv, TrainedOnItsQueries, CallsApart
  <2>3. CASE RunAgain
    BY <2>3 DEF RunAgain, TrainingInv, TrainedOnItsQueries, CallsApart
  <2>4. CASE Load
    BY <2>1, <2>4, LoadTrains
  <2>5. CASE SkipNode
    BY <2>1, <2>5, SkipTrains
  <2>6. CASE TrainNode
    BY <2>1, <2>6, TrainTrains
  <2>7. \/ UNCHANGED vars \/ Load \/ SkipNode \/ TrainNode \/ BuildPartition \/ CreateFile
        \/ WriteSome \/ RunAgain \/ Open \/ Stop
    BY <2>1, Zenon DEF Next
  <2>8. UNCHANGED vars \/ BuildPartition \/ CreateFile \/ WriteSome \/ Open \/ Stop
          => UNCHANGED <<input, tree, work>>
    BY Zenon DEF vars, BuildPartition, CreateFile, WriteSome, Open, Stop
  <2> QED BY <2>2, <2>3, <2>4, <2>5, <2>6, <2>7, <2>8
<1>3. TrainingInv => TrainedOnItsQueries
  BY DEF TrainingInv
<1> QED BY <1>1, <1>2, <1>3, PTL DEF Spec

-----------------------------------------------------------------------------
(* Finite sets of numbers, in their order.                                 *)

LEMMA CardinalityIsNat ==
  ASSUME NEW V, IsFiniteSet(V)
  PROVE  Cardinality(V) \in Nat
  BY FS_CardinalityType

LEMMA LeastExists ==
  ASSUME NEW V, V \subseteq Int, IsFiniteSet(V), V # {}
  PROVE  \E m \in V : \A y \in V : m <= y
<1> DEFINE Has(W) == \E m \in W : \A y \in W : m <= y
           T == {n \in Nat : \A W \in SUBSET V : Cardinality(W) = n /\ W # {} => Has(W)}
<1>1. \A W \in SUBSET V : IsFiniteSet(W) /\ Cardinality(W) \in Nat
  BY FS_Subset, FS_CardinalityType
<1>2. 0 \in T
  <2>1. \A W \in SUBSET V : Cardinality(W) = 0 => W = {}
    BY <1>1, FS_EmptySet
  <2> QED BY <2>1
<1>3. ASSUME NEW n \in Nat, n \in T PROVE n + 1 \in T
  <2>1. SUFFICES ASSUME NEW W \in SUBSET V, Cardinality(W) = n + 1, W # {} PROVE Has(W)
    OBVIOUS
  <2>2. PICK x \in W : TRUE
    BY <2>1
  <2>3. Cardinality(W \ {x}) = n
    BY <1>1, <2>1, <2>2, FS_RemoveElement
  <2>4. CASE W \ {x} = {}
    <3>1. \A y \in W : y = x
      BY <2>4
    <3>2. x \in Int
      BY <2>2
    <3> QED BY <2>2, <3>1, <3>2
  <2>5. CASE W \ {x} # {}
    <3>1. W \ {x} \in SUBSET V
      OBVIOUS
    <3>2. Has(W \ {x})
      BY <1>3, <2>3, <2>5, <3>1
    <3>3. PICK m \in W \ {x} : \A y \in W \ {x} : m <= y
      BY <3>2
    <3>4. m \in Int /\ x \in Int /\ W \subseteq Int
      BY <2>2, <3>3
    <3>5. CASE m <= x
      BY <3>3, <3>4, <3>5
    <3>6. CASE x < m
      <4>1. \A y \in W : x <= y
        BY <3>3, <3>4, <3>6
      <4> QED BY <4>1, <2>2
    <3> QED BY <3>4, <3>5, <3>6
  <2> QED BY <2>4, <2>5
<1> HIDE DEF T
<1>4. Cardinality(V) \in T
  BY <1>1, <1>2, <1>3, AllNumbers
<1> QED BY <1>4 DEF T

LEMMA GreatestExists ==
  ASSUME NEW V, V \subseteq Int, IsFiniteSet(V), V # {}
  PROVE  \E m \in V : \A y \in V : y <= m
<1> DEFINE Has(W) == \E m \in W : \A y \in W : y <= m
           T == {n \in Nat : \A W \in SUBSET V : Cardinality(W) = n /\ W # {} => Has(W)}
<1>1. \A W \in SUBSET V : IsFiniteSet(W) /\ Cardinality(W) \in Nat
  BY FS_Subset, FS_CardinalityType
<1>2. 0 \in T
  <2>1. \A W \in SUBSET V : Cardinality(W) = 0 => W = {}
    BY <1>1, FS_EmptySet
  <2> QED BY <2>1
<1>3. ASSUME NEW n \in Nat, n \in T PROVE n + 1 \in T
  <2>1. SUFFICES ASSUME NEW W \in SUBSET V, Cardinality(W) = n + 1, W # {} PROVE Has(W)
    OBVIOUS
  <2>2. PICK x \in W : TRUE
    BY <2>1
  <2>3. Cardinality(W \ {x}) = n
    BY <1>1, <2>1, <2>2, FS_RemoveElement
  <2>4. CASE W \ {x} = {}
    <3>1. \A y \in W : y = x
      BY <2>4
    <3>2. x \in Int
      BY <2>2
    <3> QED BY <2>2, <3>1, <3>2
  <2>5. CASE W \ {x} # {}
    <3>1. W \ {x} \in SUBSET V
      OBVIOUS
    <3>2. Has(W \ {x})
      BY <1>3, <2>3, <2>5, <3>1
    <3>3. PICK m \in W \ {x} : \A y \in W \ {x} : y <= m
      BY <3>2
    <3>4. m \in Int /\ x \in Int /\ W \subseteq Int
      BY <2>2, <3>3
    <3>5. CASE x <= m
      BY <3>3, <3>4, <3>5
    <3>6. CASE m < x
      <4>1. \A y \in W : y <= x
        BY <3>3, <3>4, <3>6
      <4> QED BY <4>1, <2>2
    <3> QED BY <3>4, <3>5, <3>6
  <2> QED BY <2>4, <2>5
<1> HIDE DEF T
<1>4. Cardinality(V) \in T
  BY <1>1, <1>2, <1>3, AllNumbers
<1> QED BY <1>4 DEF T

Below(V, x) == {y \in V : y < x}

(* Larger elements have more below them.                                   *)
LEMMA BelowGrows ==
  ASSUME NEW V, V \subseteq Int, IsFiniteSet(V), NEW a \in V, NEW b \in V, a < b
  PROVE  /\ Cardinality(Below(V, a)) \in Nat /\ Cardinality(Below(V, b)) \in Nat
         /\ Cardinality(Below(V, a)) < Cardinality(Below(V, b))
         /\ Cardinality(Below(V, b)) < Cardinality(V)
<1>0. /\ \A y \in V : y \in Int
      /\ \A x, y : y \in Below(V, x) <=> y \in V /\ y < x
  BY DEF Below
<1>1. /\ Below(V, a) \subseteq Below(V, b) /\ Below(V, a) # Below(V, b)
      /\ Below(V, b) \subseteq V /\ Below(V, b) # V
  <2>1. a \in Below(V, b) /\ a \notin Below(V, a) /\ b \notin Below(V, b)
    BY <1>0
  <2>2. \A y \in Below(V, a) : y \in Below(V, b)
    <3>1. a \in Int /\ b \in Int
      BY <1>0
    <3>2. \A y \in Int : y < a => y < b
      BY <3>1
    <3> QED BY <1>0, <3>2
  <2>3. Below(V, b) \subseteq V
    BY <1>0
  <2> QED BY <2>1, <2>2, <2>3
<1>2. IsFiniteSet(Below(V, a)) /\ IsFiniteSet(Below(V, b))
  BY <1>1, FS_Subset
<1>3. /\ Cardinality(Below(V, a)) \in Nat /\ Cardinality(Below(V, b)) \in Nat
      /\ Cardinality(V) \in Nat
  BY <1>2, FS_CardinalityType
<1>4. /\ Cardinality(Below(V, a)) <= Cardinality(Below(V, b))
      /\ Cardinality(Below(V, a)) # Cardinality(Below(V, b))
  BY <1>1, <1>2, <1>3, FS_Subset
<1>5. /\ Cardinality(Below(V, b)) <= Cardinality(V)
      /\ Cardinality(Below(V, b)) # Cardinality(V)
  BY <1>1, <1>2, <1>3, FS_Subset
<1> QED BY <1>3, <1>4, <1>5

LEMMA BelowBound ==
  ASSUME NEW V, V \subseteq Int, IsFiniteSet(V), NEW a \in V
  PROVE  Cardinality(Below(V, a)) \in 0..(Cardinality(V) - 1)
<1>1. Below(V, a) \subseteq V /\ a \notin Below(V, a)
  BY DEF Below
<1>2. IsFiniteSet(Below(V, a)) /\ Cardinality(Below(V, a)) \in Nat /\ Cardinality(V) \in Nat
  BY <1>1, FS_Subset, FS_CardinalityType
<1>3. Cardinality(Below(V, a)) <= Cardinality(V) /\ Cardinality(Below(V, a)) # Cardinality(V)
  BY <1>1, <1>2, FS_Subset
<1> QED BY <1>2, <1>3

LEMMA SameBelow ==
  ASSUME NEW V, V \subseteq Int, IsFiniteSet(V), NEW a \in V, NEW b \in V,
         Cardinality(Below(V, a)) = Cardinality(Below(V, b))
  PROVE  a = b
<1>1. CASE a < b
  <2>1. /\ Cardinality(Below(V, a)) \in Nat
        /\ Cardinality(Below(V, a)) < Cardinality(Below(V, b))
    BY <1>1, BelowGrows, Zenon
  <2> QED BY <2>1
<1>2. CASE b < a
  <2>1. /\ Cardinality(Below(V, a)) \in Nat
        /\ Cardinality(Below(V, b)) < Cardinality(Below(V, a))
    BY <1>2, BelowGrows, Zenon
  <2> QED BY <2>1
<1>3. a \in Int /\ b \in Int
  OBVIOUS
<1> QED BY <1>1, <1>2, <1>3

(* NthOf: each index from 0 has its element.                               *)
LEMMA NthExists ==
  ASSUME NEW V, V \subseteq Int, IsFiniteSet(V)
  PROVE  \A k \in 0..(Cardinality(V) - 1) : \E x \in V : Cardinality(Below(V, x)) = k
<1> DEFINE n == Cardinality(V)
           T == {k \in Nat : k < n => \E x \in V : Cardinality(Below(V, x)) = k}
<1>1. n \in Nat
  BY FS_CardinalityType
<1>2. 0 \in T
  <2>1. SUFFICES ASSUME 0 < n PROVE \E x \in V : Cardinality(Below(V, x)) = 0
    OBVIOUS
  <2>2. V # {}
    BY <2>1, FS_EmptySet
  <2>3. PICK x \in V : \A y \in V : x <= y
    BY <2>2, LeastExists
  <2>4. Below(V, x) = {}
    <3>1. x \in Int /\ \A y \in V : y \in Int
      BY <2>3
    <3>2. \A y \in V : ~(y < x)
      BY <2>3, <3>1
    <3> QED BY <3>2 DEF Below
  <2> QED BY <2>4, FS_EmptySet
<1>3. ASSUME NEW k \in Nat, k \in T PROVE k + 1 \in T
  <2>1. SUFFICES ASSUME k + 1 < n PROVE \E x \in V : Cardinality(Below(V, x)) = k + 1
    OBVIOUS
  <2>2. PICK x \in V : Cardinality(Below(V, x)) = k
    BY <1>1, <1>3, <2>1
  <2> DEFINE W == {y \in V : x < y}
             B == Below(V, x) \union {x}
  <2>3. Below(V, x) \subseteq V /\ IsFiniteSet(Below(V, x)) /\ x \notin Below(V, x)
    BY FS_Subset DEF Below
  <2>4. IsFiniteSet(B) /\ Cardinality(B) = k + 1
    BY <2>2, <2>3, FS_AddElement
  <2>5. W # {}
    <3>1. SUFFICES ASSUME W = {} PROVE FALSE
      OBVIOUS
    <3>2. V = B
      <4>1. x \in Int /\ \A y \in V : y \in Int
        BY <2>2
      <4>2. \A y \in V : ~(x < y)
        BY <3>1
      <4>3. \A y \in V : y \in B
        BY <4>1, <4>2 DEF Below
      <4>4. B \subseteq V
        BY <2>2 DEF Below
      <4> QED BY <4>3, <4>4
    <3> QED BY <2>1, <2>4, <3>2
  <2>6. W \subseteq V /\ W \subseteq Int /\ IsFiniteSet(W)
    BY FS_Subset
  <2> HIDE DEF W
  <2>7. PICK z \in W : \A y \in W : z <= y
    BY <2>5, <2>6, LeastExists
  <2>8. z \in V /\ Below(V, z) = B
    <3>1. x \in Int /\ z \in V /\ x < z /\ \A y \in V : y \in Int
      BY <2>2, <2>7 DEF W
    <3>2. ASSUME NEW y \in V PROVE y < z <=> y <= x
      BY <2>7, <3>1 DEF W
    <3>3. \A y \in V : y \in B <=> y <= x
      BY <3>1 DEF Below
    <3>4. B \subseteq V
      BY <2>2 DEF Below
    <3>5. \A y : y \in Below(V, z) <=> y \in B
      BY <3>2, <3>3, <3>4 DEF Below
    <3> QED BY <3>1, <3>5
  <2> QED BY <2>4, <2>8
<1> HIDE DEF T
<1>4. \A k \in Nat : k \in T
  BY <1>2, <1>3, AllNumbers
<1> QED BY <1>1, <1>4 DEF T

LEMMA NthIs ==
  ASSUME NEW V, V \subseteq Int, IsFiniteSet(V), NEW k \in 0..(Cardinality(V) - 1)
  PROVE  NthOf(V, k) \in V /\ Cardinality(Below(V, NthOf(V, k))) = k
<1>1. \E x \in V : Cardinality(Below(V, x)) = k
  BY NthExists
<1> QED BY <1>1, Zenon DEF NthOf, Below

LEMMA NthBelow ==
  ASSUME NEW V, V \subseteq Int, IsFiniteSet(V), NEW a \in V
  PROVE  NthOf(V, Cardinality(Below(V, a))) = a
<1> DEFINE k == Cardinality(Below(V, a))
<1>1. k \in 0..(Cardinality(V) - 1)
  BY BelowBound
<1>2. NthOf(V, k) \in V /\ Cardinality(Below(V, NthOf(V, k))) = k
  BY <1>1, NthIs
<1> QED BY <1>2, SameBelow

(* Between two that follow each other is nothing.                          *)
LEMMA NthFollows ==
  ASSUME NEW V, V \subseteq Int, IsFiniteSet(V), NEW k \in Nat, k + 1 < Cardinality(V)
  PROVE  /\ NthOf(V, k) \in V /\ NthOf(V, k + 1) \in V
         /\ NthOf(V, k) < NthOf(V, k + 1)
         /\ \A y \in V : NthOf(V, k) < y => NthOf(V, k + 1) <= y
<1>1. Cardinality(V) \in Nat
  BY FS_CardinalityType
<1> DEFINE m == k + 1
           a == NthOf(V, k)
           b == NthOf(V, m)
<1>2. k \in 0..(Cardinality(V) - 1) /\ m \in 0..(Cardinality(V) - 1) /\ m \in Nat /\ m = k + 1
  BY <1>1
<1> HIDE DEF m
<1>3. /\ a \in V /\ Cardinality(Below(V, a)) = k
      /\ b \in V /\ Cardinality(Below(V, b)) = m
  BY <1>2, NthIs, Zenon
<1> HIDE DEF a, b
<1>4. a \in Int /\ b \in Int /\ \A y \in V : y \in Int
  BY <1>3
<1>5. ASSUME b < a PROVE FALSE
  <2>1. Cardinality(Below(V, b)) < Cardinality(Below(V, a))
    BY <1>3, <1>5, BelowGrows, Zenon
  <2> QED BY <2>1, <1>2, <1>3
<1>6. a # b
  BY <1>2, <1>3
<1>7. ASSUME NEW y \in V, a < y, y < b PROVE FALSE
  <2>1. Cardinality(Below(V, y)) \in Nat /\ Cardinality(Below(V, a)) < Cardinality(Below(V, y))
    BY <1>3, <1>7, BelowGrows, Zenon
  <2>2. Cardinality(Below(V, y)) < Cardinality(Below(V, b))
    BY <1>3, <1>7, BelowGrows, Zenon
  <2> QED BY <2>1, <2>2, <1>2, <1>3
<1>8. a \in V /\ b \in V /\ a < b /\ \A y \in V : a < y => b <= y
  BY <1>3, <1>4, <1>5, <1>6, <1>7
<1> QED BY <1>8 DEF a, b, m

-----------------------------------------------------------------------------
(* The references that preprocess builds from.                             *)

(* What quantize yields: only the sentinel is negative.                    *)
Quantized(scale) == Nat \union {-scale}

Reference(scale) == [vector : [1..PACKED_DIMS -> Quantized(scale)], label : {0, 1}]

InputInv ==
  /\ run \in DOMAIN Inputs
  /\ phase = "train" =>
       /\ \E in \in Inputs[run] : input.scale = in.scale /\ in.scale \in Nat \ {0}
       /\ input.refs \in Seq(Reference(input.scale))
       /\ input.leafSize \in Nat /\ LANES <= input.leafSize

LEMMA QuotientIsNat ==
  ASSUME NEW a \in Nat, NEW b \in Nat \ {0}
  PROVE  a \div b \in Nat
  OBVIOUS

LEMMA QuantizeIsQuantized ==
  ASSUME NEW raw \in Int, NEW scale \in Nat \ {0}
  PROVE  Quantize(raw, scale) \in Quantized(scale)
<1>1. Unit \in Nat \ {0}
  BY IndexFileAssumption
<1>2. CASE raw <= -Unit \/ raw <= 0 \/ raw >= Unit
  BY <1>1, <1>2 DEF Quantize, Quantized
<1>3. CASE ~(raw <= -Unit \/ raw <= 0 \/ raw >= Unit)
  <2> DEFINE a == 2 * raw * scale + Unit
             b == 2 * Unit
  <2>1. raw \in Nat
    BY <1>3
  <2>2. 2 * raw * scale \in Nat
    BY <2>1
  <2>3. a \in Nat /\ b \in Nat \ {0}
    BY <2>2, <1>1
  <2>4. Quantize(raw, scale) = a \div b
    BY <1>3 DEF Quantize
  <2> HIDE DEF a, b
  <2> QED BY <2>3, <2>4, QuotientIsNat DEF Quantized
<1> QED BY <1>2, <1>3

LEMMA ReferencesAreTyped ==
  ASSUME NEW rows \in Seq(Row), WellFormed(rows), NEW scale \in Nat \ {0}
  PROVE  [i \in DOMAIN rows |-> ReferenceOf(rows[i], scale)] \in Seq(Reference(scale))
<1>1. DOMAIN rows = 1..Len(rows) /\ Len(rows) \in Nat
  OBVIOUS
<1>2. Dims \in Nat /\ PACKED_DIMS = 16 /\ Dims <= PACKED_DIMS
  BY IndexFileAssumption, KdTreeAssumption
<1>3. ASSUME NEW i \in DOMAIN rows PROVE ReferenceOf(rows[i], scale) \in Reference(scale)
  <2>0. rows[i] \in Row
    BY <1>1
  <2>1. rows[i].vector \in Seq(Int) /\ Len(rows[i].vector) = Dims
    BY <2>0 DEF WellFormed, Row
  <2>2. ASSUME NEW d \in 1..PACKED_DIMS
        PROVE  (IF d <= Dims THEN Quantize(rows[i].vector[d], scale) ELSE 0) \in Quantized(scale)
    <3>1. CASE d <= Dims
      <4>1. rows[i].vector[d] \in Int
        BY SMTT(30), <1>2, <2>1, <3>1
      <4> QED BY <3>1, <4>1, QuantizeIsQuantized
    <3>2. CASE ~(d <= Dims)
      BY <3>2 DEF Quantized
    <3> QED BY <3>1, <3>2
  <2>3. (IF rows[i].label = "fraud" THEN 1 ELSE 0) \in {0, 1}
    OBVIOUS
  <2> QED BY <2>2, <2>3 DEF ReferenceOf, Reference
<1> QED BY <1>1, <1>3

(* What load_references makes of any rows are references of the scale that *)
(* preprocess was built for, and a leaf has room for a block at least.     *)
THEOREM InputsAreTyped == Spec => []InputInv
<1>1. Init => InputInv
  <2>1. 1 \in DOMAIN Inputs
    BY InputsAssumption
  <2> QED BY <2>1 DEF Init, InputInv
<1>2. InputInv /\ [Next]_vars => InputInv'
  <2>1. SUFFICES ASSUME InputInv, [Next]_vars PROVE InputInv'
    OBVIOUS
  <2>2. CASE Load
    <3>1. run \in DOMAIN Inputs /\ run' = run
      BY <2>1, <2>2 DEF InputInv, Load
    <3>2. PICK in \in Inputs[run] :
            \/ /\ WellFormed(in.rows)
               /\ input' = [refs |-> [i \in DOMAIN in.rows |-> ReferenceOf(in.rows[i], in.scale)],
                            leafSize |-> ClampLeaf(in.leafSize), scale |-> in.scale]
            \/ phase' = "failed"
      BY <2>2 DEF Load
    <3>3. CASE phase' = "failed"
      BY <3>1, <3>3 DEF InputInv
    <3>4. CASE phase' # "failed"
      <4>1. in \in [rows : Seq(Row), leafSize : Nat, scale : Nat \ {0}]
        BY <3>1, InputsAssumption
      <4>2. WellFormed(in.rows)
        BY <3>2, <3>4
      <4>3. /\ input'.refs = [i \in DOMAIN in.rows |-> ReferenceOf(in.rows[i], in.scale)]
            /\ input'.leafSize = ClampLeaf(in.leafSize) /\ input'.scale = in.scale
        BY <3>2, <3>4
      <4>4. input'.refs \in Seq(Reference(input'.scale))
        BY <4>1, <4>2, <4>3, ReferencesAreTyped
      <4>5. ClampLeaf(in.leafSize) \in Nat /\ LANES \in Nat
        BY <4>1, IndexFileAssumption DEF ClampLeaf, Least, Greatest
      <4>6. LANES <= ClampLeaf(in.leafSize)
        BY <4>1, IndexFileAssumption DEF ClampLeaf, Least, Greatest
      <4> QED BY <3>1, <4>1, <4>3, <4>4, <4>5, <4>6 DEF InputInv
    <3> QED BY <3>3, <3>4
  <2>3. CASE RunAgain
    <3>1. run \in 1..Len(Inputs) /\ Len(Inputs) \in Nat
      BY <2>1, InputsAssumption DEF InputInv
    <3>2. run' \in DOMAIN Inputs /\ phase' = "load"
      BY <2>3, <3>1, InputsAssumption DEF RunAgain
    <3> QED BY <3>2 DEF InputInv
  <2>4. CASE UNCHANGED <<run, input>> /\ (phase' = phase \/ phase' # "train")
    BY <2>1, <2>4 DEF InputInv
  <2>5. \/ UNCHANGED vars \/ Load \/ SkipNode \/ TrainNode \/ BuildPartition \/ CreateFile
        \/ WriteSome \/ RunAgain \/ Open \/ Stop
    BY <2>1, Zenon DEF Next
  <2>6. UNCHANGED vars \/ SkipNode \/ TrainNode \/ BuildPartition \/ Open \/ Stop
          => UNCHANGED <<run, input>> /\ phase' = phase
    BY Zenon DEF vars, SkipNode, TrainNode, BuildPartition, Open, Stop
  <2>7. CreateFile => UNCHANGED <<run, input>> /\ phase' # "train"
    BY DEF CreateFile
  <2>8. WriteSome => UNCHANGED <<run, input>> /\ phase' # "train"
    BY DEF WriteSome
  <2> QED BY <2>2, <2>3, <2>4, <2>5, <2>6, <2>7, <2>8
<1> QED BY <1>1, <1>2, PTL DEF Spec

(* A function has finitely many values on a finite set.                    *)
LEMMA ImageOfFinite ==
  ASSUME NEW S, IsFiniteSet(S), NEW f, DOMAIN f = S, f = [i \in S |-> f[i]]
  PROVE  IsFiniteSet({f[i] : i \in S}) /\ Cardinality({f[i] : i \in S}) <= Cardinality(S)
<1> DEFINE W == {f[i] : i \in S}
<1>1. f \in [S -> W]
  OBVIOUS
<1>2. f \in Surjection(S, W)
  BY <1>1 DEF Surjection
<1> QED BY <1>2, FS_Surjection


-----------------------------------------------------------------------------
(* Thresholds.                                                             *)

(* The middle lies between, if only the sentinel is negative and is not    *)
(* next to zero.                                                           *)
LEMMA MidpointSeparates ==
  ASSUME NEW scale \in Nat, scale >= 2,
         NEW a \in Quantized(scale), NEW b \in Quantized(scale), a < b
  PROVE  Midpoint(a, b) \in Int /\ a <= Midpoint(a, b) /\ Midpoint(a, b) < b
<1>1. a \in Int /\ b \in Nat
  BY DEF Quantized
<1>2. CASE a + b >= 0
  <2> DEFINE h == (a + b) \div 2
  <2>1. h \in Int /\ 2 * h <= a + b /\ a + b < 2 * h + 2
    BY <1>1
  <2>2. Midpoint(a, b) = h
    BY <1>2 DEF Midpoint
  <2> HIDE DEF h
  <2> QED BY <1>1, <2>1, <2>2
<1>3. CASE ~(a + b >= 0)
  <2> DEFINE h == (-(a + b)) \div 2
  <2>1. h \in Int /\ 2 * h <= -(a + b) /\ -(a + b) < 2 * h + 2
    BY <1>1
  <2>2. Midpoint(a, b) = -h
    BY <1>3 DEF Midpoint
  <2>3. a = -scale
    BY <1>1, <1>3 DEF Quantized
  <2> HIDE DEF h
  <2> QED BY <1>1, <2>1, <2>2, <2>3
<1> QED BY <1>2, <1>3

(* In the smallest scale that src/build.rs accepts it does not: the middle *)
(* of the sentinel and zero is zero.                                       *)
THEOREM SmallestScaleDoesNotSeparate ==
  /\ {-1, 0} \subseteq Quantized(1)
  /\ ~(Midpoint(-1, 0) < 0)
<1>1. {-1, 0} \subseteq Quantized(1)
  BY DEF Quantized
<1> DEFINE h == 1 \div 2
<1>2. h \in Int /\ 2 * h <= 1 /\ 1 < 2 * h + 2
  OBVIOUS
<1>3. h = 0
  <2> HIDE DEF h
  <2> QED BY <1>2
<1> DEFINE a == -1
<1>a. a \in Int /\ a + 1 = 0
  OBVIOUS
<1> HIDE DEF a
<1>4. a + 0 = a /\ ~(a + 0 >= 0) /\ -(a + 0) = 1
  BY <1>a
<1> USE DEF a
<1>5. Midpoint(-1, 0) = -h
  BY <1>4 DEF Midpoint
<1> HIDE DEF h
<1> QED BY <1>1, <1>3, <1>5

(* The q-th of 16 parts ends before the last value.                        *)
LEMMA QuantileIndex ==
  ASSUME NEW n \in Nat, n >= 2, NEW q \in 1..15
  PROVE  ((n - 1) * q) \div 16 \in Nat /\ ((n - 1) * q) \div 16 + 1 < n
<1> DEFINE m == n - 1
           x == m * q
           h == x \div 16
<1>1. m \in Nat /\ m >= 1
  OBVIOUS
<1> HIDE DEF m
<1>2. m * q \in Nat /\ m * q <= m * 15
  BY <1>1
<1>3. x \in Nat /\ x <= 15 * m
  BY <1>1, <1>2
<1> HIDE DEF x
<1>4. h \in Nat /\ 16 * h <= x
  BY <1>3
<1> HIDE DEF h
<1>5. h < m
  BY <1>1, <1>3, <1>4
<1>6. h + 1 < n
  BY <1>5, <1>4 DEF m
<1> QED BY <1>4, <1>6 DEF h, x, m

(* Below and above every threshold there are values, and of a few values   *)
(* any two have one between them.                                          *)
LEMMA ThresholdsSeparate ==
  ASSUME NEW scale \in Nat, scale >= 2,
         NEW V, V \subseteq Quantized(scale), IsFiniteSet(V)
  PROVE  /\ \A t \in ThresholdsOf(V) : t \in Int /\ \E a, b \in V : a <= t /\ t < b
         /\ Cardinality(V) <= FewValues =>
              \A a, b \in V : a < b => \E t \in ThresholdsOf(V) : a <= t /\ t < b
<1> DEFINE n == Cardinality(V)
<1>1. n \in Nat
  BY FS_CardinalityType
<1>2. V \subseteq Int
  BY DEF Quantized
<1>3. ASSUME NEW k \in Nat, k + 1 < n
      PROVE  /\ NthOf(V, k) \in V /\ NthOf(V, k + 1) \in V
             /\ NthOf(V, k) < NthOf(V, k + 1)
             /\ \A y \in V : NthOf(V, k) < y => NthOf(V, k + 1) <= y
  BY <1>2, <1>3, NthFollows, Zenon
<1>4. ASSUME NEW k \in Nat, k + 1 < n
      PROVE  LET t == Midpoint(NthOf(V, k), NthOf(V, k + 1))
             IN  t \in Int /\ NthOf(V, k) <= t /\ t < NthOf(V, k + 1)
  <2> DEFINE a == NthOf(V, k)
             b == NthOf(V, k + 1)
  <2>1. a \in V /\ b \in V /\ a < b
    BY <1>3, <1>4
  <2> HIDE DEF a, b
  <2>2. Midpoint(a, b) \in Int /\ a <= Midpoint(a, b) /\ Midpoint(a, b) < b
    BY <2>1, MidpointSeparates
  <2> QED BY <2>2 DEF a, b
<1>5. CASE n <= FewValues
  <2>1. ThresholdsOf(V) = {Midpoint(NthOf(V, k), NthOf(V, k + 1)) : k \in 0..(n - 2)}
    BY <1>5 DEF ThresholdsOf
  <2>2. ASSUME NEW k \in 0..(n - 2) PROVE k \in Nat /\ k + 1 < n
    BY <1>1
  <2>3. ASSUME NEW t \in ThresholdsOf(V) PROVE t \in Int /\ \E a, b \in V : a <= t /\ t < b
    <3>1. PICK k \in 0..(n - 2) : t = Midpoint(NthOf(V, k), NthOf(V, k + 1))
      BY <2>1
    <3>2. k \in Nat /\ k + 1 < n
      BY <2>2
    <3>3. t \in Int /\ NthOf(V, k) <= t /\ t < NthOf(V, k + 1)
      BY <3>1, <3>2, <1>4
    <3>4. NthOf(V, k) \in V /\ NthOf(V, k + 1) \in V
      BY <3>2, <1>3
    <3> QED BY <3>3, <3>4
  <2>4. ASSUME NEW a \in V, NEW b \in V, a < b
        PROVE  \E t \in ThresholdsOf(V) : a <= t /\ t < b
    <3> DEFINE k == Cardinality(Below(V, a))
               c == NthOf(V, k + 1)
               t == Midpoint(a, c)
    <3>1. /\ k \in Nat /\ Cardinality(Below(V, b)) \in Nat
          /\ k < Cardinality(Below(V, b)) /\ Cardinality(Below(V, b)) < n
      BY <1>2, <2>4, BelowGrows, Zenon
    <3>2. NthOf(V, k) = a
      BY <1>2, NthBelow, Zenon
    <3> HIDE DEF k
    <3>3. k + 1 < n /\ k \in 0..(n - 2)
      BY <1>1, <3>1
    <3>4. c \in V /\ c <= b
      BY <1>3, <3>1, <3>2, <3>3, <2>4
    <3>5. t \in Int /\ a <= t /\ t < c
      BY <1>4, <3>1, <3>2, <3>3
    <3>6. t \in ThresholdsOf(V)
      BY <2>1, <3>2, <3>3
    <3>7. a \in Int /\ b \in Int /\ c \in Int
      BY <1>2, <3>4
    <3> HIDE DEF t, c
    <3>8. t < b
      BY <3>4, <3>5, <3>7
    <3> QED BY <3>5, <3>6, <3>8
  <2> QED BY <2>3, <2>4
<1>6. CASE ~(n <= FewValues)
  <2>1. ThresholdsOf(V) = {NthOf(V, ((n - 1) * q) \div 16) : q \in 1..15}
    BY <1>6 DEF ThresholdsOf
  <2>2. n >= 2
    BY <1>1, <1>6, IndexFileAssumption
  <2>3. ASSUME NEW t \in ThresholdsOf(V) PROVE t \in Int /\ \E a, b \in V : a <= t /\ t < b
    <3>1. PICK q \in 1..15 : t = NthOf(V, ((n - 1) * q) \div 16)
      BY <2>1
    <3> DEFINE k == ((n - 1) * q) \div 16
    <3>2. k \in Nat /\ k + 1 < n
      BY <1>1, <2>2, QuantileIndex
    <3>3. t = NthOf(V, k)
      BY <3>1
    <3> HIDE DEF k
    <3>4. t \in V /\ NthOf(V, k + 1) \in V /\ t < NthOf(V, k + 1)
      BY <3>2, <3>3, <1>3
    <3>5. t \in Int /\ t <= t
      BY <3>4, <1>2
    <3> QED BY <3>4, <3>5
  <2> QED BY <1>6, <2>3
<1> QED BY <1>5, <1>6

(* Every candidate predicate has references on either side, and of a few   *)
(* values any two are told apart by some candidate (CandidatesSeparate),   *)
(* for every scale but the smallest.                                       *)
THEOREM CandidatesAlwaysSeparate ==
  ASSUME \A r \in DOMAIN Inputs : \A in \in Inputs[r] : in.scale >= 2
  PROVE  Spec => []CandidatesSeparate
<1>1. InputInv => CandidatesSeparate
  <2> DEFINE refs == input.refs
             V(d) == Values(refs, DOMAIN refs, d)
  <2>1. SUFFICES ASSUME InputInv, phase = "train" PROVE CandidatesSeparate
    BY DEF CandidatesSeparate
  <2>2. input.scale \in Nat /\ input.scale >= 2
    BY <2>1 DEF InputInv
  <2>3. refs \in Seq(Reference(input.scale))
    BY <2>1 DEF InputInv
  <2>4. DOMAIN refs = 1..Len(refs) /\ Len(refs) \in Nat
    BY <2>3
  <2>5. IsFiniteSet(DOMAIN refs)
    BY <2>4, FS_Interval
  <2>6. Dims \in Nat /\ Dims <= PACKED_DIMS /\ PACKED_DIMS = 16
    BY IndexFileAssumption, KdTreeAssumption
  <2>7. ASSUME NEW i \in DOMAIN refs, NEW d \in 1..Dims
        PROVE  refs[i].vector[d] \in Quantized(input.scale)
    <3>1. refs[i] \in Reference(input.scale) /\ d \in 1..PACKED_DIMS
      BY <2>3, <2>6
    <3> QED BY <3>1 DEF Reference
  <2>8. ASSUME NEW d \in 1..Dims
        PROVE  V(d) \subseteq Quantized(input.scale) /\ IsFiniteSet(V(d))
    <3>1. V(d) \subseteq Quantized(input.scale)
      BY <2>7 DEF Values
    <3> DEFINE f == [i \in DOMAIN refs |-> refs[i].vector[d]]
    <3>2. IsFiniteSet({f[i] : i \in DOMAIN refs})
      BY <2>5, ImageOfFinite
    <3>3. V(d) = {f[i] : i \in DOMAIN refs}
      BY DEF Values
    <3> QED BY <3>1, <3>2, <3>3
  <2> HIDE DEF refs
  <2>9. ASSUME NEW p \in Candidates(refs)
        PROVE  Right(refs, DOMAIN refs, p) # {} /\ Left(refs, DOMAIN refs, p) # {}
    <3>1. PICK d \in 1..Dims : \E t \in ThresholdsOf(V(d)) : p = [dim |-> d, threshold |-> t, enabled |-> TRUE]
      BY DEF Candidates
    <3>2. p.dim = d /\ p.threshold \in ThresholdsOf(V(d))
      BY <3>1
    <3>3. /\ p.threshold \in Int
          /\ \E a, b \in V(d) : a <= p.threshold /\ p.threshold < b
      BY <2>2, <2>8, <3>2, ThresholdsSeparate
    <3>4. PICK i \in DOMAIN refs, j \in DOMAIN refs :
             refs[i].vector[d] <= p.threshold /\ p.threshold < refs[j].vector[d]
      BY <3>3 DEF Values
    <3>5. refs[i].vector[d] \in Int /\ refs[j].vector[d] \in Int
      BY <2>2, <2>7 DEF Quantized
    <3>6. j \in Right(refs, DOMAIN refs, p)
      BY <3>2, <3>3, <3>4, <3>5 DEF Right
    <3>7. i \in Left(refs, DOMAIN refs, p)
      BY <3>2, <3>3, <3>4, <3>5 DEF Left, Right
    <3> QED BY <3>6, <3>7
  <2>10. ASSUME NEW d \in 1..Dims, Cardinality(V(d)) <= FewValues, NEW a \in V(d), NEW b \in V(d), a < b
         PROVE  \E p \in Candidates(refs) : p.dim = d /\ a <= p.threshold /\ p.threshold < b
    <3>1. PICK t \in ThresholdsOf(V(d)) : a <= t /\ t < b
      BY <2>2, <2>8, <2>10, ThresholdsSeparate
    <3> DEFINE p == [dim |-> d, threshold |-> t, enabled |-> TRUE]
    <3>2. p \in {[dim |-> d, threshold |-> u, enabled |-> TRUE] : u \in ThresholdsOf(V(d))}
      BY <3>1, Zenon
    <3>3. p.dim = d /\ p.threshold = t
      OBVIOUS
    <3> HIDE DEF p
    <3>4. p \in Candidates(refs)
      BY <3>2, Zenon DEF Candidates
    <3> QED BY <3>1, <3>3, <3>4
  <2> QED BY <2>9, <2>10 DEF CandidatesSeparate, refs
<1> QED BY <1>1, InputsAreTyped, PTL

-----------------------------------------------------------------------------
(* Levels and keys.                                                        *)

LEMMA LevelSizeIs ==
  ASSUME NEW d \in Nat
  PROVE  LevelSize(d) = Leftmost(d) + 1
<1> DEFINE Sizes(size) == size = [k \in 0..d |-> IF k = 0 THEN 1 ELSE 2 * size[k - 1]]
           g == [k \in 0..d |-> Leftmost(k) + 1]
           size == CHOOSE f : Sizes(f)
<1>1. Sizes(g)
  <2>1. ASSUME NEW k \in 0..d PROVE g[k] = IF k = 0 THEN 1 ELSE 2 * g[k - 1]
    <3>1. CASE k = 0
      BY <3>1, LeftmostSteps
    <3>2. CASE k # 0
      <4>1. k - 1 \in Nat /\ k - 1 \in 0..d /\ (k - 1) + 1 = k
        BY <3>2
      <4>2. Leftmost(k - 1) \in Nat /\ Leftmost(k) = 2 * Leftmost(k - 1) + 1
        BY <4>1, LeftmostSteps
      <4>3. g[k - 1] = Leftmost(k - 1) + 1 /\ g[k] = Leftmost(k) + 1
        BY <4>1
      <4> HIDE DEF g
      <4> QED BY <3>2, <4>2, <4>3
    <3> QED BY <3>1, <3>2
  <2>2. DOMAIN g = 0..d /\ g = [k \in 0..d |-> g[k]]
    OBVIOUS
  <2> HIDE DEF g
  <2> QED BY <2>1, <2>2
<1>2. Sizes(size)
  BY <1>1
<1>3. LevelSize(d) = size[d]
  BY Zenon DEF LevelSize
<1> HIDE DEF size
<1> DEFINE T == {k \in Nat : k <= d => size[k] = Leftmost(k) + 1}
<1>4. 0 \in T
  BY <1>2, LeftmostSteps
<1>5. ASSUME NEW k \in Nat, k \in T PROVE k + 1 \in T
  <2>1. SUFFICES ASSUME k + 1 <= d PROVE size[k + 1] = Leftmost(k + 1) + 1
    OBVIOUS
  <2>2. k + 1 \in 0..d /\ k + 1 # 0 /\ (k + 1) - 1 = k /\ k <= d
    BY <2>1
  <2>3. size[k + 1] = 2 * size[k]
    BY <1>2, <2>2
  <2>4. size[k] = Leftmost(k) + 1
    BY <1>5, <2>2
  <2>5. Leftmost(k) \in Nat /\ Leftmost(k + 1) = 2 * Leftmost(k) + 1
    BY LeftmostSteps
  <2> QED BY <2>3, <2>4, <2>5
<1> HIDE DEF T, Sizes
<1>6. d \in T
  BY <1>4, <1>5, AllNumbers
<1> QED BY <1>3, <1>6 DEF T

LEMMA LevelSizeSteps ==
  /\ LevelSize(0) = 1
  /\ \A d \in Nat : LevelSize(d) \in Nat \ {0} /\ LevelSize(d + 1) = 2 * LevelSize(d)
<1>1. LevelSize(0) = 1
  BY LevelSizeIs, LeftmostSteps
<1>2. ASSUME NEW d \in Nat PROVE LevelSize(d) \in Nat \ {0} /\ LevelSize(d + 1) = 2 * LevelSize(d)
  <2>1. LevelSize(d) = Leftmost(d) + 1 /\ LevelSize(d + 1) = Leftmost(d + 1) + 1
    BY LevelSizeIs
  <2>2. Leftmost(d) \in Nat /\ Leftmost(d + 1) = 2 * Leftmost(d) + 1
    BY LeftmostSteps
  <2> QED BY <2>1, <2>2
<1> QED BY <1>1, <1>2

LEMMA LevelsGrow ==
  ASSUME NEW d \in Nat, NEW e \in Nat, d <= e
  PROVE  LevelSize(d) <= LevelSize(e)
<1> DEFINE T == {k \in Nat : LevelSize(d) <= LevelSize(d + k)}
<1>1. 0 \in T
  <2>1. LevelSize(d) \in Nat /\ d + 0 = d
    BY LevelSizeSteps
  <2> QED BY <2>1
<1>2. ASSUME NEW k \in Nat, k \in T PROVE k + 1 \in T
  <2>1. d + k \in Nat /\ (d + k) + 1 = d + (k + 1)
    OBVIOUS
  <2>2. LevelSize(d + k) \in Nat /\ LevelSize(d + (k + 1)) = 2 * LevelSize(d + k)
    BY <2>1, LevelSizeSteps
  <2>3. LevelSize(d) <= LevelSize(d + k) /\ LevelSize(d) \in Nat
    BY <1>2, LevelSizeSteps
  <2> QED BY <2>2, <2>3
<1> HIDE DEF T
<1>3. \A k \in Nat : k \in T
  BY <1>1, <1>2, AllNumbers
<1>4. e - d \in Nat /\ d + (e - d) = e
  OBVIOUS
<1>5. e - d \in T
  BY <1>3, <1>4
<1> QED BY <1>4, <1>5 DEF T

LEMMA KeyBitsBounded ==
  KeyBits \in Nat /\ KeyBits <= LEARNED_TREE_MAX_DEPTH
<1>1. TreeDepth \in Nat /\ LEARNED_TREE_MAX_DEPTH \in Nat
  BY KdTreeAssumption
<1>2. \E m \in {TreeDepth, LEARNED_TREE_MAX_DEPTH} : \A y \in {TreeDepth, LEARNED_TREE_MAX_DEPTH} : m =< y
  BY <1>1
<1> DEFINE m == CHOOSE x \in {TreeDepth, LEARNED_TREE_MAX_DEPTH} : \A y \in {TreeDepth, LEARNED_TREE_MAX_DEPTH} : x =< y
<1>3. m \in {TreeDepth, LEARNED_TREE_MAX_DEPTH} /\ \A y \in {TreeDepth, LEARNED_TREE_MAX_DEPTH} : m =< y
  BY <1>2
<1>4. KeyBits = m
  BY Zenon DEF KeyBits, Min
<1> HIDE DEF m
<1> QED BY <1>1, <1>3, <1>4

(* Every key has its place in the table of the keys.                       *)
THEOREM KeysFitTheTable ==
  ASSUME NEW p, NEW v
  PROVE  Key(p, v) \in 0..(KEY_LOOKUP_SIZE - 1)
<1> DEFINE n == NodeAt(p, v, KeyBits)
<1>1. KeyBits \in Nat /\ LEARNED_TREE_MAX_DEPTH \in Nat /\ KeyBits <= LEARNED_TREE_MAX_DEPTH
  BY KeyBitsBounded, KdTreeAssumption
<1>2. Leftmost(KeyBits) <= n /\ n <= 2 * Leftmost(KeyBits) /\ n \in Nat
  BY <1>1, NodeInItsLevel, NodeAtNat
<1>3. Leftmost(KeyBits) \in Nat /\ LevelSize(KeyBits) = Leftmost(KeyBits) + 1
  BY <1>1, LeftmostSteps, LevelSizeIs
<1>4. LevelSize(KeyBits) <= LevelSize(LEARNED_TREE_MAX_DEPTH)
  BY <1>1, LevelsGrow
<1>5. LevelSize(LEARNED_TREE_MAX_DEPTH) <= KEY_LOOKUP_SIZE /\ KEY_LOOKUP_SIZE \in Nat
  BY IndexFileAssumption
<1>6. LevelSize(LEARNED_TREE_MAX_DEPTH) \in Nat
  BY <1>1, LevelSizeSteps
<1>7. Key(p, v) = n - (LevelSize(KeyBits) - 1)
  BY DEF Key
<1> HIDE DEF n
<1> QED BY <1>2, <1>3, <1>4, <1>5, <1>6, <1>7

-----------------------------------------------------------------------------
(* Sums, sections and their places.                                        *)

(* What Total adds up.                                                     *)
IsTotals(w, upto) ==
  upto = [k \in 0..Len(w) |-> IF k = 0 THEN 0 ELSE upto[k - 1] + w[k]]

LEMMA TotalIs ==
  ASSUME NEW w
  PROVE  Total(w) = (CHOOSE upto : IsTotals(w, upto))[Len(w)]
  BY Zenon DEF Total, IsTotals

LEMMA SumsExist ==
  ASSUME NEW N \in Nat, NEW w \in [1..N -> Nat]
  PROVE  \E u \in [0..N -> Nat] : u[0] = 0 /\ \A k \in 1..N : u[k] = u[k - 1] + w[k]
<1> DEFINE Sums(n) == \E u \in [0..n -> Nat] : u[0] = 0 /\ \A k \in 1..n : u[k] = u[k - 1] + w[k]
           T == {n \in Nat : n <= N => Sums(n)}
<1> HIDE DEF Sums
<1>1. 0 \in T
  <2> DEFINE u == [k \in 0..0 |-> 0]
  <2>1. u \in [0..0 -> Nat] /\ u[0] = 0 /\ \A k \in 1..0 : u[k] = u[k - 1] + w[k]
    OBVIOUS
  <2>2. Sums(0)
    BY <2>1 DEF Sums
  <2> QED BY <2>2
<1>2. ASSUME NEW n \in Nat, n \in T PROVE n + 1 \in T
  <2>1. SUFFICES ASSUME n + 1 <= N PROVE Sums(n + 1)
    OBVIOUS
  <2>2. PICK u \in [0..n -> Nat] : u[0] = 0 /\ \A k \in 1..n : u[k] = u[k - 1] + w[k]
    BY <1>2, <2>1 DEF Sums
  <2> DEFINE m == n + 1
             g == [k \in 0..m |-> IF k = m THEN u[n] + w[m] ELSE u[k]]
  <2>3. m \in Nat /\ m = n + 1 /\ m \in 1..N
    BY <2>1
  <2>4. w[m] \in Nat /\ u[n] \in Nat
    BY <2>2, <2>3
  <2> HIDE DEF m
  <2>5. g \in [0..m -> Nat]
    <3>1. \A k \in 0..m : k # m => k \in 0..n
      BY <2>3
    <3> QED BY <2>2, <2>4, <3>1
  <2>6. g[0] = 0
    BY <2>2, <2>3
  <2>7. ASSUME NEW k \in 1..m PROVE g[k] = g[k - 1] + w[k]
    <3>1. CASE k = m
      <4>1. k - 1 = n /\ n \in 0..m /\ n # m /\ k \in 0..m
        BY <2>3, <3>1
      <4> QED BY <3>1, <4>1
    <3>2. CASE k # m
      <4>1. k \in 1..n /\ k - 1 \in 0..m /\ k - 1 # m /\ k \in 0..m
        BY <2>3, <3>2
      <4> QED BY <2>2, <3>2, <4>1
    <3> QED BY <3>1, <3>2
  <2> HIDE DEF g
  <2>8. Sums(m)
    BY <2>5, <2>6, <2>7 DEF Sums
  <2> QED BY <2>8 DEF m
<1> HIDE DEF T
<1>3. N \in T
  BY <1>1, <1>2, AllNumbers
<1>4. Sums(N)
  BY <1>3 DEF T
<1> QED BY <1>4 DEF Sums

(* The totals of all the prefixes of a sequence.                           *)
LEMMA PrefixTotals ==
  ASSUME NEW N \in Nat, NEW w \in [1..N -> Nat],
         NEW u \in [0..N -> Nat], u[0] = 0, \A k \in 1..N : u[k] = u[k - 1] + w[k]
  PROVE  \A n \in 0..N : Total([g \in 1..n |-> w[g]]) = u[n]
<1> SUFFICES ASSUME NEW n \in 0..N PROVE Total([g \in 1..n |-> w[g]]) = u[n]
  OBVIOUS
<1> DEFINE p == [g \in 1..n |-> w[g]]
           up == [k \in 0..n |-> u[k]]
           t == CHOOSE upto : IsTotals(p, upto)
<1>1. n \in Nat /\ 0..n \subseteq 0..N /\ 1..n \subseteq 1..N
  OBVIOUS
<1>2. Len(p) = n
  <2>1. \A g \in 1..n : w[g] \in Nat
    BY <1>1
  <2>2. p \in Seq(Nat)
    BY <1>1, <2>1
  <2>3. DOMAIN p = 1..n
    OBVIOUS
  <2> HIDE DEF p
  <2> QED BY <1>1, <2>2, <2>3, LenProperties
<1>3. IsTotals(p, up)
  <2>1. ASSUME NEW k \in 0..n PROVE up[k] = IF k = 0 THEN 0 ELSE up[k - 1] + p[k]
    <3>1. CASE k = 0
      BY <3>1
    <3>2. CASE k # 0
      <4>1. k \in 1..n /\ k - 1 \in 0..n /\ k \in 1..N
        BY <3>2, <1>1
      <4>2. u[k] = u[k - 1] + w[k]
        BY <4>1
      <4> QED BY <3>2, <4>1, <4>2
    <3> QED BY <3>1, <3>2
  <2>2. DOMAIN up = 0..n /\ up = [k \in 0..n |-> up[k]]
    OBVIOUS
  <2> HIDE DEF up, p
  <2> QED BY <1>2, <2>1, <2>2 DEF IsTotals
<1>4. IsTotals(p, t)
  BY <1>3
<1>5. Total(p) = t[n]
  BY <1>2, TotalIs
<1>6. \A k \in 0..n : t[k] = IF k = 0 THEN 0 ELSE t[k - 1] + p[k]
  <2> HIDE DEF t, p
  <2> QED BY <1>2, <1>4 DEF IsTotals
<1> HIDE DEF t
<1> DEFINE T == {k \in Nat : k <= n => t[k] = u[k]}
<1>7. 0 \in T
  <2>1. 0 \in 0..n /\ 0 \in Nat
    BY <1>1
  <2>2. t[0] = 0
    BY <1>6, <2>1
  <2> QED BY <2>1, <2>2
<1>8. ASSUME NEW k \in Nat, k \in T PROVE k + 1 \in T
  <2>1. SUFFICES ASSUME k + 1 <= n PROVE t[k + 1] = u[k + 1]
    OBVIOUS
  <2>2. k + 1 \in 0..n /\ k + 1 # 0 /\ (k + 1) - 1 = k /\ k + 1 \in 1..n /\ k + 1 \in 1..N /\ k <= n
    BY <1>1, <2>1
  <2>3. t[k + 1] = t[k] + p[k + 1]
    BY <1>6, <2>2
  <2>4. p[k + 1] = w[k + 1]
    BY <2>2
  <2>5. u[k + 1] = u[k] + w[k + 1]
    BY <2>2
  <2>6. t[k] = u[k]
    BY <1>8, <2>2
  <2> QED BY <2>3, <2>4, <2>5, <2>6
<1> HIDE DEF T, p
<1>9. n \in T
  BY <1>1, <1>7, <1>8, AllNumbers
<1> QED BY <1>1, <1>5, <1>9 DEF T, p

(* A section: its fields follow each other, and its rows.                  *)
FieldsOf(section, n) ==
  /\ section.stride \in Nat
  /\ section.at \in [1..n -> Nat] /\ section.widths \in [1..n -> Nat \ {0}]
  /\ section.at[1] = 0
  /\ \A f \in 1..(n - 1) : section.at[f + 1] = section.at[f] + section.widths[f]
  /\ section.stride = section.at[n] + section.widths[n]

LEMMA SectionIsLaidOut ==
  ASSUME NEW n \in Nat \ {0}, NEW widths \in [1..n -> Nat \ {0}], NEW rows,
         NEW s, s = Section(widths, rows)
  PROVE  FieldsOf(s, n) /\ s.rows = rows /\ s.widths = widths
<1>1. widths \in [1..n -> Nat]
  OBVIOUS
<1>2. PICK u \in [0..n -> Nat] : u[0] = 0 /\ \A k \in 1..n : u[k] = u[k - 1] + widths[k]
  BY <1>1, SumsExist
<1>3. \A k \in 0..n : Total([g \in 1..k |-> widths[g]]) = u[k]
  BY <1>1, <1>2, PrefixTotals
<1>4. DOMAIN widths = 1..n /\ [g \in 1..n |-> widths[g]] = widths
  OBVIOUS
<1>5. s.stride = u[n]
  BY <1>3, <1>4 DEF Section
<1>6. s.at = [f \in 1..n |-> u[f - 1]]
  <2>1. s.at = [f \in 1..n |-> Total([g \in 1..(f - 1) |-> widths[g]])]
    BY <1>4 DEF Section
  <2>2. \A f \in 1..n : Total([g \in 1..(f - 1) |-> widths[g]]) = u[f - 1]
    BY <1>3
  <2> QED BY <2>1, <2>2
<1>7. s.rows = rows /\ s.widths = widths
  BY DEF Section
<1>8. \A f \in 1..n : f - 1 \in 0..n /\ s.at[f] = u[f - 1]
  BY <1>6
<1>9. s.at \in [1..n -> Nat] /\ s.at[1] = 0
  BY <1>2, <1>6
<1>10. ASSUME NEW f \in 1..(n - 1) PROVE s.at[f + 1] = s.at[f] + s.widths[f]
  <2>1. f \in 1..n /\ f + 1 \in 1..n /\ (f + 1) - 1 = f
    OBVIOUS
  <2>2. s.at[f + 1] = u[f] /\ s.at[f] = u[f - 1]
    BY <1>8, <2>1
  <2> QED BY <1>2, <1>7, <2>1, <2>2
<1>11. s.stride = s.at[n] + s.widths[n]
  <2>1. n \in 1..n
    OBVIOUS
  <2> QED BY <1>2, <1>5, <1>7, <1>8, <2>1
<1>12. s.stride \in Nat
  BY <1>2, <1>5
<1>13. FieldsOf(s, n)
  BY <1>7, <1>9, <1>10, <1>11, <1>12 DEF FieldsOf
<1> QED BY <1>7, <1>13

LEMMA LengthOfFunction ==
  ASSUME NEW N \in Nat, NEW f, DOMAIN f = 1..N, f = [n \in 1..N |-> f[n]]
  PROVE  Len(f) = N /\ f \in Seq({f[n] : n \in 1..N})
<1> DEFINE V == {f[n] : n \in 1..N}
<1>1. \A n \in 1..N : f[n] \in V
  OBVIOUS
<1> HIDE DEF V
<1>2. f \in Seq(V)
  BY <1>1
<1>3. Len(f) = N
  BY <1>2, LenProperties
<1> QED BY <1>2, <1>3 DEF V

(* Sections one behind the other.                                          *)
LaidOut(image, N) ==
  /\ DOMAIN image = 1..N /\ Len(image) = N
  /\ \A n \in 1..N :
       /\ image[n].begin \in Nat /\ image[n].end \in Nat
       /\ image[n].end = image[n].begin + image[n].stride * Len(image[n].rows)
  /\ image[1].begin = 0
  /\ \A n \in 1..(N - 1) : image[n + 1].begin = image[n].end

LEMMA PlaceIsLaidOut ==
  ASSUME NEW N \in Nat \ {0}, NEW secs, DOMAIN secs = 1..N, Len(secs) = N,
         \A n \in 1..N : secs[n].stride \in Nat /\ Len(secs[n].rows) \in Nat
  PROVE  /\ LaidOut(Place(secs), N)
         /\ \A n \in 1..N : /\ Place(secs)[n].widths = secs[n].widths
                            /\ Place(secs)[n].rows = secs[n].rows
                            /\ Place(secs)[n].stride = secs[n].stride
                            /\ Place(secs)[n].at = secs[n].at
<1> DEFINE sizes == [n \in 1..N |-> SizeOf(secs[n])]
           begin == [n \in 1..N |-> Total([m \in 1..(n - 1) |-> SizeOf(secs[m])])]
           image == [n \in 1..N |->
                      [widths |-> secs[n].widths, rows |-> secs[n].rows,
                       stride |-> secs[n].stride, at |-> secs[n].at,
                       begin |-> begin[n], end |-> begin[n] + SizeOf(secs[n])]]
<1>1. Place(secs) = image
  BY Zenon DEF Place
<1>2. \A n \in 1..N : SizeOf(secs[n]) \in Nat /\ SizeOf(secs[n]) = secs[n].stride * Len(secs[n].rows)
  BY DEF SizeOf
<1>3. sizes \in [1..N -> Nat]
  BY <1>2
<1>4. PICK u \in [0..N -> Nat] : u[0] = 0 /\ \A k \in 1..N : u[k] = u[k - 1] + sizes[k]
  BY <1>3, SumsExist
<1>5. \A n \in 0..N : Total([m \in 1..n |-> sizes[m]]) = u[n]
  <2> HIDE DEF sizes
  <2> QED BY <1>3, <1>4, PrefixTotals
<1>6. ASSUME NEW n \in 1..N PROVE begin[n] = u[n - 1]
  <2>1. n - 1 \in 0..N /\ 1..(n - 1) \subseteq 1..N
    OBVIOUS
  <2>2. [m \in 1..(n - 1) |-> SizeOf(secs[m])] = [m \in 1..(n - 1) |-> sizes[m]]
    BY <2>1
  <2> QED BY <1>5, <2>1, <2>2
<1>7. ASSUME NEW n \in 1..N
      PROVE  /\ image[n].begin = u[n - 1]
             /\ image[n].end = u[n - 1] + SizeOf(secs[n])
             /\ image[n].stride = secs[n].stride /\ image[n].rows = secs[n].rows
             /\ image[n].widths = secs[n].widths /\ image[n].at = secs[n].at
  BY <1>6
<1>8. Len(image) = N /\ DOMAIN image = 1..N
  <2>1. DOMAIN image = 1..N /\ image = [n \in 1..N |-> image[n]]
    OBVIOUS
  <2> HIDE DEF image
  <2> QED BY <2>1, LengthOfFunction
<1> HIDE DEF image, begin
<1>9. ASSUME NEW n \in 1..N
      PROVE  /\ image[n].begin \in Nat /\ image[n].end \in Nat
             /\ image[n].end = image[n].begin + image[n].stride * Len(image[n].rows)
  <2>1. u[n - 1] \in Nat /\ SizeOf(secs[n]) \in Nat
    BY <1>2, <1>4
  <2>2. image[n].begin \in Nat /\ image[n].end \in Nat
    BY <1>7, <2>1
  <2>3. image[n].end = image[n].begin + SizeOf(secs[n])
    BY <1>7
  <2>4. SizeOf(secs[n]) = image[n].stride * Len(image[n].rows)
    BY <1>2, <1>7
  <2> QED BY <2>2, <2>3, <2>4
<1>10. image[1].begin = 0
  BY <1>4, <1>7
<1>11. ASSUME NEW n \in 1..(N - 1) PROVE image[n + 1].begin = image[n].end
  <2>1. n \in 1..N /\ n + 1 \in 1..N /\ (n + 1) - 1 = n
    OBVIOUS
  <2>2. image[n + 1].begin = u[n] /\ image[n].end = u[n - 1] + sizes[n]
    BY <1>7, <2>1
  <2> QED BY <1>4, <2>1, <2>2
<1>12. LaidOut(image, N)
  BY <1>8, <1>9, <1>10, <1>11 DEF LaidOut
<1> QED BY <1>1, <1>7, <1>12

(* Sections begin and end in their order.                                  *)
LEMMA SectionsAscend ==
  ASSUME NEW N \in Nat \ {0}, NEW image, LaidOut(image, N),
         \A n \in 1..N : image[n].begin <= image[n].end,
         NEW m \in 1..N
  PROVE  \A n \in 1..N : m < n => image[m].end <= image[n].begin
<1> DEFINE T == {n \in Nat : n \in 1..N /\ m < n => image[m].end <= image[n].begin}
<1>1. 0 \in T
  OBVIOUS
<1>2. ASSUME NEW n \in Nat, n \in T PROVE n + 1 \in T
  <2>1. SUFFICES ASSUME n + 1 \in 1..N, m < n + 1 PROVE image[m].end <= image[n + 1].begin
    OBVIOUS
  <2>2. n \in 1..(N - 1) /\ n \in 1..N
    BY <2>1
  <2>3. image[n + 1].begin = image[n].end
    BY <2>2 DEF LaidOut
  <2>4. image[m].end \in Nat /\ image[n].begin \in Nat /\ image[n].end \in Nat /\ image[n].begin <= image[n].end
    BY <2>2 DEF LaidOut
  <2>5. CASE m = n
    BY <2>3, <2>4, <2>5
  <2>6. CASE m < n
    <3>1. image[m].end <= image[n].begin
      BY <1>2, <2>2, <2>6
    <3> QED BY <2>3, <2>4, <3>1
  <2> QED BY <2>1, <2>5, <2>6
<1> HIDE DEF T
<1>3. \A n \in Nat : n \in T
  BY <1>1, <1>2, AllNumbers
<1> QED BY <1>3 DEF T

LEMMA RowAndField ==
  ASSUME NEW s \in Nat \ {0}, NEW a \in Nat, NEW x \in 0..(s - 1)
  PROVE  (a * s + x) % s = x /\ (a * s + x) \div s = a
<1> DEFINE y == a * s + x
           q == y \div s
           r == y % s
<1>1. a * s \in Nat /\ y \in Nat
  OBVIOUS
<1>2. q \in Int /\ r \in 0..(s - 1) /\ y = s * q + r
  <2> HIDE DEF y
  <2> QED BY <1>1
<1> HIDE DEF q, r
<1>3. s * (q - a) = x - r
  BY <1>2
<1>4. q - a \in Int
  BY <1>2
<1>5. CASE q - a >= 1
  <2>1. s * (q - a) >= s
    BY <1>4, <1>5
  <2> QED BY <1>2, <1>3, <2>1
<1>6. CASE q - a <= -1
  <2>1. s * (q - a) <= -s
    BY <1>4, <1>6
  <2> QED BY <1>2, <1>3, <2>1
<1>7. CASE q = a
  BY <1>2, <1>7 DEF q, r
<1> QED BY <1>4, <1>5, <1>6, <1>7, <1>2

LEMMA FieldsAscend ==
  ASSUME NEW w \in Nat \ {0}, NEW s, FieldsOf(s, w), NEW f \in 1..w
  PROVE  /\ \A g \in 1..w : f < g => s.at[f] + s.widths[f] <= s.at[g]
         /\ s.at[f] + s.widths[f] <= s.stride
         /\ s.at[f] \in Nat /\ s.widths[f] \in Nat \ {0} /\ s.at[f] < s.stride
<1>1. \A g \in 1..w : s.at[g] \in Nat /\ s.widths[g] \in Nat \ {0}
  BY DEF FieldsOf
<1>2. \A g \in 1..(w - 1) : s.at[g + 1] = s.at[g] + s.widths[g]
  BY DEF FieldsOf
<1> DEFINE T == {g \in Nat : g \in 1..w /\ f < g => s.at[f] + s.widths[f] <= s.at[g]}
<1>3. 0 \in T
  OBVIOUS
<1>4. ASSUME NEW g \in Nat, g \in T PROVE g + 1 \in T
  <2>1. SUFFICES ASSUME g + 1 \in 1..w, f < g + 1 PROVE s.at[f] + s.widths[f] <= s.at[g + 1]
    OBVIOUS
  <2>2. g \in 1..(w - 1) /\ g \in 1..w
    BY <2>1
  <2>3. s.at[g + 1] = s.at[g] + s.widths[g]
    BY <1>2, <2>2
  <2>4. s.at[g] \in Nat /\ s.widths[g] \in Nat /\ s.at[f] \in Nat /\ s.widths[f] \in Nat
    BY <1>1, <2>2
  <2>5. CASE f = g
    BY <2>3, <2>4, <2>5
  <2>6. CASE f < g
    <3>1. s.at[f] + s.widths[f] <= s.at[g]
      BY <1>4, <2>2, <2>6
    <3> QED BY <2>3, <2>4, <3>1
  <2> QED BY <2>1, <2>5, <2>6
<1> HIDE DEF T
<1>5. \A g \in Nat : g \in T
  BY <1>3, <1>4, AllNumbers
<1>6. \A g \in 1..w : f < g => s.at[f] + s.widths[f] <= s.at[g]
  BY <1>5 DEF T
<1>7. s.stride = s.at[w] + s.widths[w] /\ s.stride \in Nat /\ w \in 1..w
  BY DEF FieldsOf
<1>8. s.at[f] + s.widths[f] <= s.stride
  <2>1. s.at[w] \in Nat /\ s.widths[w] \in Nat /\ s.at[f] \in Nat /\ s.widths[f] \in Nat
    BY <1>1, <1>7
  <2>2. CASE f = w
    BY <1>7, <2>1, <2>2
  <2>3. CASE f < w
    BY <1>6, <1>7, <2>1, <2>3
  <2> QED BY <2>2, <2>3
<1>9. s.at[f] \in Nat /\ s.widths[f] \in Nat \ {0}
  BY <1>1
<1> QED BY <1>6, <1>7, <1>8, <1>9

LEMMA RowFits ==
  ASSUME NEW s \in Nat, NEW a \in Nat, NEW l \in Nat, a + 1 <= l
  PROVE  a * s \in Nat /\ s * l \in Nat /\ a * s + s <= s * l
<1>1. a * s \in Nat /\ s * l \in Nat
  OBVIOUS
<1>2. a * s + s = s * (a + 1)
  OBVIOUS
<1>3. s * (a + 1) <= s * l
  OBVIOUS
<1> QED BY <1>1, <1>2, <1>3

(* What is read at a cell's offset and in its width is the cell.           *)
LEMMA ReadsTheCell ==
  ASSUME NEW N \in Nat \ {0}, NEW img, file.image = img, LaidOut(img, N),
         \A m \in 1..N : img[m].begin <= img[m].end,
         NEW n \in 1..N, NEW w \in Nat \ {0}, FieldsOf(img[n], w),
         Len(img[n].rows) \in Nat, NEW r \in 1..Len(img[n].rows), NEW f \in 1..w,
         NEW offset, offset = img[n].begin + (r - 1) * img[n].stride + img[n].at[f],
         NEW width, width = img[n].widths[f],
         file.size \in Nat, offset + width <= file.size
  PROVE  Read(offset, width) = img[n].rows[r][f]
<1> DEFINE s == img[n]
           a == r - 1
           x == s.at[f]
           rowAt == a * s.stride
<1>1. /\ s.at[f] + s.widths[f] <= s.stride /\ s.at[f] \in Nat /\ s.widths[f] \in Nat \ {0}
      /\ s.at[f] < s.stride /\ s.stride \in Nat
  BY FieldsAscend DEF FieldsOf
<1>2. s.begin \in Nat /\ s.end \in Nat /\ s.end = s.begin + s.stride * Len(s.rows)
  BY DEF LaidOut
<1>3. a \in Nat /\ a + 1 <= Len(s.rows) /\ Len(s.rows) \in Nat /\ a + 1 = r
  OBVIOUS
<1>4. /\ rowAt \in Nat
      /\ rowAt + s.stride <= s.stride * Len(s.rows)
  BY <1>1, <1>3, RowFits
<1>5. offset = s.begin + rowAt + x
  OBVIOUS
<1>6. s.begin <= offset /\ offset < s.end /\ offset \in Nat /\ offset - s.begin = rowAt + x
  <2>1. s.stride * Len(s.rows) \in Nat
    BY <1>1, <1>3, RowFits
  <2>2. x \in Nat /\ x < s.stride
    BY <1>1
  <2> HIDE DEF s, a, x, rowAt
  <2>3. s.begin <= offset /\ offset \in Nat /\ offset - s.begin = rowAt + x
    <3>1. rowAt \in Nat /\ s.begin \in Nat
      BY <1>2, <1>4
    <3>2. offset = s.begin + rowAt + x
      BY <1>5 DEF s, a, x, rowAt
    <3> DEFINE b == s.begin
    <3> HIDE DEF b
    <3>3. b \in Nat /\ offset = b + rowAt + x
      BY <3>1, <3>2 DEF b
    <3>4. b <= offset /\ offset \in Nat /\ offset - b = rowAt + x
      BY SMTT(30), <2>2, <3>1, <3>3
    <3> QED BY <3>4 DEF b
  <2>4. rowAt + x < s.stride * Len(s.rows)
    BY <1>1, <1>4, <2>1, <2>2
  <2> QED BY <1>2, <1>4, <1>5, <2>1, <2>2, <2>3, <2>4
<1>7. (offset - s.begin) % s.stride = x /\ (offset - s.begin) \div s.stride = a
  <2>1. s.stride \in Nat \ {0} /\ x \in 0..(s.stride - 1)
    BY SMTT(30), <1>1
  <2>2. (a * s.stride + x) % s.stride = x /\ (a * s.stride + x) \div s.stride = a
    BY <1>3, <2>1, RowAndField
  <2> QED BY <1>6, <2>2
<1> DEFINE here == {m \in DOMAIN file.image :
                      file.image[m].begin <= offset /\ offset < file.image[m].end}
<1>8. here = {n}
  <2>1. DOMAIN file.image = 1..N
    BY DEF LaidOut
  <2>2. n \in here
    BY <1>6, <2>1
  <2>3. ASSUME NEW m \in here PROVE m = n
    <3>1. m \in 1..N /\ img[m].begin <= offset /\ offset < img[m].end
      BY <2>1
    <3>2. img[m].begin \in Nat /\ img[m].end \in Nat
      BY <3>1 DEF LaidOut
    <3>3. (m < n => img[m].end <= s.begin) /\ (n < m => s.end <= img[m].begin)
      BY <3>1, SectionsAscend
    <3> QED BY SMTT(30), <1>2, <1>6, <3>1, <3>2, <3>3
  <2> QED BY <2>2, <2>3
<1> DEFINE sec == file.image[CHOOSE m \in here : TRUE]
           fields == {g \in DOMAIN sec.widths :
                        sec.widths[g] = width /\ sec.at[g] = (offset - sec.begin) % sec.stride}
<1>9. sec = s
  <2>1. (CHOOSE m \in here : TRUE) = n
    BY <1>8
  <2> QED BY <2>1
<1>10. fields = {f}
  <2>1. DOMAIN s.widths = 1..w
    BY DEF FieldsOf
  <2>2. fields = {g \in 1..w : s.widths[g] = width /\ s.at[g] = x}
    BY <1>7, <1>9, <2>1
  <2>3. \A g \in 1..w : s.at[g] \in Nat /\ (g < f => s.at[g] + s.widths[g] <= s.at[f])
                        /\ (f < g => s.at[f] + s.widths[f] <= s.at[g]) /\ s.widths[g] \in Nat \ {0}
    BY FieldsAscend
  <2>4. ASSUME NEW g \in 1..w, s.at[g] = x PROVE g = f
    <3> HIDE DEF s
    <3>1. s.at[g] = s.at[f] /\ s.widths[g] \in Nat \ {0} /\ s.widths[f] \in Nat \ {0} /\ s.at[f] \in Nat
      BY <1>1, <2>3, <2>4
    <3>2. ~(g < f)
      BY SMTT(30), <2>3, <3>1
    <3>3. ~(f < g)
      BY SMTT(30), <2>3, <3>1
    <3> QED BY <3>2, <3>3
  <2> QED BY <2>2, <2>4
<1>11. ~(here = {} \/ offset + width > file.size)
  <2>1. offset + width \in Nat
    BY <1>1, <1>6
  <2> QED BY <1>8, <2>1
<1>12. Read(offset, width)
         = IF here = {} \/ offset + width > file.size THEN Garbage
           ELSE IF fields = {} THEN Garbage
           ELSE sec.rows[(offset - sec.begin) \div sec.stride + 1][CHOOSE g \in fields : TRUE]
  BY Zenon DEF Read
<1> HIDE DEF here, sec, fields
<1>13. (CHOOSE g \in fields : TRUE) = f
  BY <1>10
<1>14. (offset - sec.begin) \div sec.stride + 1 = r
  BY <1>3, <1>7, <1>9
<1> QED BY <1>9, <1>10, <1>11, <1>12, <1>13, <1>14

-----------------------------------------------------------------------------
(* The image of the file.                                                  *)

(* What the layout needs to know of what is laid out.                      *)
Shape(predicates, roots, nodes, lanes) ==
  /\ Cardinality(DOMAIN predicates) \in Nat
  /\ Len(roots) \in Nat /\ Len(nodes) \in Nat
  /\ Len(lanes) \in Nat /\ Len(lanes) % LANES = 0

LEMMA NineSections ==
  ASSUME NEW a, NEW b, NEW c, NEW d, NEW e, NEW f, NEW g, NEW h, NEW i
  PROVE  <<a, b, c, d, e, f>> \o <<g, h, i>> = <<a, b, c, d, e, f, g, h, i>>
<1> DEFINE V == {a, b, c, d, e, f, g, h, i}
           s == <<a, b, c, d, e, f>>
           t == <<g, h, i>>
           u == <<a, b, c, d, e, f, g, h, i>>
<1>1. s \in Seq(V) /\ t \in Seq(V) /\ u \in Seq(V)
  OBVIOUS
<1>2. Len(s) = 6 /\ Len(t) = 3 /\ Len(u) = 9
  OBVIOUS
<1>3. /\ s[1] = a /\ s[2] = b /\ s[3] = c /\ s[4] = d /\ s[5] = e /\ s[6] = f
      /\ t[1] = g /\ t[2] = h /\ t[3] = i
      /\ u[1] = a /\ u[2] = b /\ u[3] = c /\ u[4] = d /\ u[5] = e /\ u[6] = f
      /\ u[7] = g /\ u[8] = h /\ u[9] = i
  OBVIOUS
<1> HIDE DEF V, s, t, u
<1>4. /\ s \o t \in Seq(V) /\ Len(s \o t) = Len(s) + Len(t)
      /\ \A k \in 1..(Len(s) + Len(t)) : (s \o t)[k] = IF k <= Len(s) THEN s[k] ELSE t[k - Len(s)]
  BY <1>1, ConcatProperties
<1> DEFINE L == Len(s) + Len(t)
<1>5. L = 9
  BY <1>2
<1> HIDE DEF L
<1>5a. ASSUME NEW k \in 1..9 PROVE (s \o t)[k] = IF k <= Len(s) THEN s[k] ELSE t[k - Len(s)]
  <2>1. k \in 1..L
    BY <1>5
  <2> QED BY <1>4, <2>1 DEF L
<1>5b. ASSUME NEW k \in 1..6 PROVE (s \o t)[k] = s[k]
  <2>1. k \in 1..9 /\ k <= Len(s)
    BY <1>2
  <2> QED BY <1>5a, <2>1
<1>5c. ASSUME NEW j \in 1..3 PROVE (s \o t)[j + 6] = t[j]
  <2>1. j + 6 \in 1..9 /\ ~(j + 6 <= Len(s)) /\ (j + 6) - Len(s) = j
    BY <1>2
  <2>2. (s \o t)[j + 6] = IF j + 6 <= Len(s) THEN s[j + 6] ELSE t[(j + 6) - Len(s)]
    BY <1>5a, <2>1
  <2> QED BY <2>1, <2>2
<1>6. \A k \in 1..9 : k \in {1, 2, 3, 4, 5, 6, 7, 8, 9}
  OBVIOUS
<1>7. \A k \in 1..9 : (s \o t)[k] = u[k]
  <2>1. \A k \in 1..6 : (s \o t)[k] = u[k]
    <3>1. \A k \in 1..6 : k \in {1, 2, 3, 4, 5, 6}
      OBVIOUS
    <3>2. \A k \in 1..6 : s[k] = u[k]
      BY <1>3, <3>1
    <3> QED BY <1>5b, <3>2
  <2>2. 7 = 1 + 6 /\ 8 = 2 + 6 /\ 9 = 3 + 6 /\ 1 \in 1..3 /\ 2 \in 1..3 /\ 3 \in 1..3
    OBVIOUS
  <2>3. (s \o t)[7] = t[1] /\ (s \o t)[8] = t[2] /\ (s \o t)[9] = t[3]
    BY <1>5c, <2>2
  <2>4. \A k \in 1..9 : k \in 1..6 \/ k = 7 \/ k = 8 \/ k = 9
    BY <1>6
  <2> QED BY <1>3, <2>1, <2>3, <2>4
<1>8. s \o t = u
  <2>1. Len(s \o t) = 9
    BY <1>4, <1>5 DEF L
  <2>2. \A k \in 1..Len(u) : (s \o t)[k] = u[k]
    BY <1>2, <1>7
  <2> QED BY <1>1, <1>2, <1>4, <2>1, <2>2, SeqEqual
<1> QED BY <1>8 DEF s, t, u

LEMMA HeaderFields ==
  ASSUME NEW rows, NEW s, s = Section(HeaderWidths, rows)
  PROVE  /\ FieldsOf(s, 12) /\ s.stride = 42 /\ s.rows = rows
         /\ s.at[1] = 0 /\ s.at[2] = 8 /\ s.at[3] = 12 /\ s.at[4] = 16 /\ s.at[5] = 20 /\ s.at[6] = 24
         /\ s.at[7] = 28 /\ s.at[8] = 32 /\ s.at[9] = 34 /\ s.at[10] = 36 /\ s.at[11] = 38 /\ s.at[12] = 40
         /\ s.widths[1] = 8 /\ \A f \in 2..7 : s.widths[f] = 4
         /\ \A f \in 8..12 : s.widths[f] = 2
<1> DEFINE w == HeaderWidths
<1>1. w \in [1..12 -> Nat \ {0}]
  BY DEF HeaderWidths
<1>2. FieldsOf(s, 12) /\ s.rows = rows /\ s.widths = w
  <2> DEFINE n == 12
  <2>1. s = Section(w, rows) /\ n \in Nat \ {0} /\ w \in [1..n -> Nat \ {0}]
    BY <1>1
  <2> HIDE DEF w, n
  <2>2. FieldsOf(s, n) /\ s.rows = rows /\ s.widths = w
    BY <2>1, SectionIsLaidOut
  <2> QED BY <2>2 DEF n
<1>3. /\ s.widths[1] = 8 /\ s.widths[2] = 4 /\ s.widths[3] = 4 /\ s.widths[4] = 4 /\ s.widths[5] = 4
      /\ s.widths[6] = 4 /\ s.widths[7] = 4 /\ s.widths[8] = 2 /\ s.widths[9] = 2 /\ s.widths[10] = 2
      /\ s.widths[11] = 2 /\ s.widths[12] = 2
  BY <1>2 DEF HeaderWidths
<1> HIDE DEF w
<1>4. /\ s.at[1] = 0 /\ s.stride = s.at[12] + s.widths[12]
      /\ \A f \in 1..11 : s.at[f + 1] = s.at[f] + s.widths[f]
  BY <1>2 DEF FieldsOf
<1>5. /\ s.at[2] = s.at[1] + s.widths[1] /\ s.at[3] = s.at[2] + s.widths[2]
      /\ s.at[4] = s.at[3] + s.widths[3] /\ s.at[5] = s.at[4] + s.widths[4]
      /\ s.at[6] = s.at[5] + s.widths[5] /\ s.at[7] = s.at[6] + s.widths[6]
      /\ s.at[8] = s.at[7] + s.widths[7] /\ s.at[9] = s.at[8] + s.widths[8]
      /\ s.at[10] = s.at[9] + s.widths[9] /\ s.at[11] = s.at[10] + s.widths[10]
      /\ s.at[12] = s.at[11] + s.widths[11]
  BY <1>4
<1>6. s.at[2] = 8 /\ s.at[3] = 12 /\ s.at[4] = 16 /\ s.at[5] = 20 /\ s.at[6] = 24
  BY <1>3, <1>4, <1>5
<1>7. s.at[7] = 28 /\ s.at[8] = 32 /\ s.at[9] = 34 /\ s.at[10] = 36 /\ s.at[11] = 38 /\ s.at[12] = 40
  BY <1>3, <1>5, <1>6
<1>8. s.stride = 42
  BY <1>3, <1>4, <1>7
<1>9. (\A f \in 2..7 : s.widths[f] = 4) /\ \A f \in 8..12 : s.widths[f] = 2
  BY <1>3
<1> QED BY <1>2, <1>3, <1>4, <1>6, <1>7, <1>8, <1>9

LEMMA PredicateFields ==
  ASSUME NEW rows, NEW s, s = Section(<<1, 1, 2>>, rows)
  PROVE  /\ FieldsOf(s, 3) /\ s.stride = 4 /\ s.rows = rows
         /\ s.at[1] = 0 /\ s.at[2] = 1 /\ s.at[3] = 2
         /\ s.widths[1] = 1 /\ s.widths[2] = 1 /\ s.widths[3] = 2
<1> DEFINE w == <<1, 1, 2>>
<1>1. w \in [1..3 -> Nat \ {0}]
  OBVIOUS
<1>2. FieldsOf(s, 3) /\ s.rows = rows /\ s.widths = w
  <2> DEFINE n == 3
  <2>1. s = Section(w, rows) /\ n \in Nat \ {0} /\ w \in [1..n -> Nat \ {0}]
    BY <1>1
  <2> HIDE DEF w, n
  <2>2. FieldsOf(s, n) /\ s.rows = rows /\ s.widths = w
    BY <2>1, SectionIsLaidOut
  <2> QED BY <2>2 DEF n
<1>3. s.widths[1] = 1 /\ s.widths[2] = 1 /\ s.widths[3] = 2
  BY <1>2
<1> HIDE DEF w
<1>4. /\ s.at[1] = 0 /\ s.stride = s.at[3] + s.widths[3]
      /\ \A f \in 1..2 : s.at[f + 1] = s.at[f] + s.widths[f]
  BY <1>2 DEF FieldsOf
<1>5. s.at[2] = s.at[1] + s.widths[1] /\ s.at[3] = s.at[2] + s.widths[2]
  BY <1>4
<1> QED BY <1>2, <1>3, <1>4, <1>5

LEMMA PairFields ==
  ASSUME NEW rows, NEW s, s = Section(<<2, 2>>, rows)
  PROVE  /\ FieldsOf(s, 2) /\ s.stride = 4 /\ s.rows = rows
         /\ s.at[1] = 0 /\ s.at[2] = 2
         /\ s.widths[1] = 2 /\ s.widths[2] = 2
<1> DEFINE w == <<2, 2>>
<1>1. w \in [1..2 -> Nat \ {0}]
  OBVIOUS
<1>2. FieldsOf(s, 2) /\ s.rows = rows /\ s.widths = w
  <2> DEFINE n == 2
  <2>1. s = Section(w, rows) /\ n \in Nat \ {0} /\ w \in [1..n -> Nat \ {0}]
    BY <1>1
  <2> HIDE DEF w, n
  <2>2. FieldsOf(s, n) /\ s.rows = rows /\ s.widths = w
    BY <2>1, SectionIsLaidOut
  <2> QED BY <2>2 DEF n
<1>3. s.widths[1] = 2 /\ s.widths[2] = 2
  BY <1>2
<1> HIDE DEF w
<1>4. /\ s.at[1] = 0 /\ s.stride = s.at[2] + s.widths[2]
      /\ \A f \in 1..1 : s.at[f + 1] = s.at[f] + s.widths[f]
  BY <1>2 DEF FieldsOf
<1>5. s.at[2] = s.at[1] + s.widths[1]
  BY <1>4
<1> QED BY <1>2, <1>3, <1>4, <1>5

LEMMA SingleField ==
  ASSUME NEW width \in Nat \ {0}, NEW rows, NEW s, s = Section(<<width>>, rows)
  PROVE  /\ FieldsOf(s, 1) /\ s.stride = width /\ s.rows = rows
         /\ s.at[1] = 0 /\ s.widths[1] = width
<1> DEFINE w == <<width>>
<1>1. w \in [1..1 -> Nat \ {0}]
  OBVIOUS
<1>2. FieldsOf(s, 1) /\ s.rows = rows /\ s.widths = w
  <2> DEFINE n == 1
  <2>1. s = Section(w, rows) /\ n \in Nat \ {0} /\ w \in [1..n -> Nat \ {0}]
    BY <1>1
  <2> HIDE DEF w, n
  <2>2. FieldsOf(s, n) /\ s.rows = rows /\ s.widths = w
    BY <2>1, SectionIsLaidOut
  <2> QED BY <2>2 DEF n
<1>3. s.widths[1] = width
  BY <1>2
<1> HIDE DEF w
<1>4. s.at[1] = 0 /\ s.stride = s.at[1] + s.widths[1]
  BY <1>2 DEF FieldsOf
<1> QED BY <1>2, <1>3, <1>4

(* Where the four numbers and the box are.                                 *)
HasBoxFields(s) ==
  /\ s.at[1] = 0 /\ s.at[2] = 4 /\ s.at[3] = 8 /\ s.at[4] = 12
  /\ \A f \in 1..4 : s.widths[f] = 4
  /\ \A d \in 1..32 : s.widths[4 + d] = 2 /\ s.at[4 + d] = 16 + 2 * (d - 1)

LEMMA BoxFields ==
  ASSUME NEW rows, NEW s, s = Section(BoxWidths, rows)
  PROVE  FieldsOf(s, 36) /\ s.stride = 80 /\ s.rows = rows /\ HasBoxFields(s)
<1> DEFINE w == BoxWidths
           v == [d \in 1..(2 * PACKED_DIMS) |-> 2]
<1>1. PACKED_DIMS = 16
  BY IndexFileAssumption
<1>2. v = [d \in 1..32 |-> 2]
  BY <1>1
<1>3. v \in Seq(Nat \ {0}) /\ Len(v) = 32
  <2> DEFINE n == 32
  <2>0. n \in Nat /\ v \in [1..n -> Nat \ {0}]
    BY <1>2
  <2> HIDE DEF v, n
  <2>1. v \in Seq(Nat \ {0}) /\ DOMAIN v = 1..n
    BY <2>0
  <2>2. v \in Seq(Nat \ {0}) /\ DOMAIN v = 1..32
    BY <2>1 DEF n
  <2> QED BY <2>2, LenProperties
<1>4. \A d \in 1..32 : v[d] = 2
  BY <1>2
<1>5. <<4, 4, 4, 4>> \in Seq(Nat \ {0}) /\ Len(<<4, 4, 4, 4>>) = 4 /\ \A f \in 1..4 : <<4, 4, 4, 4>>[f] = 4
  OBVIOUS
<1>6. w = <<4, 4, 4, 4>> \o v
  BY DEF BoxWidths
<1> HIDE DEF v, w
<1> DEFINE h == <<4, 4, 4, 4>>
<1> HIDE DEF h
<1>6a. w = h \o v /\ h \in Seq(Nat \ {0}) /\ Len(h) = 4 /\ \A f \in 1..4 : h[f] = 4
  BY <1>5, <1>6 DEF h
<1>6b. /\ w \in Seq(Nat \ {0}) /\ Len(w) = Len(h) + Len(v)
       /\ \A f \in 1..(Len(h) + Len(v)) : w[f] = IF f <= Len(h) THEN h[f] ELSE v[f - Len(h)]
  BY ZenonT(30), <1>3, <1>6a, ConcatProperties
<1>7. /\ w \in Seq(Nat \ {0}) /\ Len(w) = 36
      /\ \A f \in 1..36 : w[f] = IF f <= 4 THEN h[f] ELSE v[f - 4]
  <2> DEFINE L == Len(h) + Len(v)
  <2>1. L = 36
    BY <1>3, <1>6a
  <2> HIDE DEF L
  <2>2. ASSUME NEW f \in 1..36 PROVE w[f] = IF f <= 4 THEN h[f] ELSE v[f - 4]
    <3>1. f \in 1..L
      BY <2>1
    <3>2. w[f] = IF f <= Len(h) THEN h[f] ELSE v[f - Len(h)]
      BY <1>6b, <3>1 DEF L
    <3> QED BY <1>6a, <3>2
  <2> QED BY <1>6b, <2>1, <2>2 DEF L
<1>8. w \in [1..36 -> Nat \ {0}]
  BY <1>7, LenProperties
<1>9. /\ \A f \in 1..4 : w[f] = 4
      /\ \A d \in 1..32 : w[4 + d] = 2
  <2>1. ASSUME NEW f \in 1..4 PROVE w[f] = 4
    <3>1. f \in 1..36 /\ f <= 4
      OBVIOUS
    <3> QED BY <1>6a, <1>7, <3>1
  <2>2. ASSUME NEW d \in 1..32 PROVE w[4 + d] = 2
    <3>1. 4 + d \in 1..36 /\ ~(4 + d <= 4) /\ (4 + d) - 4 = d
      OBVIOUS
    <3>2. w[4 + d] = v[d]
      BY <1>7, <3>1
    <3> QED BY <1>4, <3>2
  <2> QED BY <2>1, <2>2
<1>10. FieldsOf(s, 36) /\ s.rows = rows /\ s.widths = w
  <2> DEFINE n == 36
  <2>1. s = Section(w, rows) /\ n \in Nat \ {0} /\ w \in [1..n -> Nat \ {0}]
    BY <1>8 DEF w
  <2> HIDE DEF n
  <2>2. FieldsOf(s, n) /\ s.rows = rows /\ s.widths = w
    BY <2>1, SectionIsLaidOut
  <2> QED BY <2>2 DEF n
<1>11. /\ s.at[1] = 0 /\ s.stride = s.at[36] + w[36]
       /\ \A f \in 1..35 : s.at[f + 1] = s.at[f] + w[f]
  BY <1>10 DEF FieldsOf
<1>12. s.at[2] = 4 /\ s.at[3] = 8 /\ s.at[4] = 12 /\ s.at[5] = 16
  <2>1. s.at[2] = s.at[1] + w[1] /\ s.at[3] = s.at[2] + w[2] /\ s.at[4] = s.at[3] + w[3] /\ s.at[5] = s.at[4] + w[4]
    BY <1>11
  <2>2. w[1] = 4 /\ w[2] = 4 /\ w[3] = 4 /\ w[4] = 4
    BY <1>9
  <2> QED BY <1>11, <2>1, <2>2
<1> DEFINE T == {d \in Nat : d \in 0..31 => s.at[5 + d] = 16 + 2 * d}
<1>13. 0 \in T
  BY <1>12
<1>14. ASSUME NEW d \in Nat, d \in T PROVE d + 1 \in T
  <2>1. SUFFICES ASSUME d + 1 \in 0..31 PROVE s.at[5 + (d + 1)] = 16 + 2 * (d + 1)
    OBVIOUS
  <2>2. d \in 0..31 /\ 5 + d \in 1..35 /\ (5 + d) + 1 = 5 + (d + 1) /\ d + 1 \in 1..32 /\ 4 + (d + 1) = 5 + d
    BY <2>1
  <2>3. s.at[5 + (d + 1)] = s.at[5 + d] + w[5 + d]
    BY <1>11, <2>2
  <2>4. w[5 + d] = 2
    BY <1>9, <2>2
  <2>5. s.at[5 + d] = 16 + 2 * d
    BY <1>14, <2>2
  <2> QED BY <2>3, <2>4, <2>5
<1> HIDE DEF T
<1>15. \A d \in Nat : d \in T
  BY <1>13, <1>14, AllNumbers
<1>16. ASSUME NEW d \in 1..32 PROVE s.at[4 + d] = 16 + 2 * (d - 1)
  <2>1. d - 1 \in Nat /\ d - 1 \in 0..31 /\ 5 + (d - 1) = 4 + d
    OBVIOUS
  <2>2. s.at[5 + (d - 1)] = 16 + 2 * (d - 1)
    BY <1>15, <2>1 DEF T
  <2> QED BY <2>1, <2>2
<1>17. s.stride = 80
  <2>1. 32 \in 1..32 /\ 4 + 32 = 36 /\ 16 + 2 * (32 - 1) = 78
    OBVIOUS
  <2>2. s.at[36] = 78
    BY <1>16, <2>1
  <2>3. w[36] = 2
    BY <1>9, <2>1
  <2> QED BY <1>11, <2>2, <2>3
<1> QED BY <1>9, <1>10, <1>11, <1>12, <1>16, <1>17 DEF HasBoxFields

LEMMA LengthOfRows ==
  ASSUME NEW N \in Nat, NEW f, f = [n \in 1..N |-> f[n]]
  PROVE  Len(f) = N /\ DOMAIN f = 1..N
<1>1. DOMAIN f = 1..N
  OBVIOUS
<1> QED BY <1>1, LengthOfFunction

(* A section of the image is the section that was laid out.                *)
IsSection(s, t) == s.widths = t.widths /\ s.rows = t.rows /\ s.stride = t.stride /\ s.at = t.at

LEMMA HeaderLength ==
  ASSUME NEW in, NEW predicates, NEW roots, NEW nodes, NEW blocks,
         NEW s, s = HeaderSection(in, predicates, roots, nodes, blocks)
  PROVE  /\ FieldsOf(s, 12) /\ s.stride = 42 /\ Len(s.rows) = 1
         /\ s.rows[1] = <<MAGIC_V5, in.scale, PACKED_DIMS, Len(in.refs), Len(roots), Len(nodes), blocks,
                          SCHEME_ID_LEARNED_TREE, TreeDepth, 0, 0, Cardinality(DOMAIN predicates)>>
<1> DEFINE row == <<MAGIC_V5, in.scale, PACKED_DIMS, Len(in.refs), Len(roots), Len(nodes), blocks,
                    SCHEME_ID_LEARNED_TREE, TreeDepth, 0, 0, Cardinality(DOMAIN predicates)>>
<1>1. s = Section(HeaderWidths, <<row>>)
  BY Zenon DEF HeaderSection
<1> HIDE DEF row
<1>2. FieldsOf(s, 12) /\ s.stride = 42 /\ s.rows = <<row>>
  BY <1>1, HeaderFields
<1>3. Len(s.rows) = 1 /\ s.rows[1] = row
  BY <1>2
<1> QED BY <1>2, <1>3 DEF row

LEMMA PredicateLength ==
  ASSUME NEW predicates, Cardinality(DOMAIN predicates) \in Nat,
         NEW s, s = PredicateSection(predicates)
  PROVE  /\ FieldsOf(s, 3) /\ s.stride = 4 /\ Len(s.rows) = Cardinality(DOMAIN predicates)
         /\ s.rows = [k \in 1..Cardinality(DOMAIN predicates) |-> <<predicates[k - 1].dim, IF predicates[k - 1].enabled THEN 1 ELSE 0,
                                       predicates[k - 1].threshold>>]
<1>0. PICK n \in Nat : n = Cardinality(DOMAIN predicates)
  OBVIOUS
<1> DEFINE rows == [k \in 1..n |-> <<predicates[k - 1].dim, IF predicates[k - 1].enabled THEN 1 ELSE 0,
                                     predicates[k - 1].threshold>>]
<1>1. s = Section(<<1, 1, 2>>, rows)
  BY Zenon, <1>0 DEF PredicateSection
<1>2. rows = [k \in 1..n |-> rows[k]]
  OBVIOUS
<1> HIDE DEF rows
<1>3. FieldsOf(s, 3) /\ s.stride = 4 /\ s.rows = rows
  BY <1>1, PredicateFields
<1>4. Len(rows) = n
  BY <1>2, LengthOfRows
<1> QED BY <1>0, <1>3, <1>4 DEF rows

(* The rows of the partitions and of the nodes.                            *)
PartitionRow(roots, nodes, k) ==
  LET n == nodes[roots[k].root + 1]
  IN  <<roots[k].key, roots[k].root, 0, n.len>> \o n.min \o n.max

NodeRow(nodes, k) ==
  LET n == nodes[k]
  IN  <<n.left, n.right, n.start \div LANES, n.len>> \o n.min \o n.max

(* A number of rows, each of a number of bytes.                            *)
Rows(s, stride, n) == s.stride = stride /\ Len(s.rows) = n

LEMMA PartitionLength ==
  ASSUME NEW roots, NEW nodes, Len(roots) \in Nat
  PROVE  /\ FieldsOf(PartitionSection(roots, nodes), 36)
         /\ Rows(PartitionSection(roots, nodes), 80, Len(roots))
         /\ PartitionSection(roots, nodes).rows = [k \in 1..Len(roots) |-> PartitionRow(roots, nodes, k)]
<1> DEFINE s == PartitionSection(roots, nodes)
<1>0. PICK n \in Nat : n = Len(roots)
  OBVIOUS
<1> DEFINE rows == [k \in 1..n |-> PartitionRow(roots, nodes, k)]
<1>1. s = Section(BoxWidths, rows)
  BY Zenon, <1>0 DEF PartitionSection, PartitionRow
<1>2. rows = [k \in 1..n |-> rows[k]]
  OBVIOUS
<1> HIDE DEF rows
<1>3. FieldsOf(s, 36) /\ s.stride = 80 /\ s.rows = rows
  BY <1>1, BoxFields
<1>4. Len(rows) = n
  BY <1>2, LengthOfRows
<1> HIDE DEF s
<1> QED BY <1>0, <1>3, <1>4 DEF rows, s, Rows

LEMMA NodeLength ==
  ASSUME NEW nodes, Len(nodes) \in Nat,
         NEW s, s = NodeSection(nodes)
  PROVE  /\ FieldsOf(s, 36) /\ s.stride = 80 /\ Len(s.rows) = Len(nodes)
         /\ s.rows = [k \in 1..Len(nodes) |-> NodeRow(nodes, k)]
<1>0. PICK n \in Nat : n = Len(nodes)
  OBVIOUS
<1> DEFINE rows == [k \in 1..n |-> NodeRow(nodes, k)]
<1>1. s = Section(BoxWidths, rows)
  BY Zenon, <1>0 DEF NodeSection, NodeRow
<1>2. rows = [k \in 1..n |-> rows[k]]
  OBVIOUS
<1> HIDE DEF rows
<1>3. FieldsOf(s, 36) /\ s.stride = 80 /\ s.rows = rows
  BY <1>1, BoxFields
<1>4. Len(rows) = n
  BY <1>2, LengthOfRows
<1> QED BY <1>0, <1>3, <1>4 DEF rows

(* The row of the vector section that holds a pair of a lane.              *)
VectorRow(lanes, k) ==
  LET block == (k - 1) \div ((Dims \div 2) * LANES)
      pair  == ((k - 1) \div LANES) % (Dims \div 2)
      v     == lanes[block * LANES + ((k - 1) % LANES) + 1].vector
  IN  <<v[2 * pair + 1], v[2 * pair + 2]>>

PairsIn(blocks) == blocks * (Dims \div 2) * LANES

LEMMA VectorLength ==
  ASSUME NEW lanes, NEW blocks, PairsIn(blocks) \in Nat
  PROVE  /\ FieldsOf(VectorSection(lanes, blocks), 2) /\ Rows(VectorSection(lanes, blocks), 4, PairsIn(blocks))
         /\ VectorSection(lanes, blocks).at[1] = 0 /\ VectorSection(lanes, blocks).at[2] = 2
         /\ VectorSection(lanes, blocks).widths[1] = 2 /\ VectorSection(lanes, blocks).widths[2] = 2
         /\ VectorSection(lanes, blocks).rows = [k \in 1..PairsIn(blocks) |-> VectorRow(lanes, k)]
<1> DEFINE s == VectorSection(lanes, blocks)
<1>0. PICK n \in Nat : n = PairsIn(blocks)
  OBVIOUS
<1> DEFINE rows == [k \in 1..n |-> VectorRow(lanes, k)]
<1>1. s = Section(<<2, 2>>, rows)
  BY Zenon, <1>0 DEF VectorSection, PairsIn, VectorRow
<1>2. rows = [k \in 1..n |-> rows[k]]
  OBVIOUS
<1> HIDE DEF rows
<1>3. /\ FieldsOf(s, 2) /\ s.stride = 4 /\ s.rows = rows
      /\ s.at[1] = 0 /\ s.at[2] = 2 /\ s.widths[1] = 2 /\ s.widths[2] = 2
  BY <1>1, PairFields
<1>4. Len(rows) = n
  BY <1>2, LengthOfRows
<1> HIDE DEF s
<1> QED BY <1>0, <1>3, <1>4 DEF rows, s, Rows

LEMMA LabelLength ==
  ASSUME NEW lanes, Len(lanes) \in Nat, NEW s, s = LabelSection(lanes)
  PROVE  /\ FieldsOf(s, 1) /\ s.stride = 1 /\ Len(s.rows) = Len(lanes)
         /\ s.rows = [l \in 1..Len(lanes) |-> <<lanes[l].label>>] /\ s.at[1] = 0 /\ s.widths[1] = 1
<1>0. PICK n \in Nat : n = Len(lanes)
  OBVIOUS
<1> DEFINE rows == [l \in 1..n |-> <<lanes[l].label>>]
           width == 1
<1>1. s = Section(<<width>>, rows)
  BY Zenon, <1>0 DEF LabelSection
<1>1a. width \in Nat \ {0}
  OBVIOUS
<1>2. rows = [k \in 1..n |-> rows[k]]
  OBVIOUS
<1> HIDE DEF rows, width
<1>3. FieldsOf(s, 1) /\ s.stride = width /\ s.rows = rows /\ s.at[1] = 0 /\ s.widths[1] = width
  BY <1>1, <1>1a, SingleField
<1>4. Len(rows) = n
  BY <1>2, LengthOfRows
<1> QED BY <1>0, <1>3, <1>4 DEF rows, width

LEMMA IndexLength ==
  ASSUME NEW lanes, Len(lanes) \in Nat, NEW s, s = IndexSection(lanes)
  PROVE  /\ FieldsOf(s, 1) /\ s.stride = 4 /\ Len(s.rows) = Len(lanes)
         /\ s.rows = [l \in 1..Len(lanes) |-> <<lanes[l].index>>] /\ s.at[1] = 0 /\ s.widths[1] = 4
<1>0. PICK n \in Nat : n = Len(lanes)
  OBVIOUS
<1> DEFINE rows == [l \in 1..n |-> <<lanes[l].index>>]
           width == 4
<1>1. s = Section(<<width>>, rows)
  BY Zenon, <1>0 DEF IndexSection
<1>1a. width \in Nat \ {0}
  OBVIOUS
<1>2. rows = [k \in 1..n |-> rows[k]]
  OBVIOUS
<1> HIDE DEF rows, width
<1>3. FieldsOf(s, 1) /\ s.stride = width /\ s.rows = rows /\ s.at[1] = 0 /\ s.widths[1] = width
  BY <1>1, <1>1a, SingleField
<1>4. Len(rows) = n
  BY <1>2, LengthOfRows
<1> QED BY <1>0, <1>3, <1>4 DEF rows, width

LEMMA ClassLength ==
  ASSUME NEW nodes, Len(nodes) \in Nat, NEW s, s = ClassSection(nodes)
  PROVE  /\ FieldsOf(s, 1) /\ s.stride = 1 /\ Len(s.rows) = Len(nodes)
         /\ s.rows = [k \in 1..Len(nodes) |-> <<nodes[k].classBits>>] /\ s.at[1] = 0 /\ s.widths[1] = 1
<1>0. PICK n \in Nat : n = Len(nodes)
  OBVIOUS
<1> DEFINE rows == [k \in 1..n |-> <<nodes[k].classBits>>]
           width == 1
<1>1. s = Section(<<width>>, rows)
  BY Zenon, <1>0 DEF ClassSection
<1>1a. width \in Nat \ {0}
  OBVIOUS
<1>2. rows = [k \in 1..n |-> rows[k]]
  OBVIOUS
<1> HIDE DEF rows, width
<1>3. FieldsOf(s, 1) /\ s.stride = width /\ s.rows = rows /\ s.at[1] = 0 /\ s.widths[1] = width
  BY <1>1, <1>1a, SingleField
<1>4. Len(rows) = n
  BY <1>2, LengthOfRows
<1> QED BY <1>0, <1>3, <1>4 DEF rows, width

LEMMA PaddingLength ==
  ASSUME NEW end, NEW n, n = (4 - (end % 4)) % 4, n \in Nat, NEW s, s = PaddingSection(end)
  PROVE  FieldsOf(s, 1) /\ s.stride = 1 /\ Len(s.rows) = n
<1> DEFINE rows == [b \in 1..n |-> <<0>>]
           width == 1
<1>1. s = Section(<<width>>, rows)
  BY Zenon DEF PaddingSection
<1>1a. width \in Nat \ {0}
  OBVIOUS
<1>2. rows = [k \in 1..n |-> rows[k]]
  OBVIOUS
<1> HIDE DEF rows, width
<1>3. FieldsOf(s, 1) /\ s.stride = width /\ s.rows = rows
  BY <1>1, <1>1a, SingleField
<1>4. Len(rows) = n
  BY <1>2, LengthOfRows
<1> QED BY <1>3, <1>4 DEF rows, width

(* The sections of an image, and where they begin.                         *)
Begins(img, p, r, n, l) ==
  LET labelsEnd == 42 + 4 * p + 80 * r + 80 * n + 2 * Dims * l + l
      padding   == (4 - (labelsEnd % 4)) % 4
  IN  /\ img[1].begin = 0 /\ img[2].begin = 42 /\ img[3].begin = 42 + 4 * p
      /\ img[4].begin = 42 + 4 * p + 80 * r /\ img[5].begin = 42 + 4 * p + 80 * r + 80 * n
      /\ img[6].begin = 42 + 4 * p + 80 * r + 80 * n + 2 * Dims * l
      /\ img[7].begin = labelsEnd
      /\ img[8].begin = labelsEnd + padding
      /\ img[9].begin = labelsEnd + padding + 4 * l
      /\ img[9].end = labelsEnd + padding + 4 * l + n

IsImage(img, in, predicates, roots, nodes, lanes) ==
  /\ LaidOut(img, 9)
  /\ \A m \in 1..9 : img[m].begin <= img[m].end
  /\ IsSection(img[1], HeaderSection(in, predicates, roots, nodes, Len(lanes) \div LANES))
  /\ IsSection(img[2], PredicateSection(predicates))
  /\ IsSection(img[3], PartitionSection(roots, nodes))
  /\ IsSection(img[4], NodeSection(nodes))
  /\ IsSection(img[5], VectorSection(lanes, Len(lanes) \div LANES))
  /\ IsSection(img[6], LabelSection(lanes))
  /\ IsSection(img[8], IndexSection(lanes))
  /\ IsSection(img[9], ClassSection(nodes))
  /\ Begins(img, Cardinality(DOMAIN predicates), Len(roots), Len(nodes), Len(lanes))

(* A block has LANES lanes, a lane Dims values in pairs.                   *)
LEMMA VectorBytes ==
  ASSUME NEW l \in Nat, l % LANES = 0
  PROVE  /\ (l \div LANES) * (Dims \div 2) * LANES \in Nat
         /\ 4 * ((l \div LANES) * (Dims \div 2) * LANES) = 2 * Dims * l
         /\ l \div LANES \in Nat /\ (l \div LANES) * LANES = l
         /\ Dims \div 2 \in Nat \ {0} /\ 2 * (Dims \div 2) = Dims
<1>1. LANES \in Nat \ {0} /\ Dims \in Nat \ {0} /\ Dims % 2 = 0
  BY IndexFileAssumption, KdTreeAssumption
<1> DEFINE b == l \div LANES
           h == Dims \div 2
           L == LANES
           D == Dims
<1>2. b \in Nat /\ b * L = l
  <2>1. b \in Int /\ l = L * b + (l % L) /\ l \div L = b
    BY <1>1
  <2>2. b \in Nat
    BY <1>1
  <2> DEFINE m == l % L
  <2>3. l = L * b + m /\ m = 0 /\ L \in Nat /\ b \in Nat
    BY <1>1, <2>1, <2>2
  <2> HIDE DEF b, L, m
  <2> QED BY <2>3
<1>3. h \in Nat \ {0} /\ 2 * h = D
  BY <1>1
<1>4. L \in Nat
  BY <1>1
<1> HIDE DEF b, h, L, D
<1>5. b * h * L \in Nat
  BY <1>2, <1>3, <1>4
<1>6. 4 * (b * h * L) = 2 * (2 * h) * (b * L)
  BY <1>2, <1>3, <1>4
<1>7. 4 * (b * h * L) = 2 * D * l
  BY <1>2, <1>3, <1>6
<1> QED BY <1>2, <1>3, <1>5, <1>7 DEF b, h, L, D

LEMMA ProductIsNat ==
  ASSUME NEW a \in Nat, NEW b \in Nat
  PROVE  a * b \in Nat
OBVIOUS

LEMMA SectionsArePlaced ==
  ASSUME NEW N \in Nat \ {0}, NEW secs, DOMAIN secs = 1..N, Len(secs) = N,
         \A n \in 1..N : secs[n].stride \in Nat /\ Len(secs[n].rows) \in Nat,
         NEW img, img = Place(secs)
  PROVE  /\ LaidOut(img, N)
         /\ \A n \in 1..N : IsSection(img[n], secs[n]) /\ img[n].begin <= img[n].end
<1>1. /\ LaidOut(Place(secs), N)
      /\ \A n \in 1..N : /\ Place(secs)[n].widths = secs[n].widths
                         /\ Place(secs)[n].rows = secs[n].rows
                         /\ Place(secs)[n].stride = secs[n].stride
                         /\ Place(secs)[n].at = secs[n].at
  BY PlaceIsLaidOut
<1>2. LaidOut(img, N) /\ \A n \in 1..N : IsSection(img[n], secs[n])
  BY <1>1 DEF IsSection
<1>3. ASSUME NEW n \in 1..N PROVE img[n].begin <= img[n].end
  <2>1. img[n].begin \in Nat /\ img[n].end = img[n].begin + img[n].stride * Len(img[n].rows)
    BY <1>2 DEF LaidOut
  <2>2. img[n].stride \in Nat /\ Len(img[n].rows) \in Nat
    BY <1>2 DEF IsSection
  <2> DEFINE a == img[n].stride
             b == Len(img[n].rows)
             c == a * b
  <2>3. a \in Nat /\ b \in Nat /\ img[n].end = img[n].begin + c
    BY <2>1, <2>2
  <2>4. c \in Nat
    <3> HIDE DEF a, b
    <3> QED BY <2>3, ProductIsNat
  <2> HIDE DEF c
  <2> QED BY <2>1, <2>3, <2>4
<1> QED BY <1>2, <1>3

(* Bytes per row, and rows, of the first six sections.                     *)
SixSizes(img, p, r, n, v, l) ==
  /\ img[1].stride = 42 /\ Len(img[1].rows) = 1
  /\ img[2].stride = 4 /\ Len(img[2].rows) = p
  /\ img[3].stride = 80 /\ Len(img[3].rows) = r
  /\ img[4].stride = 80 /\ Len(img[4].rows) = n
  /\ img[5].stride = 4 /\ Len(img[5].rows) = v
  /\ img[6].stride = 1 /\ Len(img[6].rows) = l

(* The first six sections take 42 bytes and what follows.                  *)
SixBegins(img, p, r, n, v, l) ==
  /\ img[1].begin = 0 /\ img[2].begin = 42 /\ img[3].begin = 42 + 4 * p
  /\ img[4].begin = 42 + 4 * p + 80 * r /\ img[5].begin = 42 + 4 * p + 80 * r + 80 * n
  /\ img[6].begin = 42 + 4 * p + 80 * r + 80 * n + 4 * v
  /\ img[6].end = 42 + 4 * p + 80 * r + 80 * n + 4 * v + l

LEMMA SixEnds ==
  ASSUME NEW N \in Nat, N >= 6, NEW img, LaidOut(img, N),
         NEW p \in Nat, NEW r \in Nat, NEW n \in Nat, NEW v \in Nat, NEW l \in Nat,
         SixSizes(img, p, r, n, v, l)
  PROVE  SixBegins(img, p, r, n, v, l)
<1>1. /\ 1 \in 1..N /\ 2 \in 1..N /\ 3 \in 1..N /\ 4 \in 1..N /\ 5 \in 1..N /\ 6 \in 1..N
      /\ 1 \in 1..(N - 1) /\ 2 \in 1..(N - 1) /\ 3 \in 1..(N - 1) /\ 4 \in 1..(N - 1) /\ 5 \in 1..(N - 1)
  OBVIOUS
<1>a. \A m \in 1..N : img[m].end = img[m].begin + img[m].stride * Len(img[m].rows)
  BY DEF LaidOut
<1>b. img[1].end = img[1].begin + 42 * 1 /\ img[2].end = img[2].begin + 4 * p
  <2>1. img[1].end = img[1].begin + 42 * 1
    BY Zenon, <1>1, <1>a DEF SixSizes
  <2>2. img[2].end = img[2].begin + 4 * p
    BY ZenonT(30), <1>1, <1>a DEF SixSizes
  <2> QED BY <2>1, <2>2
<1>c. img[3].end = img[3].begin + 80 * r /\ img[4].end = img[4].begin + 80 * n
  BY ZenonT(30), <1>1, <1>a DEF SixSizes
<1>d. img[5].end = img[5].begin + 4 * v /\ img[6].end = img[6].begin + 1 * l
  BY ZenonT(30), <1>1, <1>a DEF SixSizes
<1>2. /\ img[1].end = img[1].begin + 42 * 1 /\ img[2].end = img[2].begin + 4 * p
      /\ img[3].end = img[3].begin + 80 * r /\ img[4].end = img[4].begin + 80 * n
      /\ img[5].end = img[5].begin + 4 * v /\ img[6].end = img[6].begin + 1 * l
  BY <1>b, <1>c, <1>d
<1>3. /\ img[1 + 1].begin = img[1].end /\ img[2 + 1].begin = img[2].end
      /\ img[3 + 1].begin = img[3].end /\ img[4 + 1].begin = img[4].end
      /\ img[5 + 1].begin = img[5].end /\ img[1].begin = 0
  BY <1>1 DEF LaidOut
<1>4. /\ img[2].begin = img[1].end /\ img[3].begin = img[2].end /\ img[4].begin = img[3].end
      /\ img[5].begin = img[4].end /\ img[6].begin = img[5].end /\ img[1].begin = 0
  BY <1>3
<1>5. img[2].begin = 42 /\ img[3].begin = 42 + 4 * p
  BY <1>2, <1>4
<1>6. img[4].begin = 42 + 4 * p + 80 * r /\ img[5].begin = 42 + 4 * p + 80 * r + 80 * n
  BY <1>2, <1>4, <1>5
<1>7. /\ img[6].begin = 42 + 4 * p + 80 * r + 80 * n + 4 * v
      /\ img[6].end = 42 + 4 * p + 80 * r + 80 * n + 4 * v + l
  BY <1>2, <1>4, <1>6
<1> QED BY <1>4, <1>5, <1>6, <1>7 DEF SixBegins

LEMMA ImageIsLaidOut ==
  ASSUME NEW in, NEW predicates, NEW roots, NEW nodes, NEW lanes, Shape(predicates, roots, nodes, lanes),
         NEW img, img = Image(in, predicates, roots, nodes, lanes)
  PROVE  IsImage(img, in, predicates, roots, nodes, lanes)
<1> DEFINE blocks == Len(lanes) \div LANES
           a == HeaderSection(in, predicates, roots, nodes, blocks)
           b == PredicateSection(predicates)
           c == PartitionSection(roots, nodes)
           d == NodeSection(nodes)
           e == VectorSection(lanes, blocks)
           f == LabelSection(lanes)
           firstSix == <<a, b, c, d, e, f>>
           six == Place(firstSix)
           end == six[6].end
           g == PaddingSection(end)
           h == IndexSection(lanes)
           i == ClassSection(nodes)
           all == <<a, b, c, d, e, f, g, h, i>>
           P == Cardinality(DOMAIN predicates)
           R == Len(roots)
           N == Len(nodes)
           L == Len(lanes)
           V == PairsIn(blocks)
<1>1. img = Place(firstSix \o <<g, h, i>>)
  BY Zenon DEF Image
<1>2. P \in Nat /\ R \in Nat /\ N \in Nat /\ L \in Nat /\ L % LANES = 0
  BY DEF Shape
<1>3. V \in Nat /\ 4 * V = 2 * Dims * L /\ Dims \in Nat
  BY <1>2, VectorBytes, KdTreeAssumption DEF PairsIn
<1>4. a.stride = 42 /\ Len(a.rows) = 1
  BY HeaderLength
<1>5. b.stride = 4 /\ Len(b.rows) = P
  BY <1>2, PredicateLength
<1>6. c.stride = 80 /\ Len(c.rows) = R
  <2>1. Len(roots) \in Nat
    BY <1>2
  <2>2. Rows(PartitionSection(roots, nodes), 80, Len(roots))
    BY <2>1, PartitionLength
  <2> QED BY <2>2 DEF Rows
<1>7. d.stride = 80 /\ Len(d.rows) = N
  BY ZenonT(30), <1>2, NodeLength
<1>8. e.stride = 4 /\ Len(e.rows) = V
  <2>1. PairsIn(blocks) \in Nat
    BY <1>3
  <2> HIDE DEF blocks
  <2>2. Rows(VectorSection(lanes, blocks), 4, PairsIn(blocks))
    BY <2>1, VectorLength
  <2> QED BY <2>2 DEF Rows
<1>9. f.stride = 1 /\ Len(f.rows) = L
  BY <1>2, LabelLength
<1>10. h.stride = 4 /\ Len(h.rows) = L
  BY <1>2, IndexLength
<1>11. i.stride = 1 /\ Len(i.rows) = N
  BY <1>2, ClassLength
<1> HIDE DEF a, b, c, d, e, f, h, i, P, R, N, L, V
<1>12. LaidOut(six, 6) /\ \A n \in 1..6 : IsSection(six[n], firstSix[n])
  <2> DEFINE M == 6
  <2>1. DOMAIN firstSix = 1..M /\ Len(firstSix) = M
    OBVIOUS
  <2>2. \A n \in 1..6 : firstSix[n].stride \in Nat /\ Len(firstSix[n].rows) \in Nat
    <3>1. \A n \in 1..6 : n \in {1, 2, 3, 4, 5, 6}
      OBVIOUS
    <3> QED BY <1>2, <1>3, <1>4, <1>5, <1>6, <1>7, <1>8, <1>9, <3>1
  <2>3. M \in Nat \ {0} /\ \A n \in 1..M : firstSix[n].stride \in Nat /\ Len(firstSix[n].rows) \in Nat
    BY <2>2
  <2> HIDE DEF M, firstSix
  <2>4. LaidOut(six, M) /\ \A n \in 1..M : IsSection(six[n], firstSix[n])
    BY <2>1, <2>3, SectionsArePlaced
  <2> QED BY <2>4 DEF M
<1>13. firstSix[1] = a /\ firstSix[2] = b /\ firstSix[3] = c /\ firstSix[4] = d /\ firstSix[5] = e /\ firstSix[6] = f
  OBVIOUS
<1>14. /\ IsSection(six[1], a) /\ IsSection(six[2], b) /\ IsSection(six[3], c)
       /\ IsSection(six[4], d) /\ IsSection(six[5], e) /\ IsSection(six[6], f)
  <2> HIDE DEF six, firstSix
  <2> QED BY <1>12, <1>13
<1>15. firstSix \o <<g, h, i>> = all
  BY NineSections
<1> HIDE DEF firstSix, six
<1>15a. SixBegins(six, P, R, N, V, L)
  <2> DEFINE M == 6
  <2>1. M \in Nat /\ M >= 6 /\ LaidOut(six, M)
    BY <1>12
  <2>2. SixSizes(six, P, R, N, V, L)
    BY <1>4, <1>5, <1>6, <1>7, <1>8, <1>9, <1>14 DEF IsSection, SixSizes
  <2> HIDE DEF M
  <2> QED BY <1>2, <1>3, <2>1, <2>2, SixEnds
<1>16. end = 42 + 4 * P + 80 * R + 80 * N + 4 * V + L
  BY <1>15a DEF SixBegins
<1> DEFINE padding == (4 - (end % 4)) % 4
<1>17. end \in Nat /\ padding \in Nat
  <2>1. end \in Nat
    BY <1>2, <1>3, <1>16
  <2> HIDE DEF end
  <2> QED BY <2>1
<1> HIDE DEF end
<1>18. g.stride = 1 /\ Len(g.rows) = padding
  BY <1>17, PaddingLength
<1> HIDE DEF g, padding
<1>19. LaidOut(img, 9) /\ \A n \in 1..9 : IsSection(img[n], all[n]) /\ img[n].begin <= img[n].end
  <2> DEFINE M == 9
  <2>1. DOMAIN all = 1..M /\ Len(all) = M
    OBVIOUS
  <2>2. \A n \in 1..9 : all[n].stride \in Nat /\ Len(all[n].rows) \in Nat
    <3>1. \A n \in 1..9 : n \in {1, 2, 3, 4, 5, 6, 7, 8, 9}
      OBVIOUS
    <3> QED BY SMTT(30), <1>2, <1>3, <1>4, <1>5, <1>6, <1>7, <1>8, <1>9, <1>10, <1>11, <1>17, <1>18, <3>1
  <2>3. M \in Nat \ {0} /\ \A n \in 1..M : all[n].stride \in Nat /\ Len(all[n].rows) \in Nat
    BY <2>2
  <2>4. img = Place(all)
    BY <1>1, <1>15
  <2> HIDE DEF M, all
  <2>5. LaidOut(img, M) /\ \A n \in 1..M : IsSection(img[n], all[n]) /\ img[n].begin <= img[n].end
    BY <2>1, <2>3, <2>4, SectionsArePlaced
  <2> QED BY <2>5 DEF M
<1>20. /\ all[1] = a /\ all[2] = b /\ all[3] = c /\ all[4] = d /\ all[5] = e /\ all[6] = f
       /\ all[7] = g /\ all[8] = h /\ all[9] = i
  OBVIOUS
<1> HIDE DEF all
<1>21. /\ IsSection(img[1], a) /\ IsSection(img[2], b) /\ IsSection(img[3], c)
       /\ IsSection(img[4], d) /\ IsSection(img[5], e) /\ IsSection(img[6], f)
       /\ IsSection(img[7], g) /\ IsSection(img[8], h) /\ IsSection(img[9], i)
  BY <1>19, <1>20
<1>21a. SixBegins(img, P, R, N, V, L)
  <2> DEFINE M == 9
  <2>1. M \in Nat /\ M >= 6 /\ LaidOut(img, M)
    BY <1>19
  <2>2. SixSizes(img, P, R, N, V, L)
    BY <1>4, <1>5, <1>6, <1>7, <1>8, <1>9, <1>21 DEF IsSection, SixSizes
  <2> HIDE DEF M
  <2> QED BY <1>2, <1>3, <2>1, <2>2, SixEnds
<1>22. /\ img[1].begin = 0 /\ img[2].begin = 42 /\ img[3].begin = 42 + 4 * P
       /\ img[4].begin = 42 + 4 * P + 80 * R /\ img[5].begin = 42 + 4 * P + 80 * R + 80 * N
       /\ img[6].begin = 42 + 4 * P + 80 * R + 80 * N + 4 * V
       /\ img[6].end = 42 + 4 * P + 80 * R + 80 * N + 4 * V + L
  BY <1>21a DEF SixBegins
<1>23. img[6].end = end
  BY <1>16, <1>22
<1>24. /\ img[7].begin = end /\ img[7].end = end + padding
       /\ img[8].begin = end + padding /\ img[8].end = end + padding + 4 * L
       /\ img[9].begin = end + padding + 4 * L /\ img[9].end = end + padding + 4 * L + N
  <2>1. /\ img[7].stride = 1 /\ Len(img[7].rows) = padding /\ img[8].stride = 4 /\ Len(img[8].rows) = L
        /\ img[9].stride = 1 /\ Len(img[9].rows) = N
    BY <1>10, <1>11, <1>18, <1>21 DEF IsSection
  <2>2. /\ img[6 + 1].begin = img[6].end /\ img[7 + 1].begin = img[7].end /\ img[8 + 1].begin = img[8].end
    BY <1>19 DEF LaidOut
  <2>3. img[7].begin = img[6].end /\ img[8].begin = img[7].end /\ img[9].begin = img[8].end
    BY <2>2
  <2>4. \A m \in 1..9 : img[m].end = img[m].begin + img[m].stride * Len(img[m].rows)
    BY <1>19 DEF LaidOut
  <2>4a. 7 \in 1..9 /\ 8 \in 1..9 /\ 9 \in 1..9
    OBVIOUS
  <2>5. img[7].end = img[7].begin + 1 * padding
    BY Zenon, <2>1, <2>4, <2>4a
  <2>6. img[8].end = img[8].begin + 4 * L
    BY Zenon, <2>1, <2>4, <2>4a
  <2>7. img[9].end = img[9].begin + 1 * N
    BY Zenon, <2>1, <2>4, <2>4a
  <2>8. img[7].begin = end /\ img[7].end = end + padding
    BY <1>17, <1>23, <2>3, <2>5
  <2>9. img[8].begin = end + padding /\ img[8].end = end + padding + 4 * L
    BY <2>3, <2>6, <2>8
  <2> QED BY <1>2, <1>17, <2>3, <2>7, <2>8, <2>9
<1>25. Begins(img, P, R, N, L)
  <2>1. end = 42 + 4 * P + 80 * R + 80 * N + 2 * Dims * L + L
    BY <1>3, <1>16
  <2>2. img[6].begin = 42 + 4 * P + 80 * R + 80 * N + 2 * Dims * L
    BY <1>3, <1>22
  <2> DEFINE labelsEnd == 42 + 4 * P + 80 * R + 80 * N + 2 * Dims * L + L
  <2>3. end = labelsEnd /\ padding = (4 - (labelsEnd % 4)) % 4
    BY <2>1 DEF padding
  <2> HIDE DEF labelsEnd
  <2>4. /\ img[7].begin = labelsEnd /\ img[8].begin = labelsEnd + ((4 - (labelsEnd % 4)) % 4)
        /\ img[9].begin = labelsEnd + ((4 - (labelsEnd % 4)) % 4) + 4 * L
        /\ img[9].end = labelsEnd + ((4 - (labelsEnd % 4)) % 4) + 4 * L + N
    BY <1>24, <2>3
  <2> QED BY Zenon, <1>22, <2>2, <2>4 DEF Begins, labelsEnd
<1> QED BY <1>19, <1>21, <1>25 DEF IsImage, a, b, c, d, e, f, h, i, P, R, N, L, blocks

-----------------------------------------------------------------------------
(* What is read of the file.                                               *)

(* A cell of a section, and where it is.                                   *)
IsCell(s, w, r, f, offset, width) ==
  /\ FieldsOf(s, w) /\ Len(s.rows) \in Nat
  /\ r \in 1..Len(s.rows) /\ f \in 1..w
  /\ offset = s.begin + (r - 1) * s.stride + s.at[f]
  /\ width = s.widths[f]

(* The file holds as much of the image as its size.                        *)
LEMMA CellOfImage ==
  ASSUME NEW in, NEW predicates, NEW roots, NEW nodes, NEW lanes, NEW img, file.image = img,
         IsImage(img, in, predicates, roots, nodes, lanes),
         NEW n \in 1..9, NEW w \in Nat \ {0}, NEW r, NEW f, NEW offset, NEW width,
         IsCell(img[n], w, r, f, offset, width),
         file.size \in Nat, offset + width <= file.size
  PROVE  Read(offset, width) = img[n].rows[r][f]
<1> DEFINE N == 9
<1>1. N \in Nat \ {0} /\ n \in 1..N
  OBVIOUS
<1>2. LaidOut(img, N) /\ \A m \in 1..N : img[m].begin <= img[m].end
  BY DEF IsImage
<1>3. FieldsOf(img[n], w) /\ Len(img[n].rows) \in Nat /\ r \in 1..Len(img[n].rows) /\ f \in 1..w
  BY DEF IsCell
<1>4. /\ offset = img[n].begin + (r - 1) * img[n].stride + img[n].at[f]
      /\ width = img[n].widths[f]
  BY DEF IsCell
<1> HIDE DEF N
<1> QED BY SMTT(60), <1>1, <1>2, <1>3, <1>4, ReadsTheCell

LEMMA HeaderCell ==
  ASSUME NEW in, NEW predicates, NEW roots, NEW nodes, NEW lanes, NEW img, file.image = img,
         IsImage(img, in, predicates, roots, nodes, lanes), file.size \in Nat, 42 <= file.size,
         NEW f \in 1..12, NEW offset, offset = img[1].at[f], NEW width, width = img[1].widths[f]
  PROVE  Read(offset, width) = img[1].rows[1][f]
<1> DEFINE n == 1
           r == 1
           w == 12
           blocks == Len(lanes) \div LANES
           s == HeaderSection(in, predicates, roots, nodes, blocks)
<1>1. FieldsOf(s, 12) /\ s.stride = 42 /\ Len(s.rows) = 1
  BY HeaderLength
<1>2. IsSection(img[1], s)
  BY DEF IsImage
<1> HIDE DEF s
<1>3. FieldsOf(img[1], 12) /\ img[1].stride = 42 /\ Len(img[1].rows) = 1
  BY <1>1, <1>2 DEF IsSection, FieldsOf
<1>4. n \in 1..9 /\ w \in Nat \ {0} /\ r - 1 = 0 /\ f \in 1..w
  OBVIOUS
<1>5. FieldsOf(img[n], w) /\ Len(img[n].rows) \in Nat /\ r \in 1..Len(img[n].rows)
  BY <1>3
<1>6. img[n].begin = 0
  BY DEF IsImage, LaidOut
<1>7. img[1].at[f] + img[1].widths[f] <= img[1].stride /\ img[1].at[f] \in Nat
  <2> HIDE DEF w
  <2> QED BY <1>4, <1>5, FieldsAscend DEF n
<1>8. offset = img[n].begin + (r - 1) * img[n].stride + img[n].at[f]
  BY <1>3, <1>6, <1>7
<1>9. offset + width <= file.size
  BY <1>3, <1>7, KdTreeAssumption DEF FieldsOf
<1>10. IsCell(img[n], w, r, f, offset, width)
  BY <1>4, <1>5, <1>8 DEF IsCell
<1> HIDE DEF n, r, w
<1>11. Read(offset, width) = img[n].rows[r][f]
  BY <1>4, <1>9, <1>10, CellOfImage
<1> QED BY <1>11 DEF n, r

LEMMA HeaderIsRead ==
  ASSUME NEW in, NEW predicates, NEW roots, NEW nodes, NEW lanes, NEW img, file.image = img,
         IsImage(img, in, predicates, roots, nodes, lanes), file.size \in Nat, 42 <= file.size
  PROVE  /\ FileScale = in.scale /\ PackedDims = PACKED_DIMS
         /\ PartitionCount = Len(roots) /\ NodeCount = Len(nodes)
         /\ TotalBlocks = Len(lanes) \div LANES /\ LegacyCuts = 0
         /\ PredicateCount = Cardinality(DOMAIN predicates)
<1> DEFINE blocks == Len(lanes) \div LANES
           s == HeaderSection(in, predicates, roots, nodes, blocks)
           row == <<MAGIC_V5, in.scale, PACKED_DIMS, Len(in.refs), Len(roots), Len(nodes), blocks,
                    SCHEME_ID_LEARNED_TREE, TreeDepth, 0, 0, Cardinality(DOMAIN predicates)>>
<1>1. s.rows[1] = row
  BY HeaderLength
<1>2. /\ s.at[1] = 0 /\ s.at[2] = 8 /\ s.at[3] = 12 /\ s.at[4] = 16 /\ s.at[5] = 20 /\ s.at[6] = 24
      /\ s.at[7] = 28 /\ s.at[8] = 32 /\ s.at[9] = 34 /\ s.at[10] = 36 /\ s.at[11] = 38 /\ s.at[12] = 40
      /\ s.widths[1] = 8 /\ (\A f \in 2..7 : s.widths[f] = 4)
      /\ \A f \in 8..12 : s.widths[f] = 2
  <2> HIDE DEF blocks
  <2> DEFINE rows == << row >>
  <2>1. s = Section(HeaderWidths, rows)
    BY Zenon DEF HeaderSection
  <2> HIDE DEF s, rows
  <2> QED BY <2>1, HeaderFields
<1>3. IsSection(img[1], s)
  BY DEF IsImage
<1> HIDE DEF s
<1>4. \A f \in 1..12 : img[1].at[f] = s.at[f] /\ img[1].widths[f] = s.widths[f] /\ img[1].rows[1] = row
  BY <1>1, <1>3 DEF IsSection
<1>5. \A f \in 1..12 : Read(s.at[f], s.widths[f]) = row[f]
  <2> TAKE f \in 1..12
  <2> DEFINE offset == s.at[f]
             width == s.widths[f]
  <2>1. offset = img[1].at[f] /\ width = img[1].widths[f]
    BY <1>4
  <2> HIDE DEF offset, width
  <2>2. Read(offset, width) = img[1].rows[1][f]
    BY <2>1, HeaderCell
  <2> QED BY <1>4, <2>2 DEF offset, width
<1>6. /\ 2 \in 1..12 /\ 3 \in 1..12 /\ 5 \in 1..12 /\ 6 \in 1..12 /\ 7 \in 1..12 /\ 10 \in 1..12
      /\ 11 \in 1..12 /\ 12 \in 1..12 /\ 2 \in 2..7 /\ 3 \in 2..7 /\ 5 \in 2..7 /\ 6 \in 2..7 /\ 7 \in 2..7
      /\ 10 \in 8..12 /\ 11 \in 8..12 /\ 12 \in 8..12
  OBVIOUS
<1>7. /\ row[2] = in.scale /\ row[3] = PACKED_DIMS /\ row[5] = Len(roots) /\ row[6] = Len(nodes)
      /\ row[7] = blocks /\ row[10] = 0 /\ row[11] = 0 /\ row[12] = Cardinality(DOMAIN predicates)
  OBVIOUS
<1> HIDE DEF row
<1>8. Read(8, 4) = in.scale
  BY ZenonT(30), <1>2, <1>5, <1>6, <1>7
<1>9. Read(12, 4) = PACKED_DIMS
  BY ZenonT(30), <1>2, <1>5, <1>6, <1>7
<1>10. Read(20, 4) = Len(roots)
  BY Zenon, <1>2, <1>5, <1>6, <1>7
<1>11. Read(24, 4) = Len(nodes)
  BY Zenon, <1>2, <1>5, <1>6, <1>7
<1>12. Read(28, 4) = blocks
  BY Zenon, <1>2, <1>5, <1>6, <1>7
<1>13. Read(36, 2) = 0
  BY Zenon, <1>2, <1>5, <1>6, <1>7
<1>14. Read(38, 2) = 0
  BY Zenon, <1>2, <1>5, <1>6, <1>7
<1>15. Read(40, 2) = Cardinality(DOMAIN predicates)
  BY Zenon, <1>2, <1>5, <1>6, <1>7
<1>16. LegacyCuts = 0
  BY <1>13, <1>14 DEF LegacyCuts
<1> QED BY <1>8, <1>9, <1>10, <1>11, <1>12, <1>15, <1>16
        DEF FileScale, PackedDims, PartitionCount, NodeCount, TotalBlocks, PredicateCount, blocks

(* load finds the sections where they are.                                 *)
LEMMA CursorsMeetTheSections ==
  ASSUME NEW in, NEW predicates, NEW roots, NEW nodes, NEW lanes, NEW img, file.image = img,
         Shape(predicates, roots, nodes, lanes),
         IsImage(img, in, predicates, roots, nodes, lanes), file.size \in Nat, 42 <= file.size
  PROVE  /\ PredicatesAt = img[2].begin /\ PartitionsAt = img[3].begin /\ NodesAt = img[4].begin
         /\ VectorsAt = img[5].begin /\ LabelsAt = img[6].begin
         /\ RefIndicesAt = img[8].begin /\ ClassBitsAt = img[9].begin
         /\ ClassBitsAt + NodeCount = ImageSize(img)
<1> DEFINE p == Cardinality(DOMAIN predicates)
           r == Len(roots)
           n == Len(nodes)
           l == Len(lanes)
           blocks == l \div LANES
<1>1. p \in Nat /\ r \in Nat /\ n \in Nat /\ l \in Nat /\ l % LANES = 0
  BY DEF Shape
<1>2. /\ PartitionCount = r /\ NodeCount = n /\ TotalBlocks = blocks /\ LegacyCuts = 0
      /\ PredicateCount = p
  BY HeaderIsRead
<1>3. blocks \in Nat /\ blocks * LANES = l /\ LANES \in Nat /\ Dims \in Nat
  <2>1. blocks \in Nat /\ blocks * LANES = l
    BY <1>1, VectorBytes
  <2>2. LANES \in Nat /\ Dims \in Nat
    BY IndexFileAssumption, KdTreeAssumption
  <2> QED BY <2>1, <2>2
<1>4. Begins(img, p, r, n, l)
  BY DEF IsImage
<1> HIDE DEF p, r, n, l, blocks
<1> DEFINE labelsEnd == 42 + 4 * p + 80 * r + 80 * n + 2 * Dims * l + l
           padding == (4 - (labelsEnd % 4)) % 4
<1>5. /\ img[1].begin = 0 /\ img[2].begin = 42 /\ img[3].begin = 42 + 4 * p
      /\ img[4].begin = 42 + 4 * p + 80 * r /\ img[5].begin = 42 + 4 * p + 80 * r + 80 * n
      /\ img[6].begin = 42 + 4 * p + 80 * r + 80 * n + 2 * Dims * l
      /\ img[8].begin = labelsEnd + padding
      /\ img[9].begin = labelsEnd + padding + 4 * l
      /\ img[9].end = labelsEnd + padding + 4 * l + n
  BY Zenon, <1>4 DEF Begins
<1>6. LANES * blocks = l
  BY <1>3
<1>7. 2 * Dims * LANES * blocks = 2 * Dims * l /\ 4 * LANES * blocks = 4 * l
  <2>1. 2 * Dims * LANES * blocks = 2 * Dims * (LANES * blocks)
    BY <1>3
  <2>2. 4 * LANES * blocks = 4 * (LANES * blocks)
    BY <1>3
  <2> QED BY <1>6, <2>1, <2>2
<1>8. PredicatesAt = 42
  BY <1>2 DEF PredicatesAt
<1>9. PartitionsAt = 42 + 4 * p
  BY <1>2, <1>8 DEF PartitionsAt
<1>10. NodesAt = 42 + 4 * p + 80 * r
  BY <1>2, <1>9 DEF NodesAt, PARTITION_STRIDE
<1>11. VectorsAt = 42 + 4 * p + 80 * r + 80 * n
  BY <1>2, <1>10 DEF VectorsAt, NODE_STRIDE
<1>12. LabelsAt = 42 + 4 * p + 80 * r + 80 * n + 2 * Dims * l
  BY Zenon, <1>2, <1>7, <1>11 DEF LabelsAt
<1>13. LabelsEnd = labelsEnd
  BY Zenon, <1>2, <1>6, <1>12 DEF LabelsEnd
<1>14. RefIndicesAt = labelsEnd + padding
  BY Zenon, <1>13 DEF RefIndicesAt
<1>15. ClassBitsAt = labelsEnd + padding + 4 * l
  BY Zenon, <1>2, <1>7, <1>14 DEF ClassBitsAt
<1>16. ClassBitsAt + NodeCount = img[9].end
  BY Zenon, <1>2, <1>5, <1>15
<1>17. ImageSize(img) = img[9].end
  <2>1. LaidOut(img, 9)
    BY DEF IsImage
  <2>2. DOMAIN img = 1..9 /\ Len(img) = 9
    BY <2>1 DEF LaidOut
  <2>3. img # << >>
    <3>1. ASSUME img = << >> PROVE FALSE
      <4>1. Len(<< >>) = 0
        OBVIOUS
      <4>2. Len(img) = 0
        BY Zenon, <3>1, <4>1
      <4> QED BY <2>2, <4>2
    <3> QED BY Zenon, <3>1
  <2> QED BY <2>2, <2>3 DEF ImageSize
<1> HIDE DEF labelsEnd, padding
<1> QED BY <1>5, <1>8, <1>9, <1>10, <1>11, <1>12, <1>14, <1>15, <1>16, <1>17

-----------------------------------------------------------------------------
(* The splits of a tree over references.                                   *)

(* Sums over a finite set, taken one element at a time.                    *)
IsSumming(S, f, sum) ==
  sum = [s \in SUBSET S |-> IF s = {} THEN 0
                            ELSE f[CHOOSE x \in s : TRUE] + sum[s \ {CHOOSE x \in s : TRUE}]]

LEMMA OneLess ==
  ASSUME NEW s, IsFiniteSet(s), s # {}, NEW x, x = CHOOSE y \in s : TRUE
  PROVE  /\ x \in s /\ IsFiniteSet(s \ {x})
         /\ Cardinality(s) \in Nat /\ Cardinality(s \ {x}) = Cardinality(s) - 1 /\ Cardinality(s) # 0
<1>1. x \in s
  OBVIOUS
<1>2. IsFiniteSet(s \ {x}) /\ Cardinality(s \ {x}) = Cardinality(s) - 1
  BY <1>1, FS_RemoveElement
<1>3. Cardinality(s) \in Nat /\ Cardinality(s \ {x}) \in Nat
  BY <1>2, FS_CardinalityType
<1> QED BY <1>1, <1>2, <1>3

LEMMA SummingExists ==
  ASSUME NEW S, IsFiniteSet(S), NEW f \in [S -> Int]
  PROVE  \E sum : IsSumming(S, f, sum) /\ sum \in [SUBSET S -> Int]
<1> DEFINE First(s) == CHOOSE x \in s : TRUE
           Small(n) == {s \in SUBSET S : Cardinality(s) <= n}
           Body(g, s) == IF s = {} THEN 0 ELSE f[First(s)] + g[s \ {First(s)}]
           Sums(n, g) == g \in [Small(n) -> Int] /\ \A s \in Small(n) : g[s] = Body(g, s)
           T == {n \in Nat : \E g : Sums(n, g)}
<1>1. \A s \in SUBSET S : IsFiniteSet(s) /\ Cardinality(s) \in Nat /\ Cardinality(s) <= Cardinality(S)
  BY FS_Subset, FS_CardinalityType
<1>2. ASSUME NEW s \in SUBSET S, s # {}
      PROVE  /\ First(s) \in S /\ s \ {First(s)} \in SUBSET S /\ f[First(s)] \in Int
             /\ Cardinality(s \ {First(s)}) = Cardinality(s) - 1 /\ Cardinality(s) # 0
  <2> DEFINE x == First(s)
  <2>1. IsFiniteSet(s) /\ x = CHOOSE y \in s : TRUE
    BY <1>1
  <2> HIDE DEF x
  <2>2. x \in s /\ Cardinality(s \ {x}) = Cardinality(s) - 1 /\ Cardinality(s) # 0
    BY <1>2, <2>1, OneLess
  <2>3. x \in S /\ s \ {x} \in SUBSET S
    BY <2>2
  <2> QED BY <2>2, <2>3 DEF x
<1> HIDE DEF First
<1>3. 0 \in T
  <2> DEFINE g == [s \in Small(0) |-> 0]
  <2>1. ASSUME NEW s \in Small(0) PROVE s = {}
    <3>1. IsFiniteSet(s) /\ Cardinality(s) = 0
      BY <1>1
    <3> QED BY <3>1, FS_EmptySet
  <2>2. Sums(0, g)
    BY <2>1
  <2> QED BY <2>2
<1>4. ASSUME NEW n \in Nat, n \in T PROVE n + 1 \in T
  <2>1. PICK g : Sums(n, g)
    BY <1>4
  <2> DEFINE h == [s \in Small(n + 1) |-> Body(g, s)]
  <2>2. Small(n) \subseteq Small(n + 1)
    BY <1>1
  <2>3. ASSUME NEW s \in Small(n + 1), s # {}
        PROVE  s \ {First(s)} \in Small(n) /\ f[First(s)] \in Int
    BY <1>1, <1>2, <2>3
  <2>4. \A s \in Small(n) : h[s] = g[s]
    BY <2>1, <2>2
  <2>5. ASSUME NEW s \in Small(n + 1) PROVE h[s] = Body(h, s) /\ h[s] \in Int
    <3>1. CASE s = {}
      BY <3>1
    <3>2. CASE s # {}
      <4>1. h[s] = f[First(s)] + g[s \ {First(s)}]
        BY <3>2
      <4>2. h[s \ {First(s)}] = g[s \ {First(s)}] /\ g[s \ {First(s)}] \in Int /\ f[First(s)] \in Int
        <5> HIDE DEF h
        <5> QED BY <2>1, <2>3, <2>4, <3>2
      <4> QED BY <3>2, <4>1, <4>2
    <3> QED BY <3>1, <3>2
  <2>6. h \in [Small(n + 1) -> Int] /\ \A s \in Small(n + 1) : h[s] = Body(h, s)
    BY <2>5
  <2> HIDE DEF h
  <2>7. Sums(n + 1, h)
    BY <2>6
  <2> HIDE DEF Sums
  <2> QED BY <2>7
<1> HIDE DEF T
<1>5. Cardinality(S) \in T
  BY <1>3, <1>4, AllNumbers, FS_CardinalityType
<1>6. PICK g : Sums(Cardinality(S), g)
  BY <1>5 DEF T
<1>7. Small(Cardinality(S)) = SUBSET S
  BY <1>1
<1>8. g \in [SUBSET S -> Int] /\ \A s \in SUBSET S : g[s] = Body(g, s)
  BY <1>6, <1>7
<1>9. g = [s \in SUBSET S |-> Body(g, s)]
  BY <1>8
<1>10. IsSumming(S, f, g)
  BY <1>9 DEF IsSumming, First
<1> QED BY <1>8, <1>10

LEMMA SummingIsInt ==
  ASSUME NEW S, IsFiniteSet(S), NEW f \in [S -> Int], NEW sum, IsSumming(S, f, sum)
  PROVE  sum[S] \in Int
<1> DEFINE First(s) == CHOOSE x \in s : TRUE
           T == {n \in Nat : \A s \in SUBSET S : Cardinality(s) = n => sum[s] \in Int}
<1>1. \A s \in SUBSET S : sum[s] = IF s = {} THEN 0 ELSE f[First(s)] + sum[s \ {First(s)}]
  BY DEF IsSumming
<1>2. \A s \in SUBSET S : IsFiniteSet(s)
  BY FS_Subset
<1>3. 0 \in T
  <2> SUFFICES ASSUME NEW s \in SUBSET S, Cardinality(s) = 0 PROVE sum[s] \in Int
    OBVIOUS
  <2>1. s = {}
    BY <1>2, FS_EmptySet
  <2>2. sum[s] = 0
    BY Zenon, <1>1, <2>1
  <2> QED BY <2>2
<1>4. ASSUME NEW n \in Nat, n \in T PROVE n + 1 \in T
  <2> SUFFICES ASSUME NEW s \in SUBSET S, Cardinality(s) = n + 1 PROVE sum[s] \in Int
    OBVIOUS
  <2>1. s # {}
    BY FS_EmptySet
  <2> DEFINE x == First(s)
  <2>2. IsFiniteSet(s) /\ x = CHOOSE y \in s : TRUE
    BY <1>2
  <2>3. sum[s] = f[x] + sum[s \ {x}]
    BY <1>1, <2>1
  <2> HIDE DEF x
  <2>4. x \in s /\ Cardinality(s \ {x}) = Cardinality(s) - 1
    BY <2>1, <2>2, OneLess
  <2>5. s \ {x} \in SUBSET S /\ Cardinality(s \ {x}) = n /\ f[x] \in Int
    BY <2>4
  <2>6. sum[s \ {x}] \in Int
    BY <1>4, <2>5
  <2> QED BY <2>3, <2>5, <2>6
<1> HIDE DEF T
<1>5. Cardinality(S) \in T
  BY <1>3, <1>4, AllNumbers, FS_CardinalityType
<1> QED BY <1>5 DEF T

VectorSum(refs, d, S) == MapThenSumSet(LAMBDA i : refs[i].vector[d], S)
SquareSum(refs, d, S) == MapThenSumSet(LAMBDA i : Square(refs[i].vector[d]), S)

LEMMA VectorSumIsInt ==
  ASSUME NEW refs, NEW d, NEW S, IsFiniteSet(S), \A i \in S : refs[i].vector[d] \in Int
  PROVE  VectorSum(refs, d, S) \in Int
<1> DEFINE f == [i \in S |-> refs[i].vector[d]]
           Sums(sum) ==
             sum = [s \in SUBSET S |-> IF s = {} THEN 0
                      ELSE refs[CHOOSE x \in s : TRUE].vector[d] + sum[s \ {CHOOSE x \in s : TRUE}]]
           sum == CHOOSE g : Sums(g)
<1>1. VectorSum(refs, d, S) = sum[S]
  BY Zenon DEF VectorSum, MapThenSumSet, MapThenFoldSet
<1>2. \A g : IsSumming(S, f, g) <=> Sums(g)
  <2> TAKE g
  <2>1. ASSUME NEW s \in SUBSET S, s # {}
        PROVE  f[CHOOSE x \in s : TRUE] = refs[CHOOSE x \in s : TRUE].vector[d]
    <3>1. (CHOOSE x \in s : TRUE) \in S
      BY <2>1
    <3> QED BY <3>1
  <2>2. [s \in SUBSET S |-> IF s = {} THEN 0
           ELSE f[CHOOSE x \in s : TRUE] + g[s \ {CHOOSE x \in s : TRUE}]]
          = [s \in SUBSET S |-> IF s = {} THEN 0
               ELSE refs[CHOOSE x \in s : TRUE].vector[d] + g[s \ {CHOOSE x \in s : TRUE}]]
    BY <2>1
  <2> QED BY Zenon, <2>2 DEF IsSumming
<1>3. f \in [S -> Int]
  OBVIOUS
<1> HIDE DEF f, Sums
<1>4. \E g : Sums(g)
  BY <1>2, <1>3, SummingExists
<1>5. Sums(sum)
  BY <1>4
<1> HIDE DEF sum
<1>6. sum[S] \in Int
  BY <1>2, <1>3, <1>5, SummingIsInt
<1> QED BY <1>1, <1>6

LEMMA SquareSumIsInt ==
  ASSUME NEW refs, NEW d, NEW S, IsFiniteSet(S), \A i \in S : refs[i].vector[d] \in Int
  PROVE  SquareSum(refs, d, S) \in Int
<1> DEFINE f == [i \in S |-> Square(refs[i].vector[d])]
           Sums(sum) ==
             sum = [s \in SUBSET S |-> IF s = {} THEN 0
                      ELSE Square(refs[CHOOSE x \in s : TRUE].vector[d]) + sum[s \ {CHOOSE x \in s : TRUE}]]
           sum == CHOOSE g : Sums(g)
<1>1. SquareSum(refs, d, S) = sum[S]
  BY Zenon DEF SquareSum, MapThenSumSet, MapThenFoldSet
<1>2. \A g : IsSumming(S, f, g) <=> Sums(g)
  <2> TAKE g
  <2>1. ASSUME NEW s \in SUBSET S, s # {}
        PROVE  f[CHOOSE x \in s : TRUE] = Square(refs[CHOOSE x \in s : TRUE].vector[d])
    <3>1. (CHOOSE x \in s : TRUE) \in S
      BY <2>1
    <3> QED BY <3>1
  <2>2. [s \in SUBSET S |-> IF s = {} THEN 0
           ELSE f[CHOOSE x \in s : TRUE] + g[s \ {CHOOSE x \in s : TRUE}]]
          = [s \in SUBSET S |-> IF s = {} THEN 0
               ELSE Square(refs[CHOOSE x \in s : TRUE].vector[d]) + g[s \ {CHOOSE x \in s : TRUE}]]
    BY <2>1
  <2> QED BY Zenon, <2>2 DEF IsSumming
<1>3. f \in [S -> Int]
  BY DEF Square
<1> HIDE DEF f, Sums
<1>4. \E g : Sums(g)
  BY <1>2, <1>3, SummingExists
<1>5. Sums(sum)
  BY <1>4
<1> HIDE DEF sum
<1>6. sum[S] \in Int
  BY <1>2, <1>3, <1>5, SummingIsInt
<1> QED BY <1>1, <1>6

(* References whose vectors are numbers.                                   *)
AreReferences(refs) ==
  /\ Len(refs) \in Nat /\ DOMAIN refs = 1..Len(refs)
  /\ \A i \in DOMAIN refs : /\ refs[i].vector \in [1..PACKED_DIMS -> Int]
                            /\ refs[i].label \in {0, 1}

LEMMA ReferencesAreReferences ==
  ASSUME NEW scale \in Nat \ {0}, NEW refs \in Seq(Reference(scale))
  PROVE  AreReferences(refs)
<1>1. Len(refs) \in Nat /\ DOMAIN refs = 1..Len(refs)
  OBVIOUS
<1>2. ASSUME NEW i \in DOMAIN refs
      PROVE  refs[i].vector \in [1..PACKED_DIMS -> Int] /\ refs[i].label \in {0, 1}
  <2>1. refs[i] \in Reference(scale)
    BY <1>1
  <2>2. Quantized(scale) \subseteq Int
    BY DEF Quantized
  <2>3. refs[i].vector \in [1..PACKED_DIMS -> Quantized(scale)] /\ refs[i].label \in {0, 1}
    BY <2>1 DEF Reference
  <2> QED BY <2>2, <2>3
<1> QED BY <1>1, <1>2 DEF AreReferences

LEMMA PositionsAreFinite ==
  ASSUME NEW refs, AreReferences(refs), NEW S, S \subseteq DOMAIN refs
  PROVE  /\ IsFiniteSet(S) /\ Cardinality(S) \in Nat /\ S \subseteq Nat /\ S \subseteq Int
         /\ \A i \in S : i \in Nat
<1>1. Len(refs) \in Nat /\ DOMAIN refs = 1..Len(refs)
  BY DEF AreReferences
<1>2. IsFiniteSet(1..Len(refs))
  BY <1>1, FS_Interval
<1>3. IsFiniteSet(DOMAIN refs)
  BY <1>1, <1>2
<1>4. IsFiniteSet(S)
  BY <1>3, FS_Subset
<1> QED BY <1>1, <1>4, FS_CardinalityType

LEMMA BoxBounds ==
  ASSUME NEW refs, AreReferences(refs), NEW S, S \subseteq DOMAIN refs, S # {}, NEW d \in 1..PACKED_DIMS
  PROVE  /\ Lowest(refs, S, d) \in Int /\ Highest(refs, S, d) \in Int
         /\ \A i \in S : Lowest(refs, S, d) <= refs[i].vector[d] /\ refs[i].vector[d] <= Highest(refs, S, d)
<1> DEFINE f == [i \in S |-> refs[i].vector[d]]
           V == {f[i] : i \in S}
<1>1. V = Values(refs, S, d)
  BY DEF Values
<1>2. \A i \in S : f[i] \in Int /\ f[i] = refs[i].vector[d]
  BY DEF AreReferences
<1>3. IsFiniteSet(S)
  BY PositionsAreFinite
<1>4. DOMAIN f = S /\ f = [i \in S |-> f[i]]
  OBVIOUS
<1> HIDE DEF f
<1>5. IsFiniteSet(V) /\ V \subseteq Int /\ V # {} /\ \A y \in V : y \in Int
  BY <1>2, <1>3, <1>4, ImageOfFinite
<1>6. \A i \in S : refs[i].vector[d] \in V
  BY <1>2
<1> HIDE DEF V
<1>7. PICK m \in V : \A y \in V : m <= y
  BY <1>5, LeastExists
<1>8. PICK n \in V : \A y \in V : y <= n
  BY <1>5, GreatestExists
<1>9. Min(V) \in V /\ \A y \in V : Min(V) <= y
  BY <1>7 DEF Min
<1>10. Max(V) \in V /\ \A y \in V : Max(V) >= y
  <2>1. \A y \in V : n >= y
    BY <1>5, <1>8
  <2> QED BY <1>8, <2>1 DEF Max
<1>11. Lowest(refs, S, d) = Min(V) /\ Highest(refs, S, d) = Max(V)
  BY <1>1 DEF Lowest, Highest
<1>12. \A y \in V : Min(V) <= y /\ y <= Max(V)
  BY <1>5, <1>9, <1>10
<1> QED BY <1>5, <1>6, <1>9, <1>10, <1>11, <1>12

LEMMA FirstHighestExists ==
  ASSUME NEW D, D \subseteq Int, IsFiniteSet(D), D # {}, NEW f \in [D -> Int]
  PROVE  \E d \in D : \A e \in D : f[e] < f[d] \/ (f[e] = f[d] /\ d <= e)
<1> DEFINE V == {f[e] : e \in D}
<1>1. IsFiniteSet(V) /\ V \subseteq Int /\ V # {}
  BY ImageOfFinite
<1>2. \A e \in D : f[e] \in V /\ f[e] \in Int
  OBVIOUS
<1>3. PICK m \in V : \A y \in V : y <= m
  BY <1>1, GreatestExists
<1> DEFINE U == {e \in D : f[e] = m}
<1>4. U # {} /\ U \subseteq Int /\ IsFiniteSet(U)
  BY FS_Subset
<1>5. PICK d \in U : \A e \in U : d <= e
  BY <1>4, LeastExists
<1>6. d \in D /\ f[d] = m
  OBVIOUS
<1> HIDE DEF V
<1>7. ASSUME NEW e \in D PROVE f[e] < f[d] \/ (f[e] = f[d] /\ d <= e)
  <2>1. f[e] <= m /\ f[e] \in Int /\ m \in Int
    BY <1>2, <1>3, <1>6
  <2>2. CASE f[e] = m
    BY <1>5, <1>6, <2>2
  <2>3. CASE f[e] # m
    BY <1>6, <2>1, <2>3
  <2> QED BY <2>2, <2>3
<1> QED BY <1>6, <1>7

LEMMA DimensionsAre ==
  1..Dims \subseteq 1..PACKED_DIMS /\ 1..Dims \subseteq Int /\ 1..Dims # {} /\ IsFiniteSet(1..Dims)
<1>1. Dims \in Nat \ {0} /\ PACKED_DIMS \in Nat /\ Dims <= PACKED_DIMS
  BY IndexFileAssumption, KdTreeAssumption
<1>2. IsFiniteSet(1..Dims)
  BY <1>1, FS_Interval
<1>3. 1..Dims \subseteq 1..PACKED_DIMS /\ 1..Dims \subseteq Int
  BY <1>1
<1>4. 1 \in 1..Dims
  BY <1>1
<1> QED BY <1>2, <1>3, <1>4

LEMMA WidestDimensionIs ==
  ASSUME NEW refs, AreReferences(refs), NEW S, S \subseteq DOMAIN refs, S # {}
  PROVE  WidestDimension(refs, S) \in 1..Dims
<1> DEFINE f == [d \in 1..Dims |-> Highest(refs, S, d) - Lowest(refs, S, d)]
           Best(d) == \A e \in 1..Dims : f[e] < f[d] \/ (f[e] = f[d] /\ d <= e)
<1>1. 1..Dims \subseteq 1..PACKED_DIMS /\ 1..Dims \subseteq Int /\ 1..Dims # {} /\ IsFiniteSet(1..Dims)
  BY DimensionsAre
<1>2. f \in [1..Dims -> Int]
  <2>1. ASSUME NEW d \in 1..Dims PROVE Highest(refs, S, d) - Lowest(refs, S, d) \in Int
    <3>1. d \in 1..PACKED_DIMS
      BY <1>1
    <3>2. Highest(refs, S, d) \in Int /\ Lowest(refs, S, d) \in Int
      BY <3>1, BoxBounds
    <3> QED BY <3>2
  <2> QED BY <2>1
<1>3. \E d \in 1..Dims : Best(d)
  <2> HIDE DEF f
  <2> QED BY <1>1, <1>2, FirstHighestExists
<1>4. WidestDimension(refs, S) = CHOOSE d \in 1..Dims : Best(d)
  <2>1. WidestDimension(refs, S)
          = CHOOSE d \in 1..Dims : \A e \in 1..Dims :
              \/ Highest(refs, S, e) - Lowest(refs, S, e) < Highest(refs, S, d) - Lowest(refs, S, d)
              \/ /\ Highest(refs, S, e) - Lowest(refs, S, e) = Highest(refs, S, d) - Lowest(refs, S, d)
                 /\ d <= e
    BY Zenon DEF WidestDimension, FirstHighest
  <2>2. \A d \in 1..Dims : f[d] = Highest(refs, S, d) - Lowest(refs, S, d)
    OBVIOUS
  <2> HIDE DEF f
  <2> QED BY <2>1, <2>2
<1> HIDE DEF Best
<1> QED BY <1>3, <1>4

LEMMA VarianceDimensionIs ==
  ASSUME NEW refs, AreReferences(refs), NEW S, S \subseteq DOMAIN refs, S # {}
  PROVE  VarianceDimension(refs, S) \in 1..Dims
<1> DEFINE spread == {d \in 1..Dims : Lowest(refs, S, d) # Highest(refs, S, d)}
           Score(d) == Cardinality(S) * SquareSum(refs, d, S) - Square(VectorSum(refs, d, S))
           Best(d) == \A e \in spread : Score(e) < Score(d) \/ (Score(e) = Score(d) /\ d <= e)
<1>1. CASE spread = {}
  <2>1. VarianceDimension(refs, S) = WidestDimension(refs, S)
    BY Zenon, <1>1 DEF VarianceDimension
  <2> QED BY <2>1, WidestDimensionIs
<1>2. CASE spread # {}
  <2>1. VarianceDimension(refs, S) = CHOOSE d \in spread : Best(d)
    BY Zenon, <1>2 DEF VarianceDimension, FirstHighest, SquareSum, VectorSum
  <2>2. ASSUME NEW d \in spread PROVE Score(d) \in Int
    <3>1. \A i \in S : refs[i].vector[d] \in Int
      <4>1. d \in 1..PACKED_DIMS
        BY DimensionsAre
      <4> QED BY <4>1 DEF AreReferences
    <3>2. IsFiniteSet(S) /\ Cardinality(S) \in Nat
      BY PositionsAreFinite
    <3> DEFINE squares == SquareSum(refs, d, S)
               sum == VectorSum(refs, d, S)
               size == Cardinality(S)
    <3>3. squares \in Int
      BY <3>1, <3>2, SquareSumIsInt
    <3>4. sum \in Int
      BY <3>1, <3>2, VectorSumIsInt
    <3>5. Score(d) = size * squares - Square(sum)
      BY Zenon
    <3> HIDE DEF Score, squares, sum, size
    <3>6. size \in Int
      BY <3>2 DEF size
    <3>7. size * squares - sum * sum \in Int
      BY <3>3, <3>4, <3>6
    <3> QED BY <3>5, <3>7 DEF Square
  <2> HIDE DEF Score
  <2> DEFINE f == [d \in spread |-> Score(d)]
  <2>3. f \in [spread -> Int] /\ \A d \in spread : f[d] = Score(d)
    BY <2>2
  <2>4. spread \subseteq 1..Dims /\ spread \subseteq Int /\ IsFiniteSet(spread)
    <3>1. spread \subseteq 1..Dims
      OBVIOUS
    <3> HIDE DEF spread
    <3>2. spread \subseteq Int
      BY <3>1, DimensionsAre
    <3> QED BY <3>1, <3>2, DimensionsAre, FS_Subset
  <2> HIDE DEF f, spread
  <2>5. \E d \in spread : Best(d)
    <3>1. \E d \in spread : \A e \in spread : f[e] < f[d] \/ (f[e] = f[d] /\ d <= e)
      BY <1>2, <2>3, <2>4, FirstHighestExists
    <3> QED BY <2>3, <3>1
  <2> HIDE DEF Best
  <2>6. (CHOOSE d \in spread : Best(d)) \in spread
    BY <2>5
  <2> QED BY <2>1, <2>4, <2>6
<1> QED BY <1>1, <1>2

(* The half that goes left is neither empty nor everything.                *)
LEMMA HalfIsProper ==
  ASSUME NEW refs, AreReferences(refs), NEW S, S \subseteq DOMAIN refs, 2 <= Cardinality(S)
  PROVE  /\ LeftHalf(refs, S) \subseteq S
         /\ LeftHalf(refs, S) # {} /\ LeftHalf(refs, S) # S
<1> DEFINE d == SplitDimension(refs, S)
           v(i) == refs[i].vector[d]
           Before(i) == {j \in S : v(j) < v(i) \/ (v(j) = v(i) /\ j < i)}
           half == {i \in S : Cardinality(Before(i)) < Cardinality(S) \div 2}
           f == [i \in S |-> v(i)]
           V == {f[i] : i \in S}
<1>1. LeftHalf(refs, S) = half
  BY Zenon DEF LeftHalf
<1>2. /\ IsFiniteSet(S) /\ Cardinality(S) \in Nat /\ S \subseteq Int
      /\ \A i \in S : i \in Int
  <2>1. IsFiniteSet(S) /\ Cardinality(S) \in Nat /\ S \subseteq Int
    BY PositionsAreFinite
  <2> QED BY <2>1
<1>3. S # {}
  BY FS_EmptySet
<1>4. d \in 1..PACKED_DIMS
  <2>1. d \in 1..Dims
    BY <1>3, VarianceDimensionIs, WidestDimensionIs DEF SplitDimension
  <2> QED BY <2>1, DimensionsAre
<1> HIDE DEF d
<1>5. \A i \in S : v(i) \in Int
  BY <1>4 DEF AreReferences
<1> HIDE DEF v
<1>6. \A i \in S : f[i] = v(i) /\ f[i] \in V /\ f[i] \in Int
  BY <1>5
<1>7. V \subseteq Int /\ V # {} /\ IsFiniteSet(V)
  <2>1. DOMAIN f = S /\ f = [i \in S |-> f[i]] /\ V # {} /\ V \subseteq Int
    BY <1>3, <1>5
  <2> HIDE DEF f
  <2> QED BY <1>2, <2>1, ImageOfFinite
<1>8. \A x \in V : \E i \in S : v(i) = x
  BY <1>6
<1> HIDE DEF V, f
<1>9. PICK m \in V : \A y \in V : m <= y
  BY <1>7, LeastExists
<1>10. PICK n \in V : \A y \in V : y <= n
  BY <1>7, GreatestExists
<1>11. half # {}
  <2> DEFINE U == {i \in S : v(i) = m}
  <2>1. U # {} /\ U \subseteq Int /\ IsFiniteSet(U) /\ \A i \in U : i \in Int
    BY <1>2, <1>8, <1>9, FS_Subset
  <2>2. PICK i \in U : \A j \in U : i <= j
    BY <2>1, LeastExists
  <2>3. i \in S /\ v(i) = m
    OBVIOUS
  <2>4. ASSUME NEW j \in S, v(j) < v(i) \/ (v(j) = v(i) /\ j < i) PROVE FALSE
    <3>1. m <= v(j) /\ v(j) \in Int /\ m \in Int
      BY <1>5, <1>6, <1>7, <1>9
    <3>2. v(j) = v(i) /\ j < i
      BY <2>3, <2>4, <3>1
    <3>3. j \in U
      BY <2>3, <3>2
    <3> QED BY <1>2, <2>2, <2>3, <3>2, <3>3
  <2>5. Before(i) = {}
    BY <2>4
  <2>6. Cardinality(Before(i)) = 0
    BY <2>5, FS_EmptySet
  <2>7. i \in half
    BY <1>2, <2>3, <2>6
  <2> QED BY <2>7
<1>12. half # S
  <2> DEFINE U == {i \in S : v(i) = n}
  <2>1. U # {} /\ U \subseteq Int /\ IsFiniteSet(U) /\ \A i \in U : i \in Int
    BY <1>2, <1>8, <1>10, FS_Subset
  <2>2. PICK i \in U : \A j \in U : j <= i
    BY <2>1, GreatestExists
  <2>3. i \in S /\ v(i) = n
    OBVIOUS
  <2>4. ASSUME NEW j \in S, j # i PROVE v(j) < v(i) \/ (v(j) = v(i) /\ j < i)
    <3>1. v(j) <= n /\ v(j) \in Int /\ n \in Int /\ j \in Int /\ i \in Int
      BY <1>2, <1>5, <1>6, <1>7, <1>10
    <3>2. CASE v(j) = n
      <4>1. j <= i
        BY <2>2, <3>2
      <4> QED BY <2>3, <2>4, <3>1, <3>2, <4>1
    <3>3. CASE v(j) # n
      BY <2>3, <3>1, <3>3
    <3> QED BY <3>2, <3>3
  <2>5. ~(v(i) < v(i) \/ (v(i) = v(i) /\ i < i))
    BY <1>2, <1>5, <2>3
  <2>6. Before(i) = S \ {i}
    BY <2>4, <2>5
  <2>7. Cardinality(Before(i)) = Cardinality(S) - 1
    BY <1>2, <2>3, <2>6, FS_RemoveElement
  <2>8. ~(Cardinality(Before(i)) < Cardinality(S) \div 2)
    BY <1>2, <2>7
  <2>9. i \notin half
    BY <2>8
  <2> QED BY <2>3, <2>9
<1>13. half \subseteq S
  OBVIOUS
<1> HIDE DEF half
<1> QED BY <1>1, <1>11, <1>12, <1>13

-----------------------------------------------------------------------------
(* The nodes and lanes of a partition.                                     *)

Entry == [left : Int, right : Int, start : Nat, len : Nat,
          min : [1..PACKED_DIMS -> Int], max : [1..PACKED_DIMS -> Int], classBits : 0..3]

Lane == [vector : [1..PACKED_DIMS -> Int], label : {0, 1}, index : Int]

LaneOf(refs, i) == [vector |-> refs[i].vector, label |-> refs[i].label, index |-> i]

(* Enough blocks, and none too many.                                       *)
LEMMA BlocksHold ==
  ASSUME NEW n \in Nat
  PROVE  /\ Blocks(n) \in Nat /\ Blocks(n) * LANES \in Nat /\ n <= Blocks(n) * LANES
         /\ (Blocks(n) * LANES) % LANES = 0
         /\ Blocks(n) * LANES < n + LANES
<1> DEFINE L == LANES
           m == n + L - 1
           b == m \div L
           r == m % L
<1>1. L \in Nat \ {0}
  BY IndexFileAssumption
<1>2. m \in Nat
  BY <1>1
<1>3. b \in Nat /\ r \in 0..(L - 1) /\ m = L * b + r
  <2> HIDE DEF m, L
  <2>1. b \in Nat
    BY <1>1, <1>2
  <2> QED BY <1>1, <1>2, <2>1
<1>4. m = n + L - 1
  OBVIOUS
<1>5. Blocks(n) = b
  BY DEF Blocks
<1> HIDE DEF b, m, r
<1> DEFINE p == b * L
<1>6. p \in Nat /\ L * b = p /\ p % L = 0
  <2>1. p \in Nat /\ L * b = p
    <3> HIDE DEF L
    <3> QED BY <1>1, <1>3, ProductIsNat
  <2>2. 0 \in 0..(L - 1)
    BY <1>1
  <2>3. (b * L + 0) % L = 0
    <3> HIDE DEF L
    <3> QED BY <1>1, <1>3, <2>2, RowAndField
  <2>4. b * L + 0 = p
    BY <2>1
  <2> QED BY <2>1, <2>3, <2>4
<1> HIDE DEF p
<1>7. n <= p /\ p < n + L
  <2> HIDE DEF L
  <2> QED BY <1>1, <1>3, <1>4, <1>6
<1> QED BY <1>3, <1>5, <1>6, <1>7 DEF p

LEMMA LeafLanesAre ==
  ASSUME NEW refs, AreReferences(refs), NEW S, S \subseteq DOMAIN refs
  PROVE  /\ LeafLanes(refs, S) \in Seq(Lane)
         /\ Len(LeafLanes(refs, S)) = Blocks(Cardinality(S)) * LANES
         /\ \A i \in S : /\ Cardinality(Below(S, i)) \in 0..(Cardinality(S) - 1)
                         /\ LeafLanes(refs, S)[Cardinality(Below(S, i)) + 1] = LaneOf(refs, i)
<1> DEFINE n == Cardinality(S)
           N == Blocks(n) * LANES
           order == InOrder(S)
           lanes == [l \in 1..N |-> IF l > n THEN PaddingLane ELSE LaneOf(refs, order[l])]
<1>1. LeafLanes(refs, S) = lanes
  BY Zenon DEF LeafLanes, LaneOf
<1>2. n \in Nat /\ IsFiniteSet(S) /\ S \subseteq Int
  BY PositionsAreFinite
<1>3. N \in Nat /\ n <= N
  BY <1>2, BlocksHold
<1>4. \A k \in 1..n : order[k] = NthOf(S, k - 1)
  BY DEF InOrder
<1> HIDE DEF n, N, order
<1>5. ASSUME NEW k \in 1..n PROVE order[k] \in S
  <2>1. k - 1 \in 0..(Cardinality(S) - 1)
    BY <1>2 DEF n
  <2> QED BY <1>2, <1>4, <2>1, NthIs
<1>6. PaddingLane \in Lane
  <2>1. -1 \in Int /\ 0 \in Int /\ 0 \in {0, 1}
    OBVIOUS
  <2> QED BY <2>1 DEF PaddingLane, Lane, PADDING
<1>7. ASSUME NEW i \in S PROVE LaneOf(refs, i) \in Lane
  <2>1. refs[i].vector \in [1..PACKED_DIMS -> Int] /\ refs[i].label \in {0, 1}
    BY DEF AreReferences
  <2>2. i \in Int
    BY <1>2
  <2> QED BY <2>1, <2>2 DEF LaneOf, Lane
<1>8. \A l \in 1..N : lanes[l] \in Lane
  BY <1>2, <1>3, <1>5, <1>6, <1>7
<1>9. lanes \in Seq(Lane) /\ Len(lanes) = N
  <2>1. lanes \in [1..N -> Lane]
    BY <1>8
  <2> HIDE DEF lanes
  <2>2. lanes \in Seq(Lane) /\ DOMAIN lanes = 1..N
    BY <1>3, <2>1
  <2> QED BY <1>3, <2>2, LenProperties
<1>10. ASSUME NEW i \in S
       PROVE  /\ Cardinality(Below(S, i)) \in 0..(n - 1)
              /\ lanes[Cardinality(Below(S, i)) + 1] = LaneOf(refs, i)
  <2> DEFINE k == Cardinality(Below(S, i))
  <2>1. k \in 0..(n - 1)
    BY <1>2, BelowBound DEF n
  <2>2. NthOf(S, k) = i
    BY <1>2, NthBelow
  <2> HIDE DEF k
  <2>3. k + 1 \in 1..n /\ k + 1 \in 1..N /\ (k + 1) - 1 = k /\ ~(k + 1 > n)
    BY <1>2, <1>3, <2>1
  <2>4. order[k + 1] = i
    BY <1>4, <2>2, <2>3
  <2> QED BY <2>1, <2>3, <2>4 DEF k
<1> QED BY <1>1, <1>9, <1>10 DEF n, N

TypedTree(t) == t.nodes \in Seq(Entry) /\ Len(t.nodes) >= 1 /\ t.lanes \in Seq(Lane)

LEMMA EntryIsTyped ==
  ASSUME NEW refs, AreReferences(refs), NEW S, S \subseteq DOMAIN refs, S # {},
         NEW left \in Int, NEW right \in Int, NEW start \in Nat, NEW bits \in 0..3
  PROVE  NodeEntry(refs, S, left, right, start, bits) \in Entry
<1>1. Cardinality(S) \in Nat
  BY PositionsAreFinite
<1>2. BoxLow(refs, S) \in [1..PACKED_DIMS -> Int] /\ BoxHigh(refs, S) \in [1..PACKED_DIMS -> Int]
  BY BoxBounds DEF BoxLow, BoxHigh
<1> QED BY <1>1, <1>2 DEF NodeEntry, Entry

LEMMA BitsAreFew == \A labels : Bits(labels) \in 0..3
BY DEF Bits

LEMMA LeafTreeIsTyped ==
  ASSUME NEW refs, AreReferences(refs), NEW S, S \subseteq DOMAIN refs, S # {}, NEW start \in Nat
  PROVE  /\ TypedTree(LeafTree(refs, S, start)) /\ Len(LeafTree(refs, S, start).nodes) = 1
<1> DEFINE bits == Bits(ClassBits(refs, S))
           e == NodeEntry(refs, S, -1, -1, start, bits)
           t == LeafTree(refs, S, start)
<1>1. t = [nodes |-> <<e>>, lanes |-> LeafLanes(refs, S)]
  BY Zenon DEF LeafTree
<1>2. bits \in 0..3 /\ -1 \in Int
  BY BitsAreFew
<1> HIDE DEF bits, t
<1>3. e \in Entry
  BY <1>2, EntryIsTyped
<1> HIDE DEF e
<1>4. <<e>> \in Seq(Entry) /\ Len(<<e>>) = 1
  BY <1>3
<1>5. t.nodes = <<e>> /\ t.lanes = LeafLanes(refs, S)
  BY <1>1
<1>6. t.lanes \in Seq(Lane)
  BY <1>5, LeafLanesAre
<1>7. TypedTree(t) /\ Len(t.nodes) = 1
  BY <1>4, <1>5, <1>6 DEF TypedTree
<1> QED BY <1>7 DEF t

(* What inner returns: its node, and what the calls for the halves return. *)
PutTogether(refs, S, leftNode, rightNode, left, right, t) ==
  /\ Len(t.nodes) = 1 + Len(left.nodes) + Len(right.nodes)
  /\ Len(t.lanes) = Len(left.lanes) + Len(right.lanes)
  /\ t.lanes = left.lanes \o right.lanes
  /\ t.nodes[1] = NodeEntry(refs, S, leftNode, rightNode, left.nodes[1].start,
                            InnerBits(left.nodes[1].classBits, right.nodes[1].classBits))
  /\ \A k \in 1..Len(left.nodes) : t.nodes[1 + k] = left.nodes[k]
  /\ \A k \in 1..Len(right.nodes) : t.nodes[1 + Len(left.nodes) + k] = right.nodes[k]

LEMMA InnerTreeIsTyped ==
  ASSUME NEW refs, AreReferences(refs), NEW S, S \subseteq DOMAIN refs, S # {},
         NEW leftNode \in Int, NEW rightNode \in Int,
         NEW left, TypedTree(left), NEW right, TypedTree(right),
         NEW t, t = InnerTree(refs, S, leftNode, rightNode, left, right)
  PROVE  TypedTree(t) /\ PutTogether(refs, S, leftNode, rightNode, left, right, t)
<1> DEFINE bits == InnerBits(left.nodes[1].classBits, right.nodes[1].classBits)
           start == left.nodes[1].start
           e == NodeEntry(refs, S, leftNode, rightNode, start, bits)
           a == left.nodes
           b == right.nodes
           h == <<e>>
<1>1. t = [nodes |-> (h \o a) \o b, lanes |-> left.lanes \o right.lanes]
  BY Zenon DEF InnerTree
<1>2. a \in Seq(Entry) /\ b \in Seq(Entry) /\ Len(a) \in Nat /\ Len(b) \in Nat /\ Len(a) >= 1
  BY DEF TypedTree
<1>3. bits \in 0..3
  BY Zenon, BitsAreFew DEF InnerBits
<1>4. start \in Nat
  <2>1. a[1] \in Entry
    BY <1>2
  <2> QED BY <2>1 DEF Entry
<1> HIDE DEF bits, start
<1>5. e \in Entry
  BY <1>3, <1>4, EntryIsTyped
<1> HIDE DEF e, a, b
<1>6. h \in Seq(Entry) /\ Len(h) = 1 /\ h[1] = e
  BY <1>5
<1> HIDE DEF h
<1>7. /\ h \o a \in Seq(Entry) /\ Len(h \o a) = Len(h) + Len(a)
      /\ \A k \in 1..(Len(h) + Len(a)) : (h \o a)[k] = IF k <= Len(h) THEN h[k] ELSE a[k - Len(h)]
  BY <1>2, <1>6, ConcatProperties
<1> DEFINE c == h \o a
           n == c \o b
<1>8. c \in Seq(Entry) /\ Len(c) = 1 + Len(a) /\ c[1] = e
  <2>1. 1 \in 1..(Len(h) + Len(a))
    BY <1>2, <1>6
  <2> QED BY <1>2, <1>6, <1>7, <2>1
<1>9. ASSUME NEW k \in 1..Len(a) PROVE c[1 + k] = a[k]
  <2>1. 1 + k \in 1..(Len(h) + Len(a)) /\ ~(1 + k <= Len(h)) /\ (1 + k) - Len(h) = k
    BY <1>2, <1>6
  <2>2. c[1 + k] = IF 1 + k <= Len(h) THEN h[1 + k] ELSE a[(1 + k) - Len(h)]
    BY <1>7, <2>1
  <2> QED BY <2>1, <2>2
<1> HIDE DEF c
<1>10. /\ n \in Seq(Entry) /\ Len(n) = Len(c) + Len(b)
       /\ \A k \in 1..(Len(c) + Len(b)) : n[k] = IF k <= Len(c) THEN c[k] ELSE b[k - Len(c)]
  <2>1. c \in Seq(Entry) /\ b \in Seq(Entry)
    BY <1>2, <1>8
  <2> QED BY Zenon, <2>1, ConcatProperties
<1>11. ASSUME NEW k \in 1..(1 + Len(a)) PROVE n[k] = c[k]
  <2>1. k \in 1..(Len(c) + Len(b)) /\ k <= Len(c)
    BY <1>2, <1>8
  <2> QED BY <1>10, <2>1
<1>12. ASSUME NEW k \in 1..Len(b) PROVE n[1 + Len(a) + k] = b[k]
  <2>1. /\ 1 + Len(a) + k \in 1..(Len(c) + Len(b)) /\ ~(1 + Len(a) + k <= Len(c))
        /\ (1 + Len(a) + k) - Len(c) = k
    BY <1>2, <1>8
  <2>2. n[1 + Len(a) + k] = IF 1 + Len(a) + k <= Len(c) THEN c[1 + Len(a) + k] ELSE b[(1 + Len(a) + k) - Len(c)]
    BY <1>10, <2>1
  <2> QED BY <2>1, <2>2
<1>13. t.nodes = n /\ t.lanes = left.lanes \o right.lanes
  <2> DEFINE y == left.lanes \o right.lanes
  <2>1. n = (h \o a) \o b
    BY Zenon DEF c
  <2> HIDE DEF n
  <2>2. t = [nodes |-> n, lanes |-> y]
    BY Zenon, <1>1, <2>1
  <2> HIDE DEF y
  <2>3. t.nodes = n /\ t.lanes = y
    BY <2>2
  <2> QED BY <2>3 DEF y
<1> HIDE DEF n
<1>14. Len(n) = 1 + Len(a) + Len(b) /\ Len(n) >= 1 /\ n[1] = e
  <2>1. 1 \in 1..(1 + Len(a))
    BY <1>2
  <2> QED BY <1>2, <1>8, <1>10, <1>11, <2>1
<1>15. \A k \in 1..Len(a) : n[1 + k] = a[k]
  <2> TAKE k \in 1..Len(a)
  <2>1. 1 + k \in 1..(1 + Len(a))
    BY <1>2
  <2> QED BY <1>9, <1>11, <2>1
<1>16. left.lanes \in Seq(Lane) /\ right.lanes \in Seq(Lane)
  BY DEF TypedTree
<1>17. t.lanes \in Seq(Lane) /\ Len(t.lanes) = Len(left.lanes) + Len(right.lanes)
  BY <1>13, <1>16, ConcatProperties
<1>18. TypedTree(t)
  BY <1>10, <1>13, <1>14, <1>17 DEF TypedTree
<1> QED BY Zenon, <1>12, <1>13, <1>14, <1>15, <1>17, <1>18 DEF PutTogether, a, b, e, bits, start

(* One call of build_node, given what its calls for the halves return.     *)
BuildStep(refs, leafSize, build, call) ==
  LET S     == call[1]
      node  == call[2]
      start == call[3]
      half  == LeftHalf(refs, S)
      left  == build[<<half, node + 1, start>>]
      next  == node + 1 + Len(left.nodes)
      right == build[<<S \ half, next, start + Len(left.lanes)>>]
  IN  IF Splits(S, leafSize)
      THEN InnerTree(refs, S, node + 1, next, left, right)
      ELSE LeafTree(refs, S, start)

Calls(root) == (SUBSET root) \X Nat \X Nat

IsBuild(refs, root, leafSize, build) ==
  build = [call \in Calls(root) |-> BuildStep(refs, leafSize, build, call)]

LeftOf(refs, build, S, node, start) == build[<<LeftHalf(refs, S), node + 1, start>>]

NextNode(refs, build, S, node, start) == node + 1 + Len(LeftOf(refs, build, S, node, start).nodes)

NextLane(refs, build, S, node, start) == start + Len(LeftOf(refs, build, S, node, start).lanes)

RightOf(refs, build, S, node, start) ==
  build[<<S \ LeftHalf(refs, S), NextNode(refs, build, S, node, start), NextLane(refs, build, S, node, start)>>]

LEMMA StepOfInner ==
  ASSUME NEW refs, NEW leafSize, NEW build, NEW S, NEW node, NEW start, Splits(S, leafSize)
  PROVE  BuildStep(refs, leafSize, build, <<S, node, start>>)
           = InnerTree(refs, S, node + 1, NextNode(refs, build, S, node, start),
                       LeftOf(refs, build, S, node, start), RightOf(refs, build, S, node, start))
<1> DEFINE call == <<S, node, start>>
<1>1. call[1] = S /\ call[2] = node /\ call[3] = start
  OBVIOUS
<1> HIDE DEF call
<1>2. BuildStep(refs, leafSize, build, call)
        = InnerTree(refs, S, node + 1, NextNode(refs, build, S, node, start),
                    LeftOf(refs, build, S, node, start), RightOf(refs, build, S, node, start))
  BY Zenon, <1>1 DEF BuildStep, NextNode, NextLane, LeftOf, RightOf
<1> QED BY <1>2 DEF call

LEMMA StepOfLeaf ==
  ASSUME NEW refs, NEW leafSize, NEW build, NEW S, NEW node, NEW start, ~Splits(S, leafSize)
  PROVE  BuildStep(refs, leafSize, build, <<S, node, start>>) = LeafTree(refs, S, start)
<1> DEFINE call == <<S, node, start>>
<1>1. call[1] = S /\ call[2] = node /\ call[3] = start
  OBVIOUS
<1> HIDE DEF call
<1>2. BuildStep(refs, leafSize, build, call) = LeafTree(refs, S, start)
  BY Zenon, <1>1 DEF BuildStep
<1> QED BY <1>2 DEF call

(* The halves of a call.                                                   *)
LEMMA HalvesAreSmaller ==
  ASSUME NEW refs, AreReferences(refs), NEW S, S \subseteq DOMAIN refs,
         NEW leafSize \in Nat, 1 <= leafSize, Splits(S, leafSize),
         NEW half, half = LeftHalf(refs, S)
  PROVE  /\ half \subseteq S /\ half # {} /\ S \ half # {} /\ S # {}
         /\ Cardinality(half) \in Nat /\ Cardinality(S \ half) \in Nat /\ Cardinality(S) \in Nat
         /\ Cardinality(half) + 1 <= Cardinality(S) /\ Cardinality(S \ half) + 1 <= Cardinality(S)
<1>1. IsFiniteSet(S) /\ Cardinality(S) \in Nat
  BY PositionsAreFinite
<1>2. 2 <= Cardinality(S)
  BY <1>1 DEF Splits
<1>3. half \subseteq S /\ half # {} /\ half # S
  BY <1>2, HalfIsProper
<1>4. PICK i \in S : i \notin half
  BY <1>3
<1>5. PICK j \in S : j \in half
  BY <1>3
<1>6. IsFiniteSet(S \ {i}) /\ Cardinality(S \ {i}) = Cardinality(S) - 1
  BY <1>1, <1>4, FS_RemoveElement
<1>7. IsFiniteSet(S \ {j}) /\ Cardinality(S \ {j}) = Cardinality(S) - 1
  BY <1>1, <1>5, FS_RemoveElement
<1>8. half \subseteq S \ {i} /\ S \ half \subseteq S \ {j}
  BY <1>3, <1>4, <1>5
<1>9. IsFiniteSet(half) /\ Cardinality(half) <= Cardinality(S \ {i})
  BY <1>6, <1>8, FS_Subset
<1>10. IsFiniteSet(S \ half) /\ Cardinality(S \ half) <= Cardinality(S \ {j})
  BY <1>7, <1>8, FS_Subset
<1>11. Cardinality(half) \in Nat /\ Cardinality(S \ half) \in Nat
  BY <1>9, <1>10, FS_CardinalityType
<1> QED BY <1>1, <1>3, <1>4, <1>6, <1>7, <1>9, <1>10, <1>11

LEMMA BuildExists ==
  ASSUME NEW refs, AreReferences(refs), NEW root, root \subseteq DOMAIN refs,
         NEW leafSize \in Nat, 1 <= leafSize
  PROVE  \E build : IsBuild(refs, root, leafSize, build)
<1> DEFINE Value(g, S, node, start) == g[<<S, node, start>>]
           Step(g, S, node, start) == BuildStep(refs, leafSize, g, <<S, node, start>>)
           Builds(n, g) ==
             /\ g = [call \in Calls(root) |-> g[call]]
             /\ \A S \in SUBSET root : \A node, start \in Nat :
                  Cardinality(S) <= n =>
                    /\ Value(g, S, node, start) = Step(g, S, node, start)
                    /\ S # {} => TypedTree(Value(g, S, node, start))
           T == {n \in Nat : \E g : Builds(n, g)}
<1>1. \A S \in SUBSET root :
        /\ S \subseteq DOMAIN refs /\ IsFiniteSet(S) /\ Cardinality(S) \in Nat
        /\ Cardinality(S) <= Cardinality(root)
  <2> TAKE S \in SUBSET root
  <2>1. S \subseteq DOMAIN refs
    OBVIOUS
  <2>2. IsFiniteSet(S) /\ Cardinality(S) \in Nat /\ IsFiniteSet(root)
    BY <2>1, PositionsAreFinite
  <2>3. Cardinality(S) <= Cardinality(root)
    BY <2>2, FS_Subset
  <2> QED BY <2>1, <2>2, <2>3
<1>2. \A S \in SUBSET root : \A node, start \in Nat : <<S, node, start>> \in Calls(root)
  BY DEF Calls
<1>3. ASSUME NEW g, NEW n \in Nat, Builds(n, g), NEW S \in SUBSET root, NEW node \in Nat, NEW start \in Nat,
             Cardinality(S) <= n + 1, Splits(S, leafSize)
      PROVE  /\ S # {}
             /\ LeftHalf(refs, S) \in SUBSET root /\ S \ LeftHalf(refs, S) \in SUBSET root
             /\ Cardinality(LeftHalf(refs, S)) <= n /\ Cardinality(S \ LeftHalf(refs, S)) <= n
             /\ node + 1 \in Nat
             /\ NextNode(refs, g, S, node, start) \in Nat /\ NextLane(refs, g, S, node, start) \in Nat
             /\ TypedTree(LeftOf(refs, g, S, node, start)) /\ TypedTree(RightOf(refs, g, S, node, start))
  <2> DEFINE half == LeftHalf(refs, S)
             left == LeftOf(refs, g, S, node, start)
  <2>1. /\ half \subseteq S /\ half # {} /\ S \ half # {} /\ S # {}
        /\ Cardinality(half) \in Nat /\ Cardinality(S \ half) \in Nat /\ Cardinality(S) \in Nat
        /\ Cardinality(half) + 1 <= Cardinality(S) /\ Cardinality(S \ half) + 1 <= Cardinality(S)
    BY <1>1, <1>3, HalvesAreSmaller
  <2>2. Cardinality(half) <= n /\ Cardinality(S \ half) <= n /\ node + 1 \in Nat
    BY <1>3, <2>1
  <2>3. half \in SUBSET root /\ S \ half \in SUBSET root
    BY <2>1
  <2> HIDE DEF half
  <2>4. left = g[<<half, node + 1, start>>]
    BY Zenon DEF LeftOf, half
  <2> HIDE DEF left
  <2>5. TypedTree(left)
    BY <1>3, <2>1, <2>2, <2>3, <2>4
  <2>6. left.nodes \in Seq(Entry) /\ left.lanes \in Seq(Lane)
    BY <2>5 DEF TypedTree
  <2>7. Len(left.nodes) \in Nat /\ Len(left.lanes) \in Nat
    BY <2>6
  <2> DEFINE a == NextNode(refs, g, S, node, start)
             b == NextLane(refs, g, S, node, start)
  <2>8. a \in Nat /\ b \in Nat
    <3>1. a = node + 1 + Len(left.nodes) /\ b = start + Len(left.lanes)
      BY Zenon DEF NextNode, NextLane, left
    <3> DEFINE p == Len(left.nodes)
               q == Len(left.lanes)
    <3>2. p \in Nat /\ q \in Nat /\ a = node + 1 + p /\ b = start + q
      BY Zenon, <2>7, <3>1
    <3> HIDE DEF a, b, p, q
    <3> QED BY <3>2
  <2> HIDE DEF a, b
  <2>9. RightOf(refs, g, S, node, start) = g[<<S \ half, a, b>>]
    BY Zenon DEF RightOf, half, a, b
  <2>10. TypedTree(RightOf(refs, g, S, node, start))
    BY <1>3, <2>1, <2>2, <2>3, <2>8, <2>9
  <2> QED BY <2>1, <2>2, <2>3, <2>5, <2>8, <2>10 DEF half, left, a, b
<1>4. 0 \in T
  <2> DEFINE g == [call \in Calls(root) |-> LeafTree(refs, call[1], call[3])]
  <2>1. ASSUME NEW S \in SUBSET root, NEW node \in Nat, NEW start \in Nat, Cardinality(S) <= 0
        PROVE  S = {} /\ Value(g, S, node, start) = Step(g, S, node, start)
    <3>1. Cardinality(S) = 0 /\ IsFiniteSet(S)
      BY <1>1, <2>1
    <3>2. ~Splits(S, leafSize)
      BY <3>1 DEF Splits
    <3>3. S = {}
      BY <3>1, FS_EmptySet
    <3>4. Value(g, S, node, start) = LeafTree(refs, S, start)
      BY <1>2
    <3>5. Step(g, S, node, start) = LeafTree(refs, S, start)
      <4> HIDE DEF g
      <4> QED BY <3>2, StepOfLeaf
    <3> QED BY <3>3, <3>4, <3>5
  <2>2. g = [call \in Calls(root) |-> g[call]]
    OBVIOUS
  <2> HIDE DEF g, Value, Step
  <2>3. Builds(0, g)
    BY <2>1, <2>2
  <2> QED BY <2>3
<1>5. ASSUME NEW n \in Nat, n \in T PROVE n + 1 \in T
  <2>1. PICK g : Builds(n, g)
    BY <1>5
  <2> DEFINE h == [call \in Calls(root) |-> BuildStep(refs, leafSize, g, call)]
  <2>2. h = [call \in Calls(root) |-> h[call]]
    OBVIOUS
  <2>3. \A S \in SUBSET root : \A node, start \in Nat : Value(h, S, node, start) = Step(g, S, node, start)
    BY <1>2
  <2> HIDE DEF h
  <2>4. \A S \in SUBSET root : \A node, start \in Nat :
          Cardinality(S) <= n => Value(h, S, node, start) = Value(g, S, node, start)
    <3> HIDE DEF Value, Step
    <3> QED BY <2>1, <2>3
  <2>5. ASSUME NEW S \in SUBSET root, NEW node \in Nat, NEW start \in Nat, Cardinality(S) <= n + 1
        PROVE  /\ Value(h, S, node, start) = Step(h, S, node, start)
               /\ S # {} => TypedTree(Value(h, S, node, start))
    <3>1. CASE ~Splits(S, leafSize)
      <4>1. Step(g, S, node, start) = LeafTree(refs, S, start) /\ Step(h, S, node, start) = LeafTree(refs, S, start)
        BY <3>1, StepOfLeaf
      <4>2. S # {} => TypedTree(LeafTree(refs, S, start))
        BY <1>1, LeafTreeIsTyped
      <4> HIDE DEF Value, Step
      <4> QED BY <2>3, <4>1, <4>2
    <3>2. CASE Splits(S, leafSize)
      <4> DEFINE half == LeftHalf(refs, S)
                 left == LeftOf(refs, g, S, node, start)
                 right == RightOf(refs, g, S, node, start)
                 a == NextNode(refs, g, S, node, start)
                 b == NextLane(refs, g, S, node, start)
      <4>1. /\ S # {} /\ half \in SUBSET root /\ S \ half \in SUBSET root
            /\ Cardinality(half) <= n /\ Cardinality(S \ half) <= n
            /\ node + 1 \in Nat /\ a \in Nat /\ b \in Nat /\ TypedTree(left) /\ TypedTree(right)
        <5> HIDE DEF Builds
        <5> QED BY <1>3, <2>1, <2>5, <3>2
      <4>2. LeftOf(refs, h, S, node, start) = left
        <5>1. Value(h, half, node + 1, start) = Value(g, half, node + 1, start)
          BY <2>4, <4>1
        <5> QED BY Zenon, <5>1 DEF LeftOf
      <4>3. NextNode(refs, h, S, node, start) = a /\ NextLane(refs, h, S, node, start) = b
        BY Zenon, <4>2 DEF NextNode, NextLane
      <4>4. RightOf(refs, h, S, node, start) = right
        <5> HIDE DEF a, b, half
        <5>1. Value(h, S \ half, a, b) = Value(g, S \ half, a, b)
          BY <2>4, <4>1
        <5> QED BY Zenon, <4>3, <5>1 DEF RightOf, a, b, half
      <4>5. Step(g, S, node, start) = InnerTree(refs, S, node + 1, a, left, right)
        BY <3>2, StepOfInner
      <4>6. Step(h, S, node, start) = InnerTree(refs, S, node + 1, a, left, right)
        BY <3>2, <4>2, <4>3, <4>4, StepOfInner
      <4> HIDE DEF Value, Step, left, right, a, b, half
      <4> DEFINE t == InnerTree(refs, S, node + 1, a, left, right)
                 m == node + 1
      <4>7. TypedTree(t)
        <5>1. m \in Int /\ a \in Int /\ S \subseteq DOMAIN refs /\ S # {}
          BY <1>1, <4>1
        <5>2. t = InnerTree(refs, S, m, a, left, right)
          OBVIOUS
        <5> HIDE DEF t, m
        <5> QED BY <4>1, <5>1, <5>2, InnerTreeIsTyped
      <4> QED BY <2>3, <4>5, <4>6, <4>7
    <3> QED BY <3>1, <3>2
  <2>6. Builds(n + 1, h)
    BY <2>2, <2>5
  <2> HIDE DEF Builds
  <2> QED BY <2>6
<1> HIDE DEF T
<1>6. \A n \in Nat : n \in T
  BY <1>4, <1>5, AllNumbers
<1>7. Cardinality(root) \in T
  BY <1>1, <1>6
<1>8. PICK g : Builds(Cardinality(root), g)
  BY <1>7 DEF T
<1>9. \A call \in Calls(root) : g[call] = BuildStep(refs, leafSize, g, call)
  <2> TAKE call \in Calls(root)
  <2>1. PICK S \in SUBSET root, node \in Nat, start \in Nat : call = <<S, node, start>>
    BY DEF Calls
  <2>2. Value(g, S, node, start) = Step(g, S, node, start)
    BY <1>1, <1>8
  <2> QED BY <2>1, <2>2
<1>10. g = [call \in Calls(root) |-> g[call]]
  BY <1>8
<1>11. g = [call \in Calls(root) |-> BuildStep(refs, leafSize, g, call)]
  BY <1>9, <1>10
<1> QED BY <1>11 DEF IsBuild

(* Node n of nodes that are numbered up to last: below it are the          *)
(* references below[n], each in the lane pos[i].                           *)
IsNode(refs, e, n, last, below, pos) ==
  /\ below[n] # {}
  /\ e.len = Cardinality(below[n])
  /\ e.min = BoxLow(refs, below[n]) /\ e.max = BoxHigh(refs, below[n])
  /\ e.classBits = Bits(ClassBits(refs, below[n]))
  /\ \/ /\ e.left = -1 /\ e.right = -1 /\ e.start % LANES = 0
        /\ {pos[i] : i \in below[n]} = e.start..(e.start + e.len - 1)
     \/ /\ e.left \in (n + 1)..last /\ e.right \in (n + 1)..last
        /\ below[n] = below[e.left] \union below[e.right]

(* Nodes from firstNode and lanes from firstLane on that hold S.           *)
Forest(refs, S, nodes, lanes, firstNode, firstLane, below, pos) ==
  /\ nodes \in Seq(Entry) /\ lanes \in Seq(Lane) /\ Len(lanes) % LANES = 0
  /\ pos \in [S -> Nat]
  /\ \A i \in S : /\ firstLane <= pos[i] /\ pos[i] < firstLane + Len(lanes)
                  /\ lanes[pos[i] - firstLane + 1] = LaneOf(refs, i)
  /\ below \in [firstNode..(firstNode + Len(nodes) - 1) -> SUBSET S]
  /\ \A k \in 1..Len(nodes) :
       IsNode(refs, nodes[k], firstNode + k - 1, firstNode + Len(nodes) - 1, below, pos)

(* Nodes and lanes keep what they hold among others.                       *)
Extends(below, pos, b, p, a, last, S) ==
  /\ b \in [a..last -> SUBSET S] /\ p \in [S -> Nat]
  /\ \A m \in a..last : below[m] = b[m]
  /\ \A i \in S : pos[i] = p[i]

LEMMA NodeStays ==
  ASSUME NEW refs, NEW e, NEW a \in Nat, NEW last \in Int, NEW n \in a..last, NEW S,
         NEW p, NEW b, NEW end \in Int, last <= end, NEW below, NEW pos,
         Extends(below, pos, b, p, a, last, S), IsNode(refs, e, n, last, b, p)
  PROVE  IsNode(refs, e, n, end, below, pos)
<1> n \in Nat
  OBVIOUS
<1> /\ b \in [a..last -> SUBSET S] /\ p \in [S -> Nat]
    /\ \A m \in a..last : below[m] = b[m]
    /\ \A i \in S : pos[i] = p[i]
  BY Zenon DEF Extends
<1>1. below[n] = b[n] /\ b[n] \subseteq S
  OBVIOUS
<1>2. /\ b[n] # {} /\ e.len = Cardinality(b[n])
      /\ e.min = BoxLow(refs, b[n]) /\ e.max = BoxHigh(refs, b[n])
      /\ e.classBits = Bits(ClassBits(refs, b[n]))
  BY DEF IsNode
<1>3. /\ below[n] # {} /\ e.len = Cardinality(below[n])
      /\ e.min = BoxLow(refs, below[n]) /\ e.max = BoxHigh(refs, below[n])
      /\ e.classBits = Bits(ClassBits(refs, below[n]))
  BY Zenon, <1>1, <1>2
<1>4. CASE /\ e.left = -1 /\ e.right = -1 /\ e.start % LANES = 0
           /\ {p[i] : i \in b[n]} = e.start..(e.start + e.len - 1)
  <2>1. {pos[i] : i \in below[n]} = {p[i] : i \in b[n]}
    BY <1>1
  <2> QED BY Zenon, <1>3, <1>4, <2>1 DEF IsNode
<1>5. CASE /\ e.left \in (n + 1)..last /\ e.right \in (n + 1)..last
           /\ b[n] = b[e.left] \union b[e.right]
  <2>1. e.left \in a..last /\ e.right \in a..last
    BY <1>5
  <2>2. below[n] = below[e.left] \union below[e.right]
    BY <1>1, <1>5, <2>1
  <2>3. e.left \in (n + 1)..end /\ e.right \in (n + 1)..end
    BY <1>5
  <2> QED BY Zenon, <1>3, <2>2, <2>3 DEF IsNode
<1> QED BY Zenon, <1>4, <1>5 DEF IsNode

LEMMA EmptyForest ==
  ASSUME NEW refs
  PROVE  \E below, pos : Forest(refs, {}, << >>, << >>, 0, 0, below, pos)
<1> DEFINE below == [n \in 0..(-1) |-> {}]
           pos == [i \in {} |-> 0]
           none == << >>
<1>1. none \in Seq(Entry) /\ none \in Seq(Lane) /\ Len(none) = 0
  OBVIOUS
<1>2. LANES \in Nat \ {0}
  BY IndexFileAssumption
<1>3. Len(none) % LANES = 0
  BY <1>1, <1>2
<1>4. pos \in [{} -> Nat] /\ below \in [0..(-1) -> SUBSET {}]
  OBVIOUS
<1>5. 0 + Len(none) - 1 = -1 /\ 1..Len(none) = {}
  BY <1>1
<1> HIDE DEF none, pos, below
<1>6. Forest(refs, {}, none, none, 0, 0, below, pos)
  BY <1>1, <1>3, <1>4, <1>5 DEF Forest
<1> QED BY <1>6 DEF none

LEMMA SumOfRests ==
  ASSUME NEW a \in Nat, NEW b \in Nat, a % LANES = 0, b % LANES = 0
  PROVE  (a + b) % LANES = 0
<1> DEFINE L == LANES
           p == a \div L
           q == b \div L
           r == a % L
           s == b % L
<1>1. L \in Nat \ {0}
  BY IndexFileAssumption
<1>2. p \in Nat /\ a = L * p + r /\ r = 0
  <2> HIDE DEF L
  <2>1. p \in Nat
    BY <1>1
  <2>2. a = L * p + r
    BY <1>1
  <2> QED BY <2>1, <2>2 DEF L
<1>3. q \in Nat /\ b = L * q + s /\ s = 0
  <2> HIDE DEF L
  <2>1. q \in Nat
    BY <1>1
  <2>2. b = L * q + s
    BY <1>1
  <2> QED BY <2>1, <2>2 DEF L
<1> HIDE DEF p, q, r, s
<1>4. a + b = (p + q) * L + 0
  <2> HIDE DEF L
  <2> QED BY <1>1, <1>2, <1>3
<1>5. 0 \in 0..(L - 1) /\ p + q \in Nat
  BY <1>1, <1>2, <1>3
<1>6. ((p + q) * L + 0) % L = 0
  <2> HIDE DEF L
  <2> QED BY <1>1, <1>5, RowAndField
<1> QED BY <1>4, <1>6

(* The next node and lane after those of a forest.                         *)
Follows(nodes, lanes, a, b, a2, b2) == a2 = a + Len(nodes) /\ b2 = b + Len(lanes)

Kept(below, b, a, n) == \A m \in a..(a + n - 1) : below[m] = b[m]

(* Two forests, one behind the other.                                      *)
LEMMA ForestsJoin ==
  ASSUME NEW refs, NEW a \in Nat, NEW b \in Nat, NEW A, NEW B, A \intersect B = {},
         NEW nA, NEW lA, NEW bA, NEW pA, Forest(refs, A, nA, lA, a, b, bA, pA),
         NEW nB, NEW lB, NEW bB, NEW pB,
         NEW a2, NEW b2, Follows(nA, lA, a, b, a2, b2), Forest(refs, B, nB, lB, a2, b2, bB, pB)
  PROVE  \E below, pos :
           /\ Forest(refs, A \union B, nA \o nB, lA \o lB, a, b, below, pos)
           /\ Kept(below, bA, a, Len(nA)) /\ Kept(below, bB, a2, Len(nB))
<1> DEFINE N == Len(nA)
           M == Len(nB)
           S == A \union B
           nodes == nA \o nB
           lanes == lA \o lB
           end == a + (N + M) - 1
           below == [m \in a..end |-> IF m < a + N THEN bA[m] ELSE bB[m]]
           pos == [i \in S |-> IF i \in A THEN pA[i] ELSE pB[i]]
<1> a2 = a + Len(nA) /\ b2 = b + Len(lA)
  BY Zenon DEF Follows
<1>1. /\ nA \in Seq(Entry) /\ nB \in Seq(Entry) /\ lA \in Seq(Lane) /\ lB \in Seq(Lane)
      /\ Len(lA) % LANES = 0 /\ Len(lB) % LANES = 0
      /\ pA \in [A -> Nat] /\ pB \in [B -> Nat]
  BY Zenon DEF Forest
<1>2. N \in Nat /\ M \in Nat /\ Len(lA) \in Nat /\ Len(lB) \in Nat /\ a2 \in Nat /\ b2 \in Nat
  BY <1>1
<1>3. bA \in [a..(a + N - 1) -> SUBSET A] /\ bB \in [a2..(a2 + M - 1) -> SUBSET B]
  BY Zenon DEF Forest
<1>4. /\ nodes \in Seq(Entry) /\ Len(nodes) = N + M
      /\ \A k \in 1..(N + M) : nodes[k] = IF k <= N THEN nA[k] ELSE nB[k - N]
  BY <1>1, ConcatProperties
<1>5. /\ lanes \in Seq(Lane) /\ Len(lanes) = Len(lA) + Len(lB)
      /\ \A k \in 1..(Len(lA) + Len(lB)) : lanes[k] = IF k <= Len(lA) THEN lA[k] ELSE lB[k - Len(lA)]
  BY <1>1, ConcatProperties
<1>6. Len(lanes) % LANES = 0
  BY <1>1, <1>2, <1>5, SumOfRests
<1>7. /\ \A m \in a..(a + N - 1) : m \in a..end /\ below[m] = bA[m]
      /\ \A m \in a2..(a2 + M - 1) : m \in a..end /\ below[m] = bB[m]
  BY SMTT(30), <1>2
<1>8. below \in [a..end -> SUBSET S]
  <2>1. ASSUME NEW m \in a..end PROVE (IF m < a + N THEN bA[m] ELSE bB[m]) \in SUBSET S
    <3>1. CASE m < a + N
      <4>1. m \in a..(a + N - 1)
        BY <1>2, <3>1
      <4>2. bA[m] \in SUBSET A
        BY <1>3, <4>1
      <4> QED BY <3>1, <4>2
    <3>2. CASE ~(m < a + N)
      <4>1. m \in a2..(a2 + M - 1)
        BY <1>2, <3>2
      <4>2. bB[m] \in SUBSET B
        BY <1>3, <4>1
      <4> QED BY <3>2, <4>2
    <3> QED BY <3>1, <3>2
  <2> QED BY <2>1
<1>9. (\A i \in A : pos[i] = pA[i]) /\ \A i \in B : pos[i] = pB[i]
  OBVIOUS
<1>10. pos \in [S -> Nat]
  BY <1>1
<1> HIDE DEF below, pos, nodes, lanes
<1>11. ASSUME NEW i \in S
       PROVE  /\ b <= pos[i] /\ pos[i] < b + Len(lanes)
              /\ lanes[pos[i] - b + 1] = LaneOf(refs, i)
  <2>1. CASE i \in A
    <3>1. b <= pA[i] /\ pA[i] < b + Len(lA) /\ lA[pA[i] - b + 1] = LaneOf(refs, i) /\ pA[i] \in Nat
      BY <1>1, <2>1 DEF Forest
    <3>2. pA[i] - b + 1 \in 1..(Len(lA) + Len(lB)) /\ pA[i] - b + 1 <= Len(lA)
      <4> DEFINE x == pA[i]
                 l == Len(lA)
                 m == Len(lB)
      <4>1. x \in Nat /\ l \in Nat /\ m \in Nat /\ b <= x /\ x < b + l
        BY <1>2, <3>1
      <4> HIDE DEF x, l, m
      <4>2. x - b + 1 \in 1..(l + m) /\ x - b + 1 <= l
        BY <4>1
      <4> QED BY <4>2 DEF x, l, m
    <3>3. lanes[pA[i] - b + 1] = lA[pA[i] - b + 1]
      BY <1>5, <3>2
    <3>4. pos[i] = pA[i]
      BY <1>9, <2>1
    <3>5. pA[i] < b + Len(lanes)
      BY <1>2, <1>5, <3>1
    <3> QED BY <3>1, <3>3, <3>4, <3>5
  <2>2. CASE i \in B
    <3>1. b2 <= pB[i] /\ pB[i] < b2 + Len(lB) /\ lB[pB[i] - b2 + 1] = LaneOf(refs, i) /\ pB[i] \in Nat
      BY <1>1, <2>2 DEF Forest
    <3>2. /\ pB[i] - b + 1 \in 1..(Len(lA) + Len(lB)) /\ ~(pB[i] - b + 1 <= Len(lA))
          /\ (pB[i] - b + 1) - Len(lA) = pB[i] - b2 + 1
      <4> DEFINE x == pB[i]
                 l == Len(lA)
                 m == Len(lB)
      <4>1. x \in Nat /\ l \in Nat /\ m \in Nat /\ b2 = b + l /\ b2 <= x /\ x < b2 + m
        BY <1>2, <3>1
      <4> HIDE DEF x, l, m
      <4>2. x - b + 1 \in 1..(l + m) /\ ~(x - b + 1 <= l) /\ (x - b + 1) - l = x - b2 + 1
        BY <4>1
      <4> QED BY <4>2 DEF x, l, m
    <3>3. lanes[pB[i] - b + 1] = lB[(pB[i] - b + 1) - Len(lA)]
      BY <1>5, <3>2
    <3>4. pos[i] = pB[i]
      BY <1>9, <2>2
    <3>5. b <= pB[i] /\ pB[i] < b + Len(lanes)
      BY <1>2, <1>5, <3>1
    <3> QED BY <3>1, <3>2, <3>3, <3>4, <3>5
  <2> QED BY <2>1, <2>2
<1>12. ASSUME NEW k \in 1..Len(nodes) PROVE IsNode(refs, nodes[k], a + k - 1, end, below, pos)
  <2>1. CASE k <= N
    <3> DEFINE n == a + k - 1
               last == a + N - 1
    <3>1. k \in 1..N /\ n \in Nat /\ last \in Int /\ n \in a..last /\ end \in Int /\ last <= end
      BY <1>2, <1>4, <2>1
    <3>2. IsNode(refs, nA[k], n, last, bA, pA)
      BY <3>1 DEF Forest
    <3>3. nodes[k] = nA[k]
      BY <1>2, <1>4, <2>1
    <3>4. Extends(below, pos, bA, pA, a, last, A)
      BY <1>1, <1>3, <1>7, <1>9 DEF Extends
    <3> HIDE DEF n, last, end
    <3>5. IsNode(refs, nA[k], n, end, below, pos)
      BY <3>1, <3>2, <3>4, NodeStays
    <3> QED BY <3>3, <3>5 DEF n
  <2>2. CASE ~(k <= N)
    <3> DEFINE n == a + k - 1
               last == a2 + M - 1
               j == k - N
    <3>1. j \in 1..M /\ n \in Nat /\ last \in Int /\ n \in a2..last /\ end \in Int /\ last <= end
      BY <1>2, <1>4, <2>2
    <3>1a. n = a2 + j - 1
      BY <1>2, <1>4
    <3>2. IsNode(refs, nB[j], n, last, bB, pB)
      <4>1. \A l \in 1..M : IsNode(refs, nB[l], a2 + l - 1, last, bB, pB)
        BY Zenon DEF Forest
      <4> HIDE DEF j, n, last
      <4> QED BY <3>1, <3>1a, <4>1
    <3>3. nodes[k] = nB[j]
      BY <1>2, <1>4, <2>2
    <3>4. Extends(below, pos, bB, pB, a2, last, B)
      BY <1>1, <1>3, <1>7, <1>9 DEF Extends
    <3> HIDE DEF n, last, end, j
    <3>5. IsNode(refs, nB[j], n, end, below, pos)
      BY <1>2, <3>1, <3>2, <3>4, NodeStays
    <3> QED BY <3>3, <3>5 DEF n
  <2> QED BY <2>1, <2>2
<1>13. a + Len(nodes) - 1 = end
  BY <1>2, <1>4
<1> HIDE DEF S
<1>14. Forest(refs, S, nodes, lanes, a, b, below, pos)
  BY Zenon, <1>4, <1>5, <1>6, <1>8, <1>10, <1>11, <1>12, <1>13 DEF Forest
<1>15. Kept(below, bA, a, N) /\ Kept(below, bB, a2, M)
  BY Zenon, <1>7 DEF Kept
<1> QED BY Zenon, <1>14, <1>15 DEF nodes, lanes, S
LEMMA JoinedBits ==
  ASSUME NEW X, NEW Y
  PROVE  InnerBits(Bits(X), Bits(Y)) = Bits(X \union Y)
<1> DEFINE labels(bits) == {l \in {0, 1} : bits \in {l + 1, 3}}
<1>1. InnerBits(Bits(X), Bits(Y)) = Bits(labels(Bits(X)) \union labels(Bits(Y)))
  BY Zenon DEF InnerBits
<1>2. ASSUME NEW Z PROVE (0 \in labels(Bits(Z)) <=> 0 \in Z) /\ (1 \in labels(Bits(Z)) <=> 1 \in Z)
  BY DEF Bits
<1> HIDE DEF labels
<1> QED BY <1>1, <1>2 DEF Bits

LEMMA BelowIsOnto ==
  ASSUME NEW S, S \subseteq Int, IsFiniteSet(S), NEW start \in Nat
  PROVE  {start + Cardinality(Below(S, i)) : i \in S} = start..(start + Cardinality(S) - 1)
<1> DEFINE n == Cardinality(S)
<1>1. n \in Nat
  BY CardinalityIsNat
<1>2. ASSUME NEW i \in S PROVE start + Cardinality(Below(S, i)) \in start..(start + n - 1)
  <2>1. Cardinality(Below(S, i)) \in 0..(n - 1)
    BY BelowBound
  <2> HIDE DEF n
  <2> QED BY <1>1, <2>1
<1>3. ASSUME NEW x \in start..(start + n - 1) PROVE \E i \in S : x = start + Cardinality(Below(S, i))
  <2> DEFINE k == x - start
  <2>1. k \in 0..(n - 1) /\ x = start + k
    <3> HIDE DEF n
    <3> QED BY <1>1
  <2> HIDE DEF k
  <2>2. \E i \in S : Cardinality(Below(S, i)) = k
    BY <2>1, NthExists
  <2> QED BY <2>1, <2>2
<1> QED BY <1>2, <1>3

(* A leaf: its references in its lanes, in order.                          *)
LEMMA LeafForest ==
  ASSUME NEW refs, AreReferences(refs), NEW S, S \subseteq DOMAIN refs, S # {},
         NEW node \in Nat, NEW start \in Nat, start % LANES = 0,
         NEW t, t = LeafTree(refs, S, start)
  PROVE  \E below, pos : Forest(refs, S, t.nodes, t.lanes, node, start, below, pos) /\ below[node] = S
<1> DEFINE n == Cardinality(S)
           bits == Bits(ClassBits(refs, S))
           e == NodeEntry(refs, S, -1, -1, start, bits)
           below == [m \in {node} |-> S]
           pos == [i \in S |-> start + Cardinality(Below(S, i))]
<1>1. n \in Nat /\ IsFiniteSet(S) /\ S \subseteq Int
  BY PositionsAreFinite
<1>2. t.nodes \in Seq(Entry) /\ t.lanes \in Seq(Lane) /\ Len(t.nodes) = 1
  BY LeafTreeIsTyped DEF TypedTree
<1>3. t = [nodes |-> <<e>>, lanes |-> LeafLanes(refs, S)]
  BY Zenon DEF LeafTree
<1>4. t.nodes[1] = e /\ t.lanes = LeafLanes(refs, S)
  BY <1>3
<1>5. /\ Len(t.lanes) = Blocks(n) * LANES /\ Len(t.lanes) % LANES = 0
      /\ Len(t.lanes) \in Nat /\ n <= Len(t.lanes)
  <2>1. Len(t.lanes) = Blocks(n) * LANES
    BY Zenon, <1>4, LeafLanesAre
  <2> DEFINE N == Blocks(n) * LANES
  <2>2. N \in Nat /\ n <= N /\ N % LANES = 0
    BY <1>1, BlocksHold
  <2> HIDE DEF N, n
  <2> QED BY <2>1, <2>2 DEF N
<1>6. ASSUME NEW i \in S PROVE Cardinality(Below(S, i)) \in 0..(n - 1)
  BY <1>1, BelowBound
<1>7. pos \in [S -> Nat] /\ \A i \in S : pos[i] = start + Cardinality(Below(S, i))
  <2> HIDE DEF n
  <2> QED BY <1>1, <1>6
<1>8. {pos[i] : i \in S} = start..(start + n - 1)
  <2>1. {start + Cardinality(Below(S, i)) : i \in S} = start..(start + n - 1)
    BY <1>1, BelowIsOnto
  <2> HIDE DEF n
  <2> QED BY <2>1
<1> HIDE DEF pos
<1>9. ASSUME NEW i \in S
      PROVE  /\ start <= pos[i] /\ pos[i] < start + Len(t.lanes)
             /\ t.lanes[pos[i] - start + 1] = LaneOf(refs, i)
  <2> DEFINE c == Cardinality(Below(S, i))
             l == Len(t.lanes)
  <2>1. c \in 0..(n - 1) /\ pos[i] = start + c /\ l \in Nat /\ n <= l
    BY <1>5, <1>6, <1>7
  <2>2. t.lanes[c + 1] = LaneOf(refs, i)
    BY <1>4, LeafLanesAre
  <2> HIDE DEF c, l, n
  <2>3. start <= pos[i] /\ pos[i] < start + l /\ pos[i] - start + 1 = c + 1
    BY <1>1, <2>1
  <2> QED BY <2>2, <2>3 DEF l
<1>10. below[node] = S /\ below \in [node..(node + 1 - 1) -> SUBSET S]
  OBVIOUS
<1> HIDE DEF below
<1>11. IsNode(refs, e, node, node, below, pos)
  <2> HIDE DEF bits
  <2>1. /\ e.len = n /\ e.min = BoxLow(refs, S) /\ e.max = BoxHigh(refs, S) /\ e.classBits = bits
        /\ e.left = -1 /\ e.right = -1 /\ e.start = start
    BY DEF NodeEntry
  <2> HIDE DEF e, n
  <2>2. {pos[i] : i \in below[node]} = e.start..(e.start + e.len - 1)
    BY <1>8, <1>10, <2>1
  <2> QED BY Zenon, <1>10, <2>1, <2>2 DEF IsNode, n, bits
<1> HIDE DEF e
<1>12. \A k \in 1..Len(t.nodes) : IsNode(refs, t.nodes[k], node + k - 1, node + Len(t.nodes) - 1, below, pos)
  <2> TAKE k \in 1..Len(t.nodes)
  <2>1. k = 1 /\ node + k - 1 = node /\ node + Len(t.nodes) - 1 = node
    BY <1>2
  <2> QED BY <1>4, <1>11, <2>1
<1>13. below \in [node..(node + Len(t.nodes) - 1) -> SUBSET S]
  BY <1>2, <1>10
<1>14. Forest(refs, S, t.nodes, t.lanes, node, start, below, pos)
  BY Zenon, <1>2, <1>5, <1>7, <1>9, <1>12, <1>13 DEF Forest
<1> QED BY <1>10, <1>14

IsInner(refs, e, S, node, last, below) ==
  /\ S # {} /\ e.len = Cardinality(S)
  /\ e.min = BoxLow(refs, S) /\ e.max = BoxHigh(refs, S)
  /\ e.classBits = Bits(ClassBits(refs, S))
  /\ e.left \in (node + 1)..last /\ e.right \in (node + 1)..last
  /\ S = below[e.left] \union below[e.right]

(* A node in front of the forest of its children.                          *)
LEMMA NodeInFront ==
  ASSUME NEW refs, NEW S, NEW node \in Nat, NEW start \in Nat, NEW m, m = node + 1,
         NEW c, NEW lanes, NEW b, NEW pos, Forest(refs, S, c, lanes, m, start, b, pos),
         NEW n \in Seq(Entry), Len(n) = 1 + Len(c), \A k \in 1..Len(c) : n[1 + k] = c[k],
         NEW last, last = node + Len(c), IsInner(refs, n[1], S, node, last, b)
  PROVE  \E below : Forest(refs, S, n, lanes, node, start, below, pos) /\ below[node] = S
<1> DEFINE below == [i \in node..last |-> IF i = node THEN S ELSE b[i]]
<1>1. /\ c \in Seq(Entry) /\ lanes \in Seq(Lane) /\ Len(lanes) % LANES = 0 /\ pos \in [S -> Nat]
      /\ b \in [m..(m + Len(c) - 1) -> SUBSET S]
      /\ \A i \in S : /\ start <= pos[i] /\ pos[i] < start + Len(lanes)
                      /\ lanes[pos[i] - start + 1] = LaneOf(refs, i)
      /\ \A k \in 1..Len(c) : IsNode(refs, c[k], m + k - 1, m + Len(c) - 1, b, pos)
  BY Zenon DEF Forest
<1>2. Len(c) \in Nat /\ m \in Nat /\ last \in Nat /\ m + Len(c) - 1 = last /\ node + Len(n) - 1 = last
  BY <1>1
<1>3. b \in [m..last -> SUBSET S]
  BY <1>1, <1>2
<1>4. below[node] = S /\ \A i \in m..last : below[i] = b[i] /\ i \in node..last
  BY <1>2
<1>5. below \in [node..last -> SUBSET S]
  <2>1. ASSUME NEW i \in node..last, i # node PROVE b[i] \in SUBSET S
    <3>1. i \in m..last
      BY <1>2, <2>1
    <3> QED BY <1>3, <3>1
  <2> QED BY <2>1
<1> HIDE DEF below
<1>6. IsNode(refs, n[1], node, last, below, pos)
  <2> DEFINE e == n[1]
             x == e.left
             y == e.right
  <2>1. /\ S # {} /\ e.len = Cardinality(S)
        /\ e.min = BoxLow(refs, S) /\ e.max = BoxHigh(refs, S)
        /\ e.classBits = Bits(ClassBits(refs, S))
        /\ x \in (node + 1)..last /\ y \in (node + 1)..last
        /\ S = b[x] \union b[y]
    BY Zenon DEF IsInner
  <2> HIDE DEF x, y
  <2>2. x \in m..last /\ y \in m..last
    BY <2>1
  <2>3. below[node] = below[x] \union below[y]
    BY <1>4, <2>1, <2>2
  <2> QED BY Zenon, <1>4, <2>1, <2>3 DEF IsNode, x, y
<1>7. Extends(below, pos, b, pos, m, last, S)
  BY <1>1, <1>3, <1>4 DEF Extends
<1>8. ASSUME NEW k \in 1..Len(n) PROVE IsNode(refs, n[k], node + k - 1, last, below, pos)
  <2>1. CASE k = 1
    <3>1. node + k - 1 = node
      BY <2>1
    <3> QED BY <1>6, <2>1, <3>1
  <2>2. CASE k # 1
    <3> DEFINE j == k - 1
               i == m + j - 1
               l == Len(c)
    <3>1. j \in 1..Len(c) /\ 1 + j = k /\ i = node + k - 1 /\ i \in m..last
      <4>1. l \in Nat /\ last = node + l /\ k \in 1..(1 + l)
        BY <1>2
      <4> HIDE DEF l
      <4>2. j \in 1..l /\ 1 + j = k /\ i = node + k - 1 /\ i \in m..last
        BY <2>2, <4>1
      <4> QED BY <4>2 DEF l
    <3> HIDE DEF j, i
    <3>2. IsNode(refs, c[j], i, last, b, pos)
      BY <1>1, <1>2, <3>1 DEF i
    <3>3. IsNode(refs, c[j], i, last, below, pos)
      BY <1>2, <1>7, <3>1, <3>2, NodeStays
    <3>4. n[k] = c[j]
      BY <3>1
    <3> QED BY <3>1, <3>3, <3>4
  <2> QED BY <2>1, <2>2
<1>9. Forest(refs, S, n, lanes, node, start, below, pos)
  BY Zenon, <1>1, <1>2, <1>5, <1>8 DEF Forest
<1> QED BY <1>4, <1>9

(* What a call of build_node returns for S.                                *)
IsTreeOf(refs, S, t, node, start) ==
  /\ TypedTree(t)
  /\ \E below, pos : Forest(refs, S, t.nodes, t.lanes, node, start, below, pos) /\ below[node] = S

LEMMA FirstOfTree ==
  ASSUME NEW refs, NEW S, NEW t, TypedTree(t), NEW node \in Nat, NEW start,
         NEW below, NEW pos, Forest(refs, S, t.nodes, t.lanes, node, start, below, pos), below[node] = S
  PROVE  t.nodes[1].classBits = Bits(ClassBits(refs, S))
<1> DEFINE l == Len(t.nodes)
<1>1. l \in Nat /\ 1 <= l
  BY DEF TypedTree
<1>2. \A k \in 1..l : IsNode(refs, t.nodes[k], node + k - 1, node + l - 1, below, pos)
  BY Zenon DEF Forest
<1> HIDE DEF l
<1>3. IsNode(refs, t.nodes[1], node + 1 - 1, node + l - 1, below, pos)
  BY <1>1, <1>2
<1>4. node + 1 - 1 = node
  OBVIOUS
<1>5. IsNode(refs, t.nodes[1], node, node + l - 1, below, pos)
  BY <1>3, <1>4
<1> QED BY Zenon, <1>5 DEF IsNode

LEMMA ChildrenFollow ==
  ASSUME NEW node \in Nat, NEW l \in Nat, NEW r \in Nat, 1 <= l, 1 <= r,
         NEW m, m = node + 1, NEW next, next = m + l, NEW last, last = node + (l + r)
  PROVE  /\ next \in (node + 1)..last /\ m \in (node + 1)..last
         /\ m \in m..(m + l - 1) /\ next \in next..(next + r - 1)
OBVIOUS

(* The calls of build_node for the halves of S.                            *)
HalvesOf(refs, S, half, rest, node, start, m, left, next, lane, right) ==
  /\ S \subseteq DOMAIN refs /\ S # {}
  /\ half \intersect rest = {} /\ half \union rest = S
  /\ m = node + 1
  /\ IsTreeOf(refs, half, left, m, start)
  /\ Follows(left.nodes, left.lanes, m, start, next, lane)
  /\ IsTreeOf(refs, rest, right, next, lane)

LEMMA InnerForest ==
  ASSUME NEW refs, AreReferences(refs), NEW S, NEW half, NEW rest, NEW node \in Nat, NEW start \in Nat,
         NEW m \in Nat, NEW left, NEW next \in Nat, NEW lane \in Nat, NEW right,
         HalvesOf(refs, S, half, rest, node, start, m, left, next, lane, right)
  PROVE  IsTreeOf(refs, S, InnerTree(refs, S, m, next, left, right), node, start)
<1> DEFINE t == InnerTree(refs, S, m, next, left, right)
<1> /\ S \subseteq DOMAIN refs /\ S # {}
    /\ half \intersect rest = {} /\ half \union rest = S
    /\ m = node + 1
    /\ IsTreeOf(refs, half, left, m, start)
    /\ Follows(left.nodes, left.lanes, m, start, next, lane)
    /\ IsTreeOf(refs, rest, right, next, lane)
  BY Zenon DEF HalvesOf
<1>i. t = InnerTree(refs, S, m, next, left, right)
  OBVIOUS
<1> HIDE DEF t
<1>1. PICK bA, pA : Forest(refs, half, left.nodes, left.lanes, m, start, bA, pA) /\ bA[m] = half
  BY DEF IsTreeOf
<1>2. PICK bB, pB : Forest(refs, rest, right.nodes, right.lanes, next, lane, bB, pB) /\ bB[next] = rest
  BY DEF IsTreeOf
<1>3. TypedTree(left) /\ TypedTree(right)
  BY DEF IsTreeOf
<1>6. m \in Nat /\ next \in Nat /\ lane \in Nat
  OBVIOUS
<1>f. next = m + Len(left.nodes) /\ lane = start + Len(left.lanes)
  BY Zenon DEF Follows
<1>10. m \in Int /\ next \in Int
  BY <1>6
<1>a. TypedTree(t)
  BY <1>3, <1>10, <1>i, InnerTreeIsTyped
<1>b. PutTogether(refs, S, m, next, left, right, t)
  BY <1>3, <1>10, <1>i, InnerTreeIsTyped
<1> DEFINE x == left.nodes
           y == right.nodes
           c == x \o y
           lanes == left.lanes \o right.lanes
<1>4. /\ x \in Seq(Entry) /\ y \in Seq(Entry) /\ left.lanes \in Seq(Lane)
      /\ Len(x) \in Nat /\ Len(y) \in Nat /\ 1 <= Len(x) /\ 1 <= Len(y) /\ Len(left.lanes) \in Nat
  BY <1>3 DEF TypedTree
<1>5. /\ Len(c) = Len(x) + Len(y)
      /\ \A k \in 1..(Len(x) + Len(y)) : c[k] = IF k <= Len(x) THEN x[k] ELSE y[k - Len(x)]
  <2> HIDE DEF x, y
  <2> QED BY Zenon, <1>4, ConcatProperties
<1>7. half \intersect rest = {} /\ half \union rest = S
  OBVIOUS
<1>8. PICK b0, pos :
        /\ Forest(refs, half \union rest, c, lanes, m, start, b0, pos)
        /\ Kept(b0, bA, m, Len(x)) /\ Kept(b0, bB, next, Len(y))
  <2>1. Forest(refs, half, x, left.lanes, m, start, bA, pA)
    BY Zenon, <1>1
  <2>2. Forest(refs, rest, y, right.lanes, next, lane, bB, pB)
    BY Zenon, <1>2
  <2>3. next = m + Len(x) /\ lane = start + Len(left.lanes) /\ half \intersect rest = {}
    BY Zenon, <1>7, <1>f
  <2>4. Follows(x, left.lanes, m, start, next, lane)
    BY Zenon, <2>3 DEF Follows
  <2> HIDE DEF x, y
  <2> QED BY ZenonT(30), <1>6, <2>1, <2>2, <2>3, <2>4, ForestsJoin
<1>9. b0[m] = half /\ b0[next] = rest
  <2> DEFINE l == Len(x)
             r == Len(y)
  <2>1. l \in Nat /\ r \in Nat /\ 1 <= l /\ 1 <= r
    BY <1>4
  <2> HIDE DEF l, r
  <2>2. m \in m..(m + l - 1) /\ next \in next..(next + r - 1)
    BY <1>6, <2>1
  <2> QED BY <1>1, <1>2, <1>8, <2>2 DEF l, r, Kept
<1> DEFINE n == t.nodes
           e == NodeEntry(refs, S, m, next, left.nodes[1].start,
                          InnerBits(left.nodes[1].classBits, right.nodes[1].classBits))
<1>11. /\ TypedTree(t) /\ Len(n) = 1 + Len(x) + Len(y) /\ t.lanes = lanes /\ n[1] = e
       /\ \A k \in 1..Len(x) : n[1 + k] = x[k]
       /\ \A k \in 1..Len(y) : n[1 + Len(x) + k] = y[k]
  BY Zenon, <1>a, <1>b DEF PutTogether
<1>12. n \in Seq(Entry)
  BY <1>11 DEF TypedTree
<1>13. ASSUME NEW k \in 1..Len(c) PROVE n[1 + k] = c[k]
  <2> DEFINE l == Len(x)
             r == Len(y)
             j == k - l
  <2>1. l \in Nat /\ r \in Nat /\ k \in 1..(l + r)
    BY <1>4, <1>5
  <2>2. CASE k <= l
    <3>1. k \in 1..l
      <4> HIDE DEF l, r
      <4> QED BY <2>1, <2>2
    <3> QED BY <1>5, <1>11, <2>1, <2>2, <3>1
  <2>3. CASE ~(k <= l)
    <3>1. j \in 1..r /\ 1 + l + j = 1 + k
      <4> HIDE DEF l, r
      <4> QED BY <2>1, <2>3
    <3>2. n[1 + k] = y[j]
      <4>1. n[1 + l + j] = y[j]
        <5> HIDE DEF j
        <5> QED BY <1>11, <3>1
      <4> QED BY <3>1, <4>1
    <3>3. c[k] = y[j]
      BY <1>5, <2>1, <2>3
    <3> QED BY <3>2, <3>3
  <2> QED BY <2>2, <2>3
<1> DEFINE last == node + Len(c)
<1>14. next \in (node + 1)..last /\ m \in (node + 1)..last
  <2> DEFINE l == Len(x)
             r == Len(y)
  <2>1. l \in Nat /\ r \in Nat /\ 1 <= l /\ 1 <= r /\ last = node + (l + r) /\ next = m + l
    BY <1>4, <1>5, <1>f
  <2> HIDE DEF l, r, last, c, x, y
  <2> QED BY Zenon, <2>1, ChildrenFollow
<1>15. InnerBits(left.nodes[1].classBits, right.nodes[1].classBits) = Bits(ClassBits(refs, S))
  <2>1. left.nodes[1].classBits = Bits(ClassBits(refs, half))
    BY <1>1, <1>3, <1>6, FirstOfTree
  <2>2. right.nodes[1].classBits = Bits(ClassBits(refs, rest))
    BY Zenon, <1>2, <1>3, <1>6, FirstOfTree
  <2>3. ClassBits(refs, half) \union ClassBits(refs, rest) = ClassBits(refs, S)
    BY <1>7 DEF ClassBits
  <2> QED BY Zenon, <2>1, <2>2, <2>3, JoinedBits
<1>16. IsInner(refs, n[1], S, node, last, b0)
  <2>1. /\ e.len = Cardinality(S) /\ e.min = BoxLow(refs, S) /\ e.max = BoxHigh(refs, S)
        /\ e.left = m /\ e.right = next
        /\ e.classBits = InnerBits(left.nodes[1].classBits, right.nodes[1].classBits)
    BY DEF NodeEntry
  <2> HIDE DEF e, n, last
  <2>2. e.left \in (node + 1)..last /\ e.right \in (node + 1)..last
    BY <1>14, <2>1
  <2>3. S = b0[e.left] \union b0[e.right]
    BY <1>7, <1>9, <2>1
  <2>4. e.classBits = Bits(ClassBits(refs, S))
    BY <1>15, <2>1
  <2>5. IsInner(refs, e, S, node, last, b0)
    BY Zenon, <2>1, <2>2, <2>3, <2>4 DEF IsInner
  <2> QED BY <1>11, <2>5
<1>17. Len(n) = 1 + Len(c)
  <2> DEFINE l == Len(x)
             r == Len(y)
  <2>1. l \in Nat /\ r \in Nat /\ Len(c) = l + r /\ Len(n) = 1 + l + r
    BY <1>4, <1>5, <1>11
  <2> HIDE DEF l, r, n, c
  <2> QED BY <2>1
<1>18. Forest(refs, S, c, lanes, m, start, b0, pos)
  BY Zenon, <1>7, <1>8
<1> HIDE DEF n, c, lanes, last, e
<1>19. last = node + Len(c)
  BY DEF last
<1>20. \E below : Forest(refs, S, n, lanes, node, start, below, pos) /\ below[node] = S
  BY <1>12, <1>13, <1>16, <1>17, <1>18, <1>19, NodeInFront
<1>21. IsTreeOf(refs, S, t, node, start)
  BY <1>11, <1>20 DEF IsTreeOf, n, lanes
<1> QED BY <1>21 DEF t

(* build_node builds a tree of what it is given.                           *)
LEMMA BuildsForest ==
  ASSUME NEW refs, AreReferences(refs), NEW root, root \subseteq DOMAIN refs,
         NEW leafSize \in Nat, 1 <= leafSize, NEW build, IsBuild(refs, root, leafSize, build)
  PROVE  \A S \in SUBSET root : \A node, start \in Nat :
           S # {} /\ start % LANES = 0 => IsTreeOf(refs, S, build[<<S, node, start>>], node, start)
<1> DEFINE Good(S) == \A node, start \in Nat :
                        S # {} /\ start % LANES = 0 => IsTreeOf(refs, S, build[<<S, node, start>>], node, start)
           T == {n \in Nat : \A S \in SUBSET root : Cardinality(S) <= n => Good(S)}
<1>1. \A S \in SUBSET root : S \subseteq DOMAIN refs /\ IsFiniteSet(S) /\ Cardinality(S) \in Nat
  <2> TAKE S \in SUBSET root
  <2>1. S \subseteq DOMAIN refs
    OBVIOUS
  <2> QED BY <2>1, PositionsAreFinite
<1>2. \A S \in SUBSET root : \A node, start \in Nat :
        build[<<S, node, start>>] = BuildStep(refs, leafSize, build, <<S, node, start>>)
  <2> TAKE S \in SUBSET root
  <2> TAKE node, start \in Nat
  <2> DEFINE call == <<S, node, start>>
  <2>1. call \in Calls(root)
    BY DEF Calls
  <2> HIDE DEF call
  <2>2. build[call] = BuildStep(refs, leafSize, build, call)
    BY Zenon, <2>1 DEF IsBuild
  <2> QED BY <2>2 DEF call
<1>3. 0 \in T
  <2>1. ASSUME NEW S \in SUBSET root, Cardinality(S) <= 0 PROVE Good(S)
    <3>1. S = {}
      BY <1>1, <2>1, FS_EmptySet
    <3> QED BY <3>1
  <2> HIDE DEF Good
  <2> QED BY <2>1
<1>4. ASSUME NEW n \in Nat, n \in T PROVE n + 1 \in T
  <2>1. ASSUME NEW S \in SUBSET root, Cardinality(S) <= n + 1, S # {},
               NEW node \in Nat, NEW start \in Nat, start % LANES = 0
        PROVE  IsTreeOf(refs, S, build[<<S, node, start>>], node, start)
    <3>1. CASE ~Splits(S, leafSize)
      <4> DEFINE t == LeafTree(refs, S, start)
      <4>1. build[<<S, node, start>>] = t
        BY <1>2, <3>1, StepOfLeaf
      <4>2. TypedTree(t)
        BY <1>1, <2>1, LeafTreeIsTyped
      <4>3. t = LeafTree(refs, S, start) /\ S \subseteq DOMAIN refs
        OBVIOUS
      <4> HIDE DEF t
      <4>4. \E below, pos : Forest(refs, S, t.nodes, t.lanes, node, start, below, pos) /\ below[node] = S
        BY <2>1, <4>3, LeafForest
      <4> QED BY <4>1, <4>2, <4>4 DEF IsTreeOf
    <3>2. CASE Splits(S, leafSize)
      <4> DEFINE half == LeftHalf(refs, S)
                 rest == S \ half
                 m == node + 1
                 left == LeftOf(refs, build, S, node, start)
                 next == NextNode(refs, build, S, node, start)
                 lane == NextLane(refs, build, S, node, start)
                 right == RightOf(refs, build, S, node, start)
                 t == build[<<S, node, start>>]
      <4>1. t = InnerTree(refs, S, m, next, left, right)
        BY <1>2, <3>2, StepOfInner
      <4>2. /\ half \subseteq S /\ half # {} /\ rest # {}
            /\ Cardinality(half) \in Nat /\ Cardinality(rest) \in Nat /\ Cardinality(S) \in Nat
            /\ Cardinality(half) + 1 <= Cardinality(S) /\ Cardinality(rest) + 1 <= Cardinality(S)
        BY <1>1, <3>2, HalvesAreSmaller
      <4>3. half \in SUBSET root /\ rest \in SUBSET root /\ half \intersect rest = {} /\ half \union rest = S /\ S \subseteq DOMAIN refs
        BY <4>2
      <4>4. Cardinality(half) <= n /\ Cardinality(rest) <= n /\ m \in Nat
        BY <2>1, <4>2
      <4>5. left = build[<<half, m, start>>]
        BY Zenon DEF LeftOf
      <4>6. /\ next = m + Len(left.nodes) /\ lane = start + Len(left.lanes)
            /\ Follows(left.nodes, left.lanes, m, start, next, lane)
        BY Zenon DEF NextNode, NextLane, Follows
      <4>7. right = build[<<rest, next, lane>>]
        BY Zenon DEF RightOf
      <4> HIDE DEF half, rest, left, next, lane, right, t
      <4>8. Good(half) /\ Good(rest)
        <5> HIDE DEF Good
        <5> QED BY <1>4, <4>3, <4>4
      <4>9. IsTreeOf(refs, half, left, m, start)
        BY <2>1, <4>2, <4>4, <4>5, <4>8
      <4>10. next \in Nat /\ lane \in Nat /\ lane % LANES = 0
        <5> DEFINE p == Len(left.nodes)
                   q == Len(left.lanes)
        <5>1. p \in Nat /\ q \in Nat
          BY <4>9 DEF IsTreeOf, TypedTree
        <5>2. q % LANES = 0
          BY Zenon, <4>9 DEF IsTreeOf, Forest
        <5>3. next = m + p /\ lane = start + q
          BY Zenon, <4>6
        <5> HIDE DEF p, q
        <5> QED BY <2>1, <4>4, <5>1, <5>2, <5>3, SumOfRests
      <4>11. IsTreeOf(refs, rest, right, next, lane)
        BY <4>2, <4>7, <4>8, <4>10
      <4>12. m = node + 1
        OBVIOUS
      <4> HIDE DEF m
      <4>13. HalvesOf(refs, S, half, rest, node, start, m, left, next, lane, right)
        BY Zenon, <2>1, <4>3, <4>6, <4>9, <4>11, <4>12 DEF HalvesOf
      <4>14. IsTreeOf(refs, S, t, node, start)
        BY Zenon, <4>1, <4>4, <4>10, <4>13, InnerForest
      <4> QED BY <4>14 DEF t
    <3> QED BY <3>1, <3>2
  <2> QED BY <2>1
<1> HIDE DEF T
<1>5. \A n \in Nat : n \in T
  BY <1>3, <1>4, AllNumbers
<1>6. ASSUME NEW S \in SUBSET root PROVE Good(S)
  <2>1. Cardinality(S) \in T /\ Cardinality(S) <= Cardinality(S)
    BY <1>1, <1>5
  <2> HIDE DEF Good
  <2> QED BY <2>1 DEF T
<1> QED BY <1>6

LEMMA BuildNodeIsTree ==
  ASSUME NEW refs, AreReferences(refs), NEW root, root \subseteq DOMAIN refs, root # {},
         NEW leafSize \in Nat, 1 <= leafSize, NEW node \in Nat, NEW start \in Nat, start % LANES = 0
  PROVE  IsTreeOf(refs, root, BuildNode(refs, root, leafSize, node, start), node, start)
<1> DEFINE build == CHOOSE b : IsBuild(refs, root, leafSize, b)
<1>1. BuildNode(refs, root, leafSize, node, start) = build[<<root, node, start>>]
  BY Zenon DEF BuildNode, IsBuild, BuildStep, Calls
<1>2. IsBuild(refs, root, leafSize, build)
  BY BuildExists
<1> HIDE DEF build
<1>3. root \in SUBSET root
  OBVIOUS
<1> QED BY <1>1, <1>2, <1>3, BuildsForest

-----------------------------------------------------------------------------
(* A file, and the tree that it holds.                                     *)

(* The references of the keys of which there is a partition.               *)
Held(refs, predicates, roots) ==
  {i \in DOMAIN refs : \E k \in DOMAIN roots : roots[k].key = Key(predicates, refs[i].vector)}

Root == [key : Nat, root : Nat]

(* The partitions of some keys, one for each.                              *)
AreRoots(refs, predicates, roots, nodes, below) ==
  /\ roots \in Seq(Root)
  /\ \A k \in 1..Len(roots) : /\ roots[k].root \in 0..(Len(nodes) - 1)
                              /\ below[roots[k].root] = Partition(refs, predicates, roots[k].key)
  /\ \A j, k \in 1..Len(roots) : roots[j].key = roots[k].key => j = k

IsBuilt(refs, predicates, roots, nodes, lanes, below, pos) ==
  /\ Forest(refs, Held(refs, predicates, roots), nodes, lanes, 0, 0, below, pos)
  /\ AreRoots(refs, predicates, roots, nodes, below)

(* Predicates of nodes in heap order.                                      *)
IsHeap(predicates) ==
  /\ Cardinality(DOMAIN predicates) \in Nat
  /\ DOMAIN predicates = 0..(Cardinality(DOMAIN predicates) - 1)
  /\ \A n \in DOMAIN predicates : predicates[n].enabled \in BOOLEAN

(* c: what a file was made of, and where the references are in it.         *)
IsCertificate(c) ==
  /\ AreReferences(c.in.refs) /\ IsHeap(c.predicates)
  /\ IsBuilt(c.in.refs, c.predicates, c.roots, c.nodes, c.lanes, c.below, c.pos)
  /\ Held(c.in.refs, c.predicates, c.roots) = DOMAIN c.in.refs

ImageOf(c) == Image(c.in, c.predicates, c.roots, c.nodes, c.lanes)

IsWhole(c) ==
  /\ IsCertificate(c)
  /\ file.image = ImageOf(c) /\ file.size = ImageSize(ImageOf(c))

LEMMA CertificateHasShape ==
  ASSUME NEW c, IsCertificate(c)
  PROVE  /\ Shape(c.predicates, c.roots, c.nodes, c.lanes)
         /\ IsImage(ImageOf(c), c.in, c.predicates, c.roots, c.nodes, c.lanes)
<1>1. c.nodes \in Seq(Entry) /\ c.lanes \in Seq(Lane) /\ Len(c.lanes) % LANES = 0
  BY Zenon DEF IsCertificate, IsBuilt, Forest
<1>2. Len(c.nodes) \in Nat /\ Len(c.lanes) \in Nat
  BY <1>1
<1>3. Len(c.roots) \in Nat
  <2>1. c.roots \in Seq(Root)
    BY Zenon DEF IsCertificate, IsBuilt, AreRoots
  <2> QED BY <2>1 DEF Root
<1>4. Cardinality(DOMAIN c.predicates) \in Nat
  BY Zenon DEF IsCertificate, IsHeap
<1>5. Shape(c.predicates, c.roots, c.nodes, c.lanes)
  BY Zenon, <1>1, <1>2, <1>3, <1>4 DEF Shape
<1>6. IsImage(ImageOf(c), c.in, c.predicates, c.roots, c.nodes, c.lanes)
  BY <1>5, ImageIsLaidOut DEF ImageOf
<1> QED BY <1>5, <1>6

(* The last section ends the image.                                        *)
LEMMA ImageEnds ==
  ASSUME NEW c, IsCertificate(c), NEW img, img = ImageOf(c)
  PROVE  /\ ImageSize(img) = img[9].end /\ img[9].end \in Nat
         /\ \A n \in 1..9 : /\ img[n].begin \in Nat /\ img[n].end \in Nat
                            /\ img[n].begin <= img[n].end /\ img[n].end <= img[9].end
<1> DEFINE N == 9
<1>1. LaidOut(img, N) /\ \A m \in 1..N : img[m].begin <= img[m].end
  BY Zenon, CertificateHasShape DEF IsImage
<1>2. N \in Nat \ {0} /\ N \in 1..N
  OBVIOUS
<1> HIDE DEF N
<1>3. DOMAIN img = 1..N /\ Len(img) = N
  BY <1>1 DEF LaidOut
<1>4. img # << >>
  <2>1. ASSUME img = << >> PROVE FALSE
    <3>1. Len(<< >>) = 0
      OBVIOUS
    <3>2. Len(img) = 0
      BY Zenon, <2>1, <3>1
    <3> QED BY <1>2, <1>3, <3>2
  <2> QED BY Zenon, <2>1
<1>5. ImageSize(img) = img[N].end
  BY Zenon, <1>3, <1>4 DEF ImageSize
<1>6. \A n \in 1..N : img[n].begin \in Nat /\ img[n].end \in Nat
  BY <1>1 DEF LaidOut
<1>7. ASSUME NEW n \in 1..N PROVE img[n].end <= img[N].end
  <2>1. CASE n = N
    BY <1>6, <2>1
  <2>2. CASE n # N
    <3>1. n < N
      BY <1>2, <2>2
    <3>2. img[n].end <= img[N].begin
      BY <1>1, <1>2, <3>1, SectionsAscend
    <3>3. img[N].begin <= img[N].end
      BY <1>1, <1>2
    <3> QED BY <1>2, <1>6, <3>2, <3>3
  <2> QED BY <2>1, <2>2
<1> QED BY <1>1, <1>2, <1>5, <1>6, <1>7 DEF N

IsRead(s, r, f, offset, width) == Read(offset, width) = s.rows[r][f]

(* Every cell of a whole file is there.                                    *)
LEMMA WholeCell ==
  ASSUME NEW c, IsWhole(c), NEW n \in 1..9, NEW w \in Nat \ {0},
         NEW r, NEW f, NEW offset, NEW width, IsCell(ImageOf(c)[n], w, r, f, offset, width)
  PROVE  IsRead(ImageOf(c)[n], r, f, offset, width)
<1> DEFINE img == ImageOf(c)
<1>0. img = ImageOf(c) /\ IsCell(img[n], w, r, f, offset, width)
  OBVIOUS
<1> HIDE DEF img
<1>1. IsCertificate(c) /\ file.image = img /\ file.size = ImageSize(img)
  BY Zenon, <1>0 DEF IsWhole
<1>2. IsImage(img, c.in, c.predicates, c.roots, c.nodes, c.lanes)
  BY <1>0, <1>1, CertificateHasShape
<1>3. file.size \in Nat /\ img[n].end <= file.size /\ img[n].begin \in Nat /\ img[n].end \in Nat
  <2>1. ImageSize(img) = img[9].end /\ img[9].end \in Nat
    BY Zenon, <1>0, <1>1, ImageEnds
  <2>2. img[n].begin \in Nat /\ img[n].end \in Nat /\ img[n].end <= img[9].end
    BY Zenon, <1>0, <1>1, ImageEnds
  <2> QED BY <1>1, <2>1, <2>2
<1>4. img[n].end = img[n].begin + img[n].stride * Len(img[n].rows)
  BY <1>2 DEF IsImage, LaidOut
<1> DEFINE s == img[n]
           l == Len(s.rows)
           a == r - 1
<1>5. /\ FieldsOf(s, w) /\ l \in Nat /\ r \in 1..l /\ f \in 1..w
      /\ offset = s.begin + a * s.stride + s.at[f] /\ width = s.widths[f]
  BY Zenon, <1>0 DEF IsCell
<1>6. s.at[f] + s.widths[f] <= s.stride /\ s.at[f] \in Nat /\ s.widths[f] \in Nat /\ s.stride \in Nat
  <2> HIDE DEF s
  <2>1. s.stride \in Nat
    BY <1>5 DEF FieldsOf
  <2> QED BY <1>5, <2>1, FieldsAscend
<1> HIDE DEF s, l
<1>7. a \in Nat /\ a + 1 <= l
  BY <1>5
<1> HIDE DEF a
<1>8. a * s.stride \in Nat /\ s.stride * l \in Nat /\ a * s.stride + s.stride <= s.stride * l
  BY <1>5, <1>6, <1>7, RowFits
<1>9. s.end = s.begin + s.stride * l /\ s.end <= file.size /\ s.begin \in Nat
  BY <1>3, <1>4 DEF s, l
<1>10. offset + width <= file.size
  <2> DEFINE p == a * s.stride
             q == s.stride * l
             x == s.at[f]
             y == s.widths[f]
  <2>1. /\ p \in Nat /\ q \in Nat /\ p + s.stride <= q /\ x + y <= s.stride /\ x \in Nat /\ y \in Nat
        /\ s.begin + q <= file.size /\ offset = s.begin + p + x /\ width = y /\ s.begin \in Nat /\ s.stride \in Nat
    BY <1>5, <1>6, <1>8, <1>9
  <2> HIDE DEF p, q, x, y
  <2> QED BY <1>3, <2>1
<1>11. Read(offset, width) = img[n].rows[r][f]
  BY <1>0, <1>1, <1>2, <1>3, <1>10, CellOfImage
<1> QED BY <1>0, <1>11 DEF IsRead

(* Four numbers and a box.                                                 *)
HoldsBox(row, min, max) == \A d \in 1..16 : row[4 + d] = min[d] /\ row[20 + d] = max[d]

HoldsNumbers(row, a, b, x, y) == row[1] = a /\ row[2] = b /\ row[3] = x /\ row[4] = y

LEMMA BoxRow ==
  ASSUME NEW a, NEW b, NEW x, NEW y, NEW min \in [1..PACKED_DIMS -> Int], NEW max \in [1..PACKED_DIMS -> Int],
         NEW row, row = <<a, b, x, y>> \o min \o max
  PROVE  HoldsNumbers(row, a, b, x, y) /\ HoldsBox(row, min, max)
<1> DEFINE S == Int \union {a, b, x, y}
           four == <<a, b, x, y>>
           left == four \o min
<1>1. four \in Seq(S) /\ Len(four) = 4 /\ four[1] = a /\ four[2] = b /\ four[3] = x /\ four[4] = y
  OBVIOUS
<1>6. row = left \o max
  OBVIOUS
<1>2. min \in [1..16 -> S] /\ max \in [1..16 -> S]
  BY IndexFileAssumption
<1> HIDE DEF S, four
<1>3. /\ min \in Seq(S) /\ Len(min) = 16 /\ max \in Seq(S) /\ Len(max) = 16
  <2> DEFINE N == 16
  <2>1. N \in Nat /\ min \in [1..N -> S] /\ max \in [1..N -> S]
    BY <1>2
  <2> HIDE DEF N
  <2>2. min \in Seq(S) /\ DOMAIN min = 1..N /\ max \in Seq(S) /\ DOMAIN max = 1..N
    BY <2>1
  <2>3. Len(min) = N /\ Len(max) = N
    BY <2>1, <2>2, LenProperties
  <2> QED BY <2>2, <2>3 DEF N
<1>4. /\ left \in Seq(S) /\ Len(left) = Len(four) + Len(min)
      /\ \A k \in 1..(Len(four) + Len(min)) : left[k] = IF k <= Len(four) THEN four[k] ELSE min[k - Len(four)]
  BY Zenon, <1>1, <1>3, ConcatProperties
<1>5. Len(left) = 20 /\ \A k \in 1..20 : left[k] = IF k <= 4 THEN four[k] ELSE min[k - 4]
  <2>1. Len(four) + Len(min) = 20 /\ Len(four) = 4
    BY <1>1, <1>3
  <2> QED BY Zenon, <1>4, <2>1
<1> HIDE DEF left
<1>7. \A k \in 1..(Len(left) + Len(max)) : row[k] = IF k <= Len(left) THEN left[k] ELSE max[k - Len(left)]
  <2>1. left \in Seq(S) /\ max \in Seq(S)
    BY Zenon, <1>3, <1>4
  <2> QED BY ZenonT(30), <1>6, <2>1, ConcatProperties
<1>8. \A k \in 1..36 : row[k] = IF k <= 20 THEN left[k] ELSE max[k - 20]
  <2>1. Len(left) + Len(max) = 36 /\ Len(left) = 20
    BY <1>3, <1>5
  <2> QED BY Zenon, <1>7, <2>1
<1>9. row[1] = a /\ row[2] = b /\ row[3] = x /\ row[4] = y
  <2>1. \A k \in 1..4 : row[k] = four[k]
    <3> TAKE k \in 1..4
    <3>1. k \in 1..36 /\ k \in 1..20 /\ k <= 20 /\ k <= 4
      OBVIOUS
    <3> QED BY <1>5, <1>8, <3>1
  <2> QED BY <1>1, <2>1
<1>10. ASSUME NEW d \in 1..16 PROVE row[4 + d] = min[d] /\ row[20 + d] = max[d]
  <2>1. row[4 + d] = left[4 + d] /\ left[4 + d] = min[d]
    <3>1. 4 + d \in 1..36 /\ 4 + d <= 20 /\ 4 + d \in 1..20 /\ ~(4 + d <= 4) /\ (4 + d) - 4 = d
      OBVIOUS
    <3>2. left[4 + d] = min[(4 + d) - 4]
      BY <1>5, <3>1
    <3>3. row[4 + d] = left[4 + d]
      BY <1>8, <3>1
    <3> QED BY <3>1, <3>2, <3>3
  <2>2. row[20 + d] = max[d]
    <3>1. 20 + d \in 1..36 /\ ~(20 + d <= 20) /\ (20 + d) - 20 = d
      OBVIOUS
    <3>2. row[20 + d] = max[(20 + d) - 20]
      BY <1>8, <3>1
    <3> QED BY <3>1, <3>2
  <2> QED BY <2>1, <2>2
<1> QED BY <1>9, <1>10 DEF HoldsNumbers, HoldsBox

(* A row of four numbers and a box, read from its first byte.              *)
BoxIsRead(at, row) ==
  /\ Read(at, 4) = row[1] /\ Read(at + 4, 4) = row[2] /\ Read(at + 8, 4) = row[3] /\ Read(at + 12, 4) = row[4]
  /\ \A d \in 1..32 : Read(at + 16 + 2 * (d - 1), 2) = row[4 + d]

LEMMA BoxCells ==
  ASSUME NEW c, IsWhole(c), NEW img, img = ImageOf(c), NEW n \in 1..9, NEW rows, NEW s, s = Section(BoxWidths, rows),
         IsSection(img[n], s), Len(rows) \in Nat, NEW p \in 0..(Len(rows) - 1), NEW at, at = img[n].begin + p * 80
  PROVE  BoxIsRead(at, rows[p + 1])
<1>1. /\ FieldsOf(s, 36) /\ s.stride = 80 /\ s.rows = rows
      /\ s.at[1] = 0 /\ s.at[2] = 4 /\ s.at[3] = 8 /\ s.at[4] = 12
      /\ (\A f \in 1..4 : s.widths[f] = 4)
      /\ \A d \in 1..32 : s.widths[4 + d] = 2 /\ s.at[4 + d] = 16 + 2 * (d - 1)
  <2>1. FieldsOf(s, 36) /\ s.stride = 80 /\ s.rows = rows /\ HasBoxFields(s)
    BY BoxFields
  <2> QED BY Zenon, <2>1 DEF HasBoxFields
<1>2. img[n].begin \in Nat
  BY ImageEnds DEF IsWhole
<1> DEFINE sec == img[n]
           r == p + 1
           w == 36
<1>3. sec.widths = s.widths /\ sec.rows = rows /\ sec.stride = 80 /\ sec.at = s.at
  BY <1>1 DEF IsSection
<1>4. w \in Nat \ {0} /\ FieldsOf(sec, w)
  <2>1. w \in Nat \ {0}
    OBVIOUS
  <2>2. FieldsOf(sec, w)
    BY ZenonT(30), <1>1, <1>3 DEF FieldsOf
  <2> QED BY <2>1, <2>2
<1>5. r \in 1..Len(rows) /\ r - 1 = p
  OBVIOUS
<1>6. ASSUME NEW f \in 1..w PROVE Read(at + s.at[f], s.widths[f]) = rows[r][f]
  <2> DEFINE offset == at + s.at[f]
             width == s.widths[f]
  <2>1. offset = sec.begin + (r - 1) * sec.stride + sec.at[f]
    <3>1. s.at[f] \in Nat
      BY <1>1 DEF FieldsOf
    <3> QED BY <1>2, <1>3, <1>5, <3>1
  <2>2. width = sec.widths[f]
    BY <1>3
  <2>3. Len(sec.rows) \in Nat /\ r \in 1..Len(sec.rows)
    BY <1>3, <1>5
  <2> HIDE DEF offset, width, r, w, sec
  <2>4. IsCell(sec, w, r, f, offset, width)
    BY Zenon, <1>4, <2>1, <2>2, <2>3 DEF IsCell
  <2>5. IsRead(sec, r, f, offset, width)
    BY <1>4, <2>4, WholeCell DEF sec
  <2>6. Read(offset, width) = sec.rows[r][f]
    BY <2>5 DEF IsRead
  <2> QED BY <1>3, <2>6 DEF offset, width
<1>7. /\ Read(at, 4) = rows[r][1] /\ Read(at + 4, 4) = rows[r][2]
      /\ Read(at + 8, 4) = rows[r][3] /\ Read(at + 12, 4) = rows[r][4]
  <2>1. 1 \in 1..w /\ 2 \in 1..w /\ 3 \in 1..w /\ 4 \in 1..w /\ 1 \in 1..4 /\ 2 \in 1..4 /\ 3 \in 1..4 /\ 4 \in 1..4
    OBVIOUS
  <2>2. at + 0 = at
    BY <1>2
  <2> HIDE DEF r, w
  <2>3. Read(at, 4) = rows[r][1]
    <3>1. Read(at + s.at[1], s.widths[1]) = rows[r][1]
      BY Zenon, <1>6, <2>1
    <3>2. at + s.at[1] = at /\ s.widths[1] = 4
      BY <1>1, <2>1, <2>2
    <3> QED BY Zenon, <3>1, <3>2
  <2>4. Read(at + 4, 4) = rows[r][2]
    BY ZenonT(30), <1>1, <1>6, <2>1
  <2>5. Read(at + 8, 4) = rows[r][3]
    BY ZenonT(30), <1>1, <1>6, <2>1
  <2>6. Read(at + 12, 4) = rows[r][4]
    <3>1. Read(at + s.at[4], s.widths[4]) = rows[r][4]
      BY Zenon, <1>6, <2>1
    <3>2. s.at[4] = 12 /\ s.widths[4] = 4
      BY <1>1, <2>1
    <3> QED BY Zenon, <3>1, <3>2
  <2> QED BY <2>3, <2>4, <2>5, <2>6
<1>8. ASSUME NEW d \in 1..32 PROVE Read(at + 16 + 2 * (d - 1), 2) = rows[r][4 + d]
  <2> DEFINE f == 4 + d
             o == 16 + 2 * (d - 1)
  <2>1. f \in 1..w /\ o \in Nat
    OBVIOUS
  <2>2. s.widths[f] = 2 /\ s.at[f] = o
    BY <1>1
  <2>3. at \in Nat
    BY <1>2
  <2>4. at + o = at + 16 + 2 * (d - 1)
    BY <2>3
  <2> HIDE DEF f, o, r, w
  <2>5. Read(at + s.at[f], s.widths[f]) = rows[r][f]
    BY Zenon, <1>6, <2>1
  <2>6. Read(at + o, 2) = rows[r][f]
    BY Zenon, <2>2, <2>5
  <2> QED BY Zenon, <2>4, <2>6 DEF f
<1> HIDE DEF r
<1>9. BoxIsRead(at, rows[r])
  BY Zenon, <1>7, <1>8 DEF BoxIsRead
<1> QED BY <1>9 DEF r

(* A field of a row of a section that begins at the given offset.          *)
IsField(begin, s, p, f) == Read(begin + p * s.stride + s.at[f], s.widths[f]) = s.rows[p + 1][f]

LEMMA FieldIsRead ==
  ASSUME NEW c, IsWhole(c), NEW n \in 1..9, NEW s, IsSection(ImageOf(c)[n], s), NEW w \in Nat \ {0}, FieldsOf(s, w),
         NEW l \in Nat, Len(s.rows) = l, NEW p \in 0..(l - 1), NEW f \in 1..w
  PROVE  IsField(ImageOf(c)[n].begin, s, p, f)
<1> DEFINE sec == ImageOf(c)[n]
           offset == sec.begin + p * s.stride + s.at[f]
           width == s.widths[f]
           r == p + 1
<1>1. sec.widths = s.widths /\ sec.rows = s.rows /\ sec.stride = s.stride /\ sec.at = s.at
  BY DEF IsSection
<1> HIDE DEF sec
<1>2. FieldsOf(sec, w)
  BY Zenon, <1>1 DEF FieldsOf
<1>3. r \in 1..l /\ r - 1 = p
  OBVIOUS
<1>4. Len(sec.rows) = l
  BY Zenon, <1>1
<1>5. r \in 1..Len(sec.rows) /\ Len(sec.rows) \in Nat
  BY <1>3, <1>4
<1>6. offset = sec.begin + (r - 1) * sec.stride + sec.at[f]
  BY Zenon, <1>1, <1>3
<1>7. width = sec.widths[f]
  BY Zenon, <1>1
<1> HIDE DEF offset, width, r
<1>8. IsCell(sec, w, r, f, offset, width)
  BY Zenon, <1>2, <1>5, <1>6, <1>7 DEF IsCell
<1>9. IsRead(sec, r, f, offset, width)
  BY <1>8, WholeCell DEF sec
<1>10. Read(offset, width) = s.rows[r][f]
  BY Zenon, <1>1, <1>9 DEF IsRead
<1> QED BY Zenon, <1>10 DEF IsField, offset, width, r, sec

(* The number of a section of single numbers.                              *)
IsNumber(begin, width, rows, p) == Read(begin + width * p, width) = rows[p + 1][1]

LEMMA NumberIsRead ==
  ASSUME NEW c, IsWhole(c), NEW n \in 1..9, NEW s, IsSection(ImageOf(c)[n], s), FieldsOf(s, 1),
         NEW width \in Nat \ {0}, s.stride = width, s.at[1] = 0, s.widths[1] = width,
         NEW l \in Nat, Len(s.rows) = l, NEW p \in 0..(l - 1)
  PROVE  IsNumber(ImageOf(c)[n].begin, width, s.rows, p)
<1> DEFINE w == 1
           f == 1
           begin == ImageOf(c)[n].begin
<1>1. w \in Nat \ {0} /\ f \in 1..w /\ FieldsOf(s, w)
  OBVIOUS
<1>2. begin \in Nat
  BY ImageEnds DEF IsWhole
<1> HIDE DEF w, f, begin
<1>3. IsField(begin, s, p, f)
  BY <1>1, FieldIsRead DEF begin
<1>4. Read(begin + p * s.stride + s.at[1], s.widths[1]) = s.rows[p + 1][1]
  BY Zenon, <1>3 DEF IsField, f
<1>5. begin + p * s.stride + s.at[1] = begin + width * p
  BY <1>2
<1>6. Read(begin + width * p, width) = s.rows[p + 1][1]
  BY Zenon, <1>4, <1>5
<1> QED BY <1>6 DEF IsNumber, begin

-----------------------------------------------------------------------------
(* The file as it is mapped.                                               *)

(* The index i has the offsets of the sections, and the counts.            *)
HasOffsets(i, c) ==
  /\ i.partitionsBase = ImageOf(c)[3].begin /\ i.partitionCount = Len(c.roots)
  /\ i.nodesBase = ImageOf(c)[4].begin /\ i.nodeCount = Len(c.nodes)
  /\ i.vectors = ImageOf(c)[5].begin /\ i.labels = ImageOf(c)[6].begin
  /\ i.refIndices = ImageOf(c)[8].begin /\ i.nodeClassBits = ImageOf(c)[9].begin

(* The worker's view of a whole file.                                      *)
IsMapped(c) == IsWhole(c) /\ HasOffsets(index, c)

LEMMA CertificateIsTyped ==
  ASSUME NEW c, IsCertificate(c)
  PROVE  /\ AreReferences(c.in.refs)
         /\ Len(c.roots) \in Nat /\ DOMAIN c.roots = 1..Len(c.roots)
         /\ Len(c.nodes) \in Nat /\ (\A k \in 1..Len(c.nodes) : c.nodes[k] \in Entry)
         /\ Len(c.lanes) \in Nat /\ Len(c.lanes) % LANES = 0 /\ (\A k \in 1..Len(c.lanes) : c.lanes[k] \in Lane)
         /\ \A k \in 1..Len(c.roots) : c.roots[k].root \in 0..(Len(c.nodes) - 1)
<1>1. AreReferences(c.in.refs) /\ IsBuilt(c.in.refs, c.predicates, c.roots, c.nodes, c.lanes, c.below, c.pos)
  BY DEF IsCertificate
<1>2. c.nodes \in Seq(Entry) /\ c.lanes \in Seq(Lane) /\ Len(c.lanes) % LANES = 0
  BY Zenon, <1>1 DEF IsBuilt, Forest
<1>3. /\ Len(c.roots) \in Nat /\ DOMAIN c.roots = 1..Len(c.roots)
      /\ \A k \in 1..Len(c.roots) : c.roots[k].root \in 0..(Len(c.nodes) - 1)
  <2>1. c.roots \in Seq(Root)
    BY Zenon, <1>1 DEF IsBuilt, AreRoots
  <2>2. \A k \in 1..Len(c.roots) : c.roots[k].root \in 0..(Len(c.nodes) - 1)
    BY Zenon, <1>1 DEF IsBuilt, AreRoots
  <2> QED BY <2>1, <2>2
<1>4. /\ Len(c.nodes) \in Nat /\ (\A k \in 1..Len(c.nodes) : c.nodes[k] \in Entry)
      /\ Len(c.lanes) \in Nat /\ (\A k \in 1..Len(c.lanes) : c.lanes[k] \in Lane)
  BY <1>2
<1> QED BY <1>1, <1>2, <1>3, <1>4

(* A node's fields, as layout.rs reads them.                               *)
IsMappedNode(n, e) ==
  /\ NodeLeft(n) = e.left /\ NodeRight(n) = e.right
  /\ NodeStart(n) = e.start \div LANES /\ NodeLen(n) = e.len
  /\ NodeMin(n) = e.min /\ NodeMax(n) = e.max
  /\ NodeClassBits(n) = e.classBits

(* A box, as it is read two bytes at a time.                               *)
LEMMA BoxOfBytes ==
  ASSUME NEW at \in Nat, NEW row, BoxIsRead(at, row), NEW min \in [1..PACKED_DIMS -> Int], NEW max \in [1..PACKED_DIMS -> Int],
         HoldsBox(row, min, max)
  PROVE  /\ [d \in 1..PACKED_DIMS |-> Read(at + 16 + 2 * (d - 1), 2)] = min
         /\ [d \in 1..PACKED_DIMS |-> Read(at + 48 + 2 * (d - 1), 2)] = max
<1>1. PACKED_DIMS = 16
  BY IndexFileAssumption
<1>2. \A d \in 1..32 : Read(at + 16 + 2 * (d - 1), 2) = row[4 + d]
  BY DEF BoxIsRead
<1>3. ASSUME NEW d \in 1..16 PROVE Read(at + 16 + 2 * (d - 1), 2) = min[d]
  <2>1. d \in 1..32
    OBVIOUS
  <2>2. row[4 + d] = min[d]
    BY Zenon DEF HoldsBox
  <2> QED BY Zenon, <1>2, <2>1, <2>2
<1>4. ASSUME NEW d \in 1..16 PROVE Read(at + 48 + 2 * (d - 1), 2) = max[d]
  <2> DEFINE e == 16 + d
  <2>1. e \in 1..32 /\ at + 16 + 2 * (e - 1) = at + 48 + 2 * (d - 1) /\ 4 + e = 20 + d
    OBVIOUS
  <2> HIDE DEF e
  <2>2. Read(at + 16 + 2 * (e - 1), 2) = row[4 + e]
    BY <1>2, <2>1
  <2>3. Read(at + 48 + 2 * (d - 1), 2) = row[20 + d]
    BY Zenon, <2>1, <2>2
  <2>4. row[20 + d] = max[d]
    BY Zenon DEF HoldsBox
  <2> QED BY Zenon, <2>3, <2>4
<1>5. min \in [1..16 -> Int] /\ max \in [1..16 -> Int]
  BY <1>1
<1>6. [d \in 1..16 |-> Read(at + 16 + 2 * (d - 1), 2)] = min
  BY <1>3, <1>5
<1>7. [d \in 1..16 |-> Read(at + 48 + 2 * (d - 1), 2)] = max
  BY <1>4, <1>5
<1> QED BY Zenon, <1>1, <1>6, <1>7

LEMMA NodesAreMapped ==
  ASSUME NEW c, IsMapped(c), NEW n \in 0..(Len(c.nodes) - 1)
  PROVE  IsMappedNode(n, c.nodes[n + 1])
<1> DEFINE img == ImageOf(c)
           nodes == c.nodes
           s == NodeSection(nodes)
           e == nodes[n + 1]
           base == img[4].begin
           at == base + n * 80
<1>1. IsWhole(c) /\ IsCertificate(c) /\ HasOffsets(index, c)
  BY DEF IsMapped, IsWhole
<1>2. index.nodesBase = base /\ index.nodeClassBits = img[9].begin
  BY <1>1 DEF HasOffsets
<1>3. Len(nodes) \in Nat /\ n + 1 \in 1..Len(nodes) /\ e \in Entry
  BY <1>1, CertificateIsTyped
<1>4. FieldsOf(s, 36) /\ s.stride = 80 /\ Len(s.rows) = Len(nodes) /\ s.rows = [k \in 1..Len(nodes) |-> NodeRow(nodes, k)]
  BY <1>3, NodeLength
<1>5. IsSection(img[4], s) /\ IsSection(img[9], ClassSection(nodes))
  <2>1. IsImage(img, c.in, c.predicates, c.roots, nodes, c.lanes)
    BY Zenon, <1>1, CertificateHasShape
  <2> QED BY <2>1 DEF IsImage
<1>6. base \in Nat /\ img[9].begin \in Nat
  BY <1>1, ImageEnds
<1> HIDE DEF s, base, e, nodes, img
<1> DEFINE rows == s.rows
<1>7. BoxIsRead(at, rows[n + 1])
  <2> DEFINE m == 4
  <2>1. m \in 1..9 /\ IsSection(img[m], s) /\ at = img[m].begin + n * 80 /\ n \in 0..(Len(rows) - 1) /\ Len(rows) \in Nat
    BY <1>3, <1>4, <1>5 DEF base, nodes
  <2>2. s = Section(BoxWidths, rows)
    BY <1>4 DEF s, NodeSection, NodeRow
  <2> HIDE DEF m, at, rows
  <2> QED BY <1>1, <2>1, <2>2, BoxCells DEF img
<1>8. rows[n + 1] = <<e.left, e.right, e.start \div LANES, e.len>> \o e.min \o e.max
  BY Zenon, <1>3, <1>4 DEF NodeRow, e
<1>9. e.min \in [1..PACKED_DIMS -> Int] /\ e.max \in [1..PACKED_DIMS -> Int]
  BY <1>3 DEF Entry
<1> DEFINE row == rows[n + 1]
           start == e.start \div LANES
<1>9a. row = <<e.left, e.right, start, e.len>> \o e.min \o e.max
  BY <1>8
<1> HIDE DEF rows, row, start
<1>10. HoldsNumbers(row, e.left, e.right, start, e.len) /\ HoldsBox(row, e.min, e.max)
  BY Zenon, <1>9, <1>9a, BoxRow
<1>11. at \in Nat /\ index.nodesBase + n * NODE_STRIDE = at
  BY <1>2, <1>6 DEF NODE_STRIDE
<1>11a. BoxIsRead(at, row)
  BY <1>7 DEF row
<1> HIDE DEF at
<1>12. NodeLeft(n) = e.left /\ NodeRight(n) = e.right /\ NodeStart(n) = start /\ NodeLen(n) = e.len
  <2>1. Read(at, 4) = row[1] /\ Read(at + 4, 4) = row[2] /\ Read(at + 8, 4) = row[3] /\ Read(at + 12, 4) = row[4]
    BY Zenon, <1>11a DEF BoxIsRead
  <2> QED BY Zenon, <1>10, <1>11, <2>1 DEF HoldsNumbers, NodeLeft, NodeRight, NodeStart, NodeLen
<1>13. NodeMin(n) = e.min /\ NodeMax(n) = e.max
  <2>1. /\ [d \in 1..PACKED_DIMS |-> Read(at + 16 + 2 * (d - 1), 2)] = e.min
        /\ [d \in 1..PACKED_DIMS |-> Read(at + 48 + 2 * (d - 1), 2)] = e.max
    BY Zenon, <1>9, <1>10, <1>11, <1>11a, BoxOfBytes
  <2> QED BY Zenon, <1>11, <2>1 DEF NodeMin, NodeMax
<1>14. NodeClassBits(n) = e.classBits
  <2> DEFINE t == ClassSection(nodes)
             m == 9
             width == 1
             l == Len(nodes)
  <2>1. l \in Nat /\ FieldsOf(t, 1) /\ t.stride = width /\ t.at[1] = 0 /\ t.widths[1] = width /\ Len(t.rows) = l
    BY <1>3, ClassLength
  <2>2. t.rows[n + 1] = <<e.classBits>>
    <3>1. t.rows = [k \in 1..Len(nodes) |-> <<nodes[k].classBits>>]
      BY <1>3, ClassLength
    <3> HIDE DEF t
    <3> QED BY <1>3, <3>1 DEF e
  <2>3. m \in 1..9 /\ width \in Nat \ {0} /\ IsSection(img[m], t) /\ n \in 0..(l - 1)
    BY <1>3, <1>5 DEF nodes
  <2> HIDE DEF t, m, width, l
  <2>4. IsNumber(img[m].begin, width, t.rows, n)
    BY <1>1, <2>1, <2>3, NumberIsRead DEF img
  <2>5. Read(img[9].begin + 1 * n, 1) = e.classBits
    BY <2>2, <2>4 DEF IsNumber, m, width
  <2>6. index.nodeClassBits + n = img[9].begin + 1 * n
    BY <1>2
  <2> QED BY Zenon, <2>5, <2>6 DEF NodeClassBits
<1> QED BY Zenon, <1>12, <1>13, <1>14 DEF IsMappedNode, start, e, nodes

(* A partition's key, its root and its box.                                *)
IsMappedPartition(p, r, e) ==
  /\ Read(index.partitionsBase + p * PARTITION_STRIDE, 4) = r.key
  /\ PartitionRoot(p) = r.root
  /\ PartitionMin(p) = e.min /\ PartitionMax(p) = e.max

(* The same, where the partitions are.                                     *)
IsPlacedPartition(at, r, e) ==
  /\ Read(at, 4) = r.key /\ Read(at + 4, 4) = r.root
  /\ [d \in 1..PACKED_DIMS |-> Read(at + 16 + 2 * (d - 1), 2)] = e.min
  /\ [d \in 1..PACKED_DIMS |-> Read(at + 48 + 2 * (d - 1), 2)] = e.max

LEMMA PartitionsAreMapped ==
  ASSUME NEW c, IsWhole(c), NEW p \in 0..(Len(c.roots) - 1)
  PROVE  IsPlacedPartition(ImageOf(c)[3].begin + p * 80, c.roots[p + 1], c.nodes[c.roots[p + 1].root + 1])
<1> DEFINE img == ImageOf(c)
           nodes == c.nodes
           roots == c.roots
           s == PartitionSection(roots, nodes)
           k == p + 1
           r == roots[k]
           e == nodes[r.root + 1]
           base == img[3].begin
           at == base + p * 80
           rows == s.rows
<1>1. IsCertificate(c)
  BY DEF IsWhole
<1>2. Len(roots) \in Nat /\ k \in 1..Len(roots) /\ Len(nodes) \in Nat /\ r.root \in 0..(Len(nodes) - 1)
  BY <1>1, CertificateIsTyped
<1>3. e \in Entry
  <2>1. r.root + 1 \in 1..Len(nodes)
    <3> HIDE DEF r, nodes
    <3> QED BY <1>2
  <2> HIDE DEF r
  <2> QED BY Zenon, <1>1, <2>1, CertificateIsTyped
<1>4. Rows(s, 80, Len(roots)) /\ s.rows = [j \in 1..Len(roots) |-> PartitionRow(roots, nodes, j)]
  BY <1>2, PartitionLength
<1>5. IsSection(img[3], s)
  <2>1. IsImage(img, c.in, c.predicates, roots, nodes, c.lanes)
    BY Zenon, <1>1, CertificateHasShape
  <2> QED BY <2>1 DEF IsImage
<1>6. base \in Nat /\ at \in Nat
  <2>1. base \in Nat
    BY <1>1, ImageEnds
  <2> HIDE DEF base
  <2> QED BY <2>1
<1>6a. s = Section(BoxWidths, rows)
  BY <1>4 DEF s, PartitionSection, PartitionRow
<1> HIDE DEF s, base, e, r, roots, nodes, img
<1>7. BoxIsRead(at, rows[k])
  <2> DEFINE m == 3
  <2>1. m \in 1..9 /\ IsSection(img[m], s) /\ at = img[m].begin + p * 80
    BY <1>5 DEF base
  <2>2. Len(rows) \in Nat /\ p \in 0..(Len(rows) - 1)
    BY <1>2, <1>4 DEF Rows
  <2> HIDE DEF m, at, rows
  <2> QED BY <1>6a, <2>1, <2>2, BoxCells DEF img
<1>8. rows[k] = <<r.key, r.root, 0, e.len>> \o e.min \o e.max
  BY Zenon, <1>2, <1>4 DEF PartitionRow, e, r
<1>9. e.min \in [1..PACKED_DIMS -> Int] /\ e.max \in [1..PACKED_DIMS -> Int]
  BY <1>3 DEF Entry
<1> DEFINE row == rows[k]
           zero == 0
<1>9a. row = <<r.key, r.root, zero, e.len>> \o e.min \o e.max
  BY <1>8
<1>9b. BoxIsRead(at, row)
  BY <1>7
<1> HIDE DEF rows, row, zero, at
<1>10. HoldsNumbers(row, r.key, r.root, zero, e.len) /\ HoldsBox(row, e.min, e.max)
  BY Zenon, <1>9, <1>9a, BoxRow
<1>11. Read(at, 4) = r.key /\ Read(at + 4, 4) = r.root
  BY Zenon, <1>9b, <1>10 DEF BoxIsRead, HoldsNumbers
<1>12. /\ [d \in 1..PACKED_DIMS |-> Read(at + 16 + 2 * (d - 1), 2)] = e.min
       /\ [d \in 1..PACKED_DIMS |-> Read(at + 48 + 2 * (d - 1), 2)] = e.max
  BY Zenon, <1>6, <1>9, <1>9b, <1>10, BoxOfBytes
<1>13. IsPlacedPartition(at, r, e)
  BY Zenon, <1>11, <1>12 DEF IsPlacedPartition
<1> QED BY Zenon, <1>13 DEF at, base, img, e, r, roots, nodes

LEMMA PartitionsAreServed ==
  ASSUME NEW c, IsMapped(c), NEW p \in 0..(Len(c.roots) - 1)
  PROVE  IsMappedPartition(p, c.roots[p + 1], c.nodes[c.roots[p + 1].root + 1])
<1> DEFINE r == c.roots[p + 1]
           e == c.nodes[r.root + 1]
           at == ImageOf(c)[3].begin + p * 80
<1>1. IsWhole(c)
  BY Zenon DEF IsMapped
<1>2. IsPlacedPartition(at, r, e)
  BY <1>1, PartitionsAreMapped
<1>3. index.partitionsBase + p * PARTITION_STRIDE = at
  BY Zenon DEF IsMapped, HasOffsets, PARTITION_STRIDE
<1> HIDE DEF at, r, e
<1>4. IsMappedPartition(p, r, e)
  BY Zenon, <1>2, <1>3 DEF IsPlacedPartition, IsMappedPartition, PartitionRoot, PartitionMin, PartitionMax
<1> QED BY Zenon, <1>4 DEF r, e

(* The pairs of a lane, one block after the other.                         *)
IsPairOf(p, L, h, block, pair, lane) ==
  p \in Nat /\ p \div (h * L) = block /\ (p \div L) % h = pair /\ p % L = lane

LEMMA PairPlace ==
  ASSUME NEW L \in Nat \ {0}, NEW h \in Nat \ {0}, NEW block \in Nat, NEW pair \in 0..(h - 1), NEW lane \in 0..(L - 1),
         NEW p, p = (block * h + pair) * L + lane
  PROVE  IsPairOf(p, L, h, block, pair, lane)
<1> DEFINE a == block * h + pair
           s == h * L
           x == pair * L + lane
<1>1. a \in Nat /\ a % h = pair
  <2>1. a % h = pair
    BY RowAndField
  <2>2. block * h \in Nat
    BY ProductIsNat
  <2> QED BY <2>1, <2>2
<1>2. p = a * L + lane
  OBVIOUS
<1> HIDE DEF a
<1>3. p \div L = a /\ p % L = lane
  BY <1>1, <1>2, RowAndField
<1>4. p \in Nat
  <2>1. a * L \in Nat
    BY <1>1, ProductIsNat
  <2> QED BY <1>2, <2>1
<1>5. s \in Nat \ {0}
  OBVIOUS
<1>6. x \in 0..(s - 1)
  <2>1. pair + 1 <= h /\ pair \in Nat /\ L \in Nat /\ h \in Nat
    OBVIOUS
  <2>2. pair * L \in Nat /\ L * h \in Nat /\ pair * L + L <= L * h
    BY <2>1, RowFits
  <2>3. L * h = s
    OBVIOUS
  <2> DEFINE y == pair * L
             z == L * h
  <2>4. y \in Nat /\ z \in Nat /\ y + L <= z /\ z = s /\ x = y + lane
    BY <2>2, <2>3
  <2> HIDE DEF y, z, x, s
  <2> QED BY <2>4
<1>7. p = block * s + x
  OBVIOUS
<1> HIDE DEF s, x
<1>8. p \div s = block
  BY <1>5, <1>6, <1>7, RowAndField
<1> QED BY <1>1, <1>3, <1>4, <1>8 DEF s, IsPairOf

LEMMA LanesArePlaced ==
  ASSUME NEW l \in Nat, l % LANES = 0, NEW block \in 0..((l \div LANES) - 1), NEW lane \in 0..(LANES - 1)
  PROVE  block * LANES + lane \in 0..(l - 1)
<1> DEFINE b == l \div LANES
<1>1. b \in Nat /\ b * LANES = l
  BY VectorBytes
<1>2. LANES \in Nat \ {0}
  BY IndexFileAssumption
<1>3. block \in Nat /\ block + 1 <= b
  <2> HIDE DEF b
  <2>1. block \in 0..(b - 1)
    BY DEF b
  <2> QED BY <1>1, <2>1
<1> HIDE DEF b
<1>4. block * LANES \in Nat /\ LANES * b \in Nat /\ block * LANES + LANES <= LANES * b
  BY <1>1, <1>2, <1>3, RowFits
<1>5. LANES * b = l
  BY <1>1, <1>2
<1> DEFINE y == block * LANES
<1>6. y \in Nat /\ y + LANES <= l
  BY <1>4, <1>5
<1> HIDE DEF y
<1>7. y + lane \in 0..(l - 1)
  BY <1>2, <1>6
<1> QED BY <1>7 DEF y

(* The lane of a block, among all of them from 1.                          *)
LaneNumber(block, lane) == block * LANES + lane + 1

IsMappedValue(begin, lanes, block, lane, d) ==
  LET pair == (d - 1) \div 2
  IN  Read(begin + 2 * (block * Dims * LANES + pair * LANES * 2 + 2 * lane + ((d - 1) % 2)), 2)
        = lanes[LaneNumber(block, lane)].vector[d]

LEMMA PairBytes ==
  ASSUME NEW L \in Nat, NEW h \in Nat, NEW block \in Nat, NEW pair \in Nat, NEW lane \in Nat, NEW odd \in Nat
  PROVE  ((block * h + pair) * L + lane) * 4 + 2 * odd = 2 * (block * (2 * h) * L + pair * L * 2 + 2 * lane + odd)
<1> DEFINE u == block * h * L
           v == pair * L
<1>1. u \in Nat /\ v \in Nat
  <2>1. block * h \in Nat
    BY ProductIsNat
  <2> QED BY <2>1, ProductIsNat
<1>2. (block * h + pair) * L = u + v
  OBVIOUS
<1>3. block * (2 * h) * L = 2 * u /\ pair * L * 2 = 2 * v
  OBVIOUS
<1> HIDE DEF u, v
<1> QED BY <1>1, <1>2, <1>3

LEMMA PairNumber ==
  ASSUME NEW h \in Nat \ {0}, NEW d \in 1..(2 * h)
  PROVE  /\ (d - 1) \div 2 \in 0..(h - 1) /\ (d - 1) % 2 \in {0, 1}
         /\ 2 * ((d - 1) \div 2) + ((d - 1) % 2) + 1 = d
<1> DEFINE e == d - 1
           q == e \div 2
           r == e % 2
<1>1. e \in Nat /\ e <= 2 * h - 1
  OBVIOUS
<1>2. q \in Int /\ r \in 0..1 /\ e = 2 * q + r
  <2> HIDE DEF e
  <2> QED BY <1>1
<1> HIDE DEF q, r
<1>2a. d = e + 1
  OBVIOUS
<1> HIDE DEF e
<1>2b. q >= 0 /\ q <= h - 1
  BY <1>1, <1>2
<1>3. q \in 0..(h - 1) /\ r \in {0, 1} /\ 2 * q + r + 1 = d
  <2>1. q \in 0..(h - 1)
    BY <1>2, <1>2b
  <2>2. r \in {0, 1} /\ 2 * q + r + 1 = d
    BY <1>2, <1>2a
  <2> QED BY <2>1, <2>2
<1> QED BY Zenon, <1>3 DEF q, r, e

LEMMA ValuesAreMapped ==
  ASSUME NEW c, IsWhole(c), NEW block \in 0..((Len(c.lanes) \div LANES) - 1), NEW lane \in 0..(LANES - 1), NEW d \in 1..Dims
  PROVE  IsMappedValue(ImageOf(c)[5].begin, c.lanes, block, lane, d)
<1> DEFINE img == ImageOf(c)
           lanes == c.lanes
           l == Len(lanes)
           b == l \div LANES
           h == Dims \div 2
           L == LANES
           s == VectorSection(lanes, b)
           N == PairsIn(b)
           pair == (d - 1) \div 2
           odd == (d - 1) % 2
           p == (block * h + pair) * L + lane
           base == img[5].begin
<1>1. IsCertificate(c) /\ l \in Nat /\ l % LANES = 0
  <2>1. IsCertificate(c)
    BY DEF IsWhole
  <2> QED BY <2>1, CertificateIsTyped
<1>2. /\ N = b * h * L /\ N \in Nat /\ b \in Nat /\ h \in Nat \ {0} /\ 2 * h = Dims /\ L \in Nat \ {0}
  BY SMTT(30), <1>1, VectorBytes, IndexFileAssumption DEF PairsIn
<1>3. pair \in 0..(h - 1) /\ odd \in {0, 1} /\ 2 * pair + odd + 1 = d
  <2> HIDE DEF h
  <2>1. d \in 1..(2 * h)
    BY <1>2
  <2> QED BY <1>2, <2>1, PairNumber
<1>4. block \in Nat /\ block + 1 <= b
  <2>1. block \in 0..(b - 1)
    OBVIOUS
  <2> HIDE DEF b
  <2> QED BY <1>2, <2>1
<1>5. FieldsOf(s, 2) /\ Rows(s, 4, N) /\ s.at[1] = 0 /\ s.at[2] = 2 /\ s.widths[1] = 2 /\ s.widths[2] = 2
  <2> HIDE DEF b
  <2> QED BY <1>2, VectorLength
<1>6. s.rows = [k \in 1..N |-> VectorRow(lanes, k)]
  <2> HIDE DEF b
  <2> QED BY <1>2, VectorLength
<1>7. IsSection(img[5], s) /\ base \in Nat
  <2>1. IsImage(img, c.in, c.predicates, c.roots, c.nodes, lanes)
    BY Zenon, <1>1, CertificateHasShape
  <2>2. base \in Nat
    BY <1>1, ImageEnds
  <2> QED BY <2>1, <2>2 DEF IsImage
<1> HIDE DEF pair, odd, s, base, N
<1>8. p \in Nat /\ p \div (h * L) = block /\ (p \div L) % h = pair /\ p % L = lane
  <2> HIDE DEF h, L, b
  <2>1. lane \in 0..(L - 1) /\ p = (block * h + pair) * L + lane
    BY DEF L
  <2> HIDE DEF p
  <2>2. L \in Nat \ {0} /\ h \in Nat \ {0} /\ block \in Nat /\ pair \in 0..(h - 1)
    BY <1>2, <1>3, <1>4
  <2>3. IsPairOf(p, L, h, block, pair, lane)
    BY <2>1, <2>2, PairPlace
  <2> QED BY <2>3 DEF IsPairOf
<1>9. p \in 0..(N - 1)
  <2> DEFINE x == block * h + pair
             m == b * h
  <2> HIDE DEF h, b
  <2>1. block * h \in Nat /\ h * b \in Nat /\ block * h + h <= h * b
    BY <1>2, <1>4, RowFits
  <2>2. x \in Nat /\ x + 1 <= m /\ m \in Nat
    <3> DEFINE y == block * h
               z == h * b
    <3>1. y \in Nat /\ z \in Nat /\ y + h <= z /\ x = y + pair /\ m = z
      BY <1>2, <2>1
    <3> HIDE DEF y, z, x, m
    <3> QED BY <1>2, <1>3, <3>1
  <2>3. N = m * L /\ p = x * L + lane
    BY <1>2
  <2> HIDE DEF x, m, p
  <2>4. x * L \in Nat /\ L * m \in Nat /\ x * L + L <= L * m
    BY <1>2, <2>2, RowFits
  <2> DEFINE y == x * L
             z == L * m
  <2>5. y \in Nat /\ z \in Nat /\ y + L <= z /\ p = y + lane /\ N = z
    BY <1>2, <2>2, <2>3, <2>4
  <2> HIDE DEF y, z
  <2> QED BY <1>2, <2>5
<1>10. p * 4 + 2 * odd = 2 * (block * Dims * LANES + pair * LANES * 2 + 2 * lane + odd)
  <2> HIDE DEF h
  <2>1. ((block * h + pair) * L + lane) * 4 + 2 * odd = 2 * (block * (2 * h) * L + pair * L * 2 + 2 * lane + odd)
    <3>1. pair \in Nat /\ lane \in Nat /\ odd \in Nat /\ L \in Nat /\ h \in Nat
      BY <1>2, <1>3
    <3> HIDE DEF L
    <3> QED BY <1>4, <3>1, PairBytes
  <2> QED BY Zenon, <1>2, <2>1
<1> HIDE DEF p
<1> DEFINE k == p + 1
           v == lanes[block * LANES + lane + 1].vector
<1>11. s.rows[k] = <<v[2 * pair + 1], v[2 * pair + 2]>>
  <2>1. k \in 1..N /\ k - 1 = p
    <3> HIDE DEF b, h
    <3> QED BY <1>2, <1>9
  <2>2. s.rows[k] = VectorRow(lanes, k)
    BY <1>6, <2>1
  <2>3. (k - 1) \div ((Dims \div 2) * LANES) = block /\ ((k - 1) \div LANES) % (Dims \div 2) = pair /\ (k - 1) % LANES = lane
    BY Zenon, <1>8, <2>1
  <2> HIDE DEF k
  <2> QED BY Zenon, <2>2, <2>3 DEF VectorRow
<1> DEFINE f == odd + 1
<1>12. f \in 1..2 /\ s.at[f] = 2 * odd /\ s.widths[f] = 2 /\ s.rows[k][f] = v[d]
  <2>1. CASE odd = 0
    <3>1. 2 * pair + 1 = d
      BY <1>3, <2>1
    <3>2. <<v[2 * pair + 1], v[2 * pair + 2]>>[1] = v[2 * pair + 1]
      OBVIOUS
    <3> HIDE DEF v, k
    <3>3. s.rows[k][1] = v[d]
      BY <1>11, <3>1, <3>2
    <3>4. f = 1
      BY <2>1
    <3> QED BY <1>5, <2>1, <3>3, <3>4
  <2>2. CASE odd = 1
    <3>1. 2 * pair + 2 = d
      BY <1>2, <1>3, <2>2
    <3>2. <<v[2 * pair + 1], v[2 * pair + 2]>>[2] = v[2 * pair + 2]
      OBVIOUS
    <3> HIDE DEF v, k
    <3>3. s.rows[k][2] = v[d]
      BY <1>11, <3>1, <3>2
    <3>4. f = 2
      BY <2>2
    <3> QED BY <1>5, <2>2, <3>3, <3>4
  <2> QED BY <1>3, <2>1, <2>2
<1>13. IsField(base, s, p, f)
  <2> DEFINE n == 5
             w == 2
  <2>1. n \in 1..9 /\ w \in Nat \ {0} /\ IsSection(img[n], s) /\ FieldsOf(s, w) /\ f \in 1..w /\ Len(s.rows) = N
    BY <1>5, <1>7, <1>12 DEF Rows
  <2> HIDE DEF n, w, f, img
  <2>2. IsField(img[n].begin, s, p, f)
    BY <1>2, <1>9, <2>1, FieldIsRead DEF img
  <2> QED BY <2>2 DEF n, base
<1> HIDE DEF v
<1>14. Read(base + p * 4 + 2 * odd, 2) = v[d]
  <2>1. Read(base + p * s.stride + s.at[f], s.widths[f]) = s.rows[k][f]
    BY Zenon, <1>13 DEF IsField
  <2>2. s.stride = 4
    BY Zenon, <1>5 DEF Rows
  <2> QED BY Zenon, <1>12, <2>1, <2>2
<1>15. base + p * 4 + 2 * odd = base + (p * 4 + 2 * odd)
  BY <1>3, <1>7, <1>8
<1>16. Read(base + 2 * (block * Dims * LANES + pair * LANES * 2 + 2 * lane + odd), 2) = v[d]
  BY Zenon, <1>10, <1>14, <1>15
<1> QED BY Zenon, <1>16 DEF IsMappedValue, LaneNumber, v, pair, odd, base

(* What is scanned of a lane.                                              *)
Scanned(x) == [vector |-> [d \in 1..Dims |-> x.vector[d]], label |-> x.label, index |-> x.index]

LEMMA LanesAreMapped ==
  ASSUME NEW c, IsMapped(c), NEW block \in 0..((Len(c.lanes) \div LANES) - 1), NEW lane \in 0..(LANES - 1)
  PROVE  ScannedLane(block, lane) = Scanned(c.lanes[LaneNumber(block, lane)])
<1> DEFINE img == ImageOf(c)
           lanes == c.lanes
           l == Len(lanes)
           p == block * LANES + lane
           x == lanes[p + 1]
<1>1. IsWhole(c) /\ IsCertificate(c)
  BY DEF IsMapped, IsWhole
<1>2. index.vectors = img[5].begin /\ index.labels = img[6].begin /\ index.refIndices = img[8].begin
  BY Zenon DEF IsMapped, HasOffsets
<1>3. l \in Nat /\ l % LANES = 0
  BY <1>1, CertificateIsTyped
<1>4. p \in 0..(l - 1)
  BY <1>3, LanesArePlaced
<1>5. IsSection(img[6], LabelSection(lanes)) /\ IsSection(img[8], IndexSection(lanes))
  <2>1. IsImage(img, c.in, c.predicates, c.roots, c.nodes, lanes)
    BY Zenon, <1>1, CertificateHasShape
  <2> QED BY <2>1 DEF IsImage
<1>6. img[6].begin \in Nat /\ img[8].begin \in Nat
  BY <1>1, ImageEnds
<1>7. LaneVector(block, lane) = [d \in 1..Dims |-> x.vector[d]]
  <2>1. \A d \in 1..Dims : IsMappedValue(index.vectors, lanes, block, lane, d)
    BY <1>1, <1>2, ValuesAreMapped
  <2>2. \A d \in 1..Dims : LaneVector(block, lane)[d] = x.vector[d]
    BY <2>1 DEF IsMappedValue, LaneVector, LaneNumber
  <2>3. LaneVector(block, lane) = [d \in 1..Dims |-> LaneVector(block, lane)[d]]
    BY Zenon DEF LaneVector
  <2> HIDE DEF x
  <2> QED BY Zenon, <2>2, <2>3
<1> HIDE DEF x, p, img
<1>8. Read(index.labels + p, 1) = x.label
  <2> DEFINE t == LabelSection(lanes)
             m == 6
             width == 1
  <2>1. FieldsOf(t, 1) /\ t.stride = width /\ t.at[1] = 0 /\ t.widths[1] = width /\ Len(t.rows) = l
    BY <1>3, LabelLength
  <2>2. t.rows[p + 1] = <<x.label>>
    <3>1. t.rows = [k \in 1..Len(lanes) |-> <<lanes[k].label>>]
      BY <1>3, LabelLength
    <3>2. p + 1 \in 1..Len(lanes)
      BY <1>3, <1>4
    <3> HIDE DEF t
    <3> QED BY Zenon, <3>1, <3>2 DEF x
  <2>3. m \in 1..9 /\ width \in Nat \ {0} /\ IsSection(img[m], t)
    BY <1>5
  <2> HIDE DEF t, m, width, l
  <2>4. IsNumber(img[m].begin, width, t.rows, p)
    BY <1>1, <1>3, <1>4, <2>1, <2>3, NumberIsRead DEF img
  <2>5. Read(img[6].begin + 1 * p, 1) = x.label
    BY <2>2, <2>4 DEF IsNumber, m, width
  <2>6. index.labels + p = img[6].begin + 1 * p
    BY <1>2, <1>4, <1>6
  <2> QED BY Zenon, <2>5, <2>6
<1>9. Read(index.refIndices + 4 * p, 4) = x.index
  <2> DEFINE t == IndexSection(lanes)
             m == 8
             width == 4
  <2>1. FieldsOf(t, 1) /\ t.stride = width /\ t.at[1] = 0 /\ t.widths[1] = width /\ Len(t.rows) = l
    BY <1>3, IndexLength
  <2>2. t.rows[p + 1] = <<x.index>>
    <3>1. t.rows = [k \in 1..Len(lanes) |-> <<lanes[k].index>>]
      BY <1>3, IndexLength
    <3>2. p + 1 \in 1..Len(lanes)
      BY <1>3, <1>4
    <3> HIDE DEF t
    <3> QED BY Zenon, <3>1, <3>2 DEF x
  <2>3. m \in 1..9 /\ width \in Nat \ {0} /\ IsSection(img[m], t)
    BY <1>5
  <2> HIDE DEF t, m, width, l
  <2>4. IsNumber(img[m].begin, width, t.rows, p)
    BY <1>1, <1>3, <1>4, <2>1, <2>3, NumberIsRead DEF img
  <2>5. Read(img[8].begin + 4 * p, 4) = x.index
    BY <2>2, <2>4 DEF IsNumber, m, width
  <2> QED BY Zenon, <1>2, <2>5
<1>10. ScannedLane(block, lane) = [vector |-> LaneVector(block, lane), label |-> Read(index.labels + p, 1), index |-> Read(index.refIndices + 4 * p, 4)]
  <2>1. index.labels + block * LANES + lane = index.labels + p
    <3> DEFINE y == block * LANES
    <3>1. y \in Nat
      <4>1. block \in Nat /\ LANES \in Nat
        BY IndexFileAssumption
      <4> QED BY <4>1, ProductIsNat
    <3>2. index.labels \in Nat /\ p = y + lane /\ lane \in Nat
      BY <1>2, <1>6, IndexFileAssumption DEF p
    <3> HIDE DEF y
    <3>3. index.labels + y + lane = index.labels + p
      BY <3>1, <3>2
    <3> QED BY <3>3 DEF y
  <2> QED BY Zenon, <2>1 DEF ScannedLane, p
<1> QED BY Zenon, <1>7, <1>8, <1>9, <1>10 DEF Scanned, LaneNumber, x, p

(* The predicates of a descent are alike.                                  *)
SameHeap(t, predicates) ==
  /\ DOMAIN t = DOMAIN predicates
  /\ \A n \in DOMAIN predicates : /\ t[n].dim = predicates[n].dim /\ t[n].threshold = predicates[n].threshold
                                  /\ t[n].enabled = predicates[n].enabled

(* A key's place in the table: a partition of the key, or none.            *)
IsKeyTable(table, roots) ==
  \A key \in 0..(KEY_LOOKUP_SIZE - 1) :
    \/ table[key] = -1 /\ \A k \in 1..Len(roots) : roots[k].key # key
    \/ table[key] \in 0..(Len(roots) - 1) /\ roots[table[key] + 1].key = key

ServedFrom(i, c) ==
  HasOffsets(i, c) /\ SameHeap(i.tree, c.predicates) /\ IsKeyTable(i.keyToPartition, c.roots)

LEMMA SameHeapSameKey ==
  ASSUME NEW t, NEW predicates, SameHeap(t, predicates), NEW v
  PROVE  Key(t, v) = Key(predicates, v)
<1>1. KeyBits \in Nat
  BY KeyBitsBounded
<1>2. \A n : Side(t, v, n) <=> Side(predicates, v, n)
  BY Zenon DEF SameHeap, Side
<1> DEFINE T == {k \in Nat : NodeAt(t, v, k) = NodeAt(predicates, v, k)}
<1>3. 0 \in T
  BY NodeAtSteps
<1>4. ASSUME NEW k \in Nat, k \in T PROVE k + 1 \in T
  <2>1. NodeAt(t, v, k) = NodeAt(predicates, v, k)
    BY <1>4
  <2>2. Side(t, v, NodeAt(t, v, k)) <=> Side(predicates, v, NodeAt(predicates, v, k))
    BY <1>2, <2>1
  <2>3. /\ NodeAt(t, v, k + 1) = 2 * NodeAt(t, v, k) + (IF Side(t, v, NodeAt(t, v, k)) THEN 2 ELSE 1)
        /\ NodeAt(predicates, v, k + 1)
             = 2 * NodeAt(predicates, v, k) + (IF Side(predicates, v, NodeAt(predicates, v, k)) THEN 2 ELSE 1)
    BY NodeAtSteps
  <2> QED BY <2>1, <2>2, <2>3
<1> HIDE DEF T
<1>5. KeyBits \in T
  BY <1>1, <1>3, <1>4, AllNumbers
<1>6. NodeAt(t, v, KeyBits) = NodeAt(predicates, v, KeyBits)
  BY <1>5 DEF T
<1> QED BY Zenon, <1>6 DEF Key

(* A whole file has its header.                                            *)
LEMMA HeaderFits ==
  ASSUME NEW c, IsCertificate(c), NEW img, img = ImageOf(c)
  PROVE  ImageSize(img) \in Nat /\ 42 <= ImageSize(img) /\ img[2].begin \in Nat
<1> DEFINE base == img[2].begin
<1>1. ImageSize(img) = img[9].end /\ img[9].end \in Nat /\ base \in Nat
  BY ImageEnds
<1>2. base <= img[2].end /\ img[2].end <= img[9].end /\ img[2].end \in Nat
  BY ImageEnds
<1>3. base = 42
  <2>1. IsImage(img, c.in, c.predicates, c.roots, c.nodes, c.lanes)
    BY Zenon, CertificateHasShape
  <2> QED BY <2>1 DEF IsImage, Begins
<1> QED BY <1>1, <1>2, <1>3

LEMMA PredicatesAreLoaded ==
  ASSUME NEW c, IsWhole(c)
  PROVE  SameHeap(LoadedTree, c.predicates)
<1> DEFINE img == ImageOf(c)
           predicates == c.predicates
           N == Cardinality(DOMAIN predicates)
           s == PredicateSection(predicates)
           base == img[2].begin
<1>1. IsCertificate(c) /\ file.image = img /\ file.size = ImageSize(img)
  BY DEF IsWhole
<1>2. N \in Nat /\ DOMAIN predicates = 0..(N - 1) /\ \A n \in DOMAIN predicates : predicates[n].enabled \in BOOLEAN
  BY Zenon, <1>1 DEF IsCertificate, IsHeap
<1>3. Shape(predicates, c.roots, c.nodes, c.lanes) /\ IsImage(img, c.in, predicates, c.roots, c.nodes, c.lanes)
  BY Zenon, <1>1, CertificateHasShape
<1>4. base \in Nat /\ file.size \in Nat /\ 42 <= file.size
  BY <1>1, HeaderFits
<1>5. PredicatesAt = base /\ PredicateCount = N
  BY <1>1, <1>3, <1>4, HeaderIsRead, CursorsMeetTheSections
<1>6. /\ FieldsOf(s, 3) /\ s.stride = 4 /\ Len(s.rows) = N
      /\ s.rows = [k \in 1..N |-> <<predicates[k - 1].dim, IF predicates[k - 1].enabled THEN 1 ELSE 0,
                                    predicates[k - 1].threshold>>]
  BY <1>2, PredicateLength
<1>7. s.at[1] = 0 /\ s.at[2] = 1 /\ s.at[3] = 2 /\ s.widths[1] = 1 /\ s.widths[2] = 1 /\ s.widths[3] = 2
  BY SMTT(30), PredicateFields DEF PredicateSection
<1>8. IsSection(img[2], s)
  BY <1>3 DEF IsImage
<1> HIDE DEF s, base, N, predicates, img
<1>9. ASSUME NEW n \in 0..(N - 1)
      PROVE  /\ Read(base + 4 * n, 1) = predicates[n].dim
             /\ Read(base + 4 * n + 1, 1) = IF predicates[n].enabled THEN 1 ELSE 0
             /\ Read(base + 4 * n + 2, 2) = predicates[n].threshold
  <2> DEFINE m == 2
             w == 3
  <2>1. m \in 1..9 /\ w \in Nat \ {0} /\ IsSection(img[m], s) /\ FieldsOf(s, w)
    BY <1>6, <1>8
  <2>2. 1 \in 1..w /\ 2 \in 1..w /\ 3 \in 1..w
    OBVIOUS
  <2> HIDE DEF m, w
  <2>3. ASSUME NEW f \in 1..w PROVE IsField(img[m].begin, s, n, f)
    BY <1>2, <1>6, <2>1, FieldIsRead DEF img
  <2>4. ASSUME NEW f \in 1..w PROVE Read(base + n * 4 + s.at[f], s.widths[f]) = s.rows[n + 1][f]
    BY Zenon, <1>6, <2>3 DEF IsField, base, m
  <2>5. s.rows[n + 1] = <<predicates[n].dim, IF predicates[n].enabled THEN 1 ELSE 0, predicates[n].threshold>>
    <3>1. n + 1 \in 1..N /\ (n + 1) - 1 = n
      BY <1>2
    <3> QED BY ZenonT(30), <1>6, <3>1
  <2>6. base + n * 4 + 0 = base + 4 * n /\ base + n * 4 + 1 = base + 4 * n + 1 /\ base + n * 4 + 2 = base + 4 * n + 2
    BY <1>2, <1>4
  <2>7. Read(base + 4 * n, 1) = s.rows[n + 1][1]
    BY Zenon, <1>7, <2>2, <2>4, <2>6
  <2>8. Read(base + 4 * n + 1, 1) = s.rows[n + 1][2]
    BY Zenon, <1>7, <2>2, <2>4, <2>6
  <2>9. Read(base + 4 * n + 2, 2) = s.rows[n + 1][3]
    BY Zenon, <1>7, <2>2, <2>4, <2>6
  <2> QED BY <2>5, <2>7, <2>8, <2>9
<1> DEFINE t == LoadedTree
<1>10. t = [n \in 0..(N - 1) |-> [dim |-> Read(base + 4 * n, 1), enabled |-> Read(base + 4 * n + 1, 1) # 0,
                                  threshold |-> Read(base + 4 * n + 2, 2)]]
  BY Zenon, <1>5 DEF LoadedTree
<1>11. DOMAIN t = 0..(N - 1)
  BY <1>10
<1>12. ASSUME NEW n \in 0..(N - 1)
       PROVE  t[n].dim = predicates[n].dim /\ t[n].threshold = predicates[n].threshold /\ t[n].enabled = predicates[n].enabled
  <2>1. t[n].dim = Read(base + 4 * n, 1) /\ t[n].threshold = Read(base + 4 * n + 2, 2)
    BY <1>10
  <2>2. t[n].enabled = (Read(base + 4 * n + 1, 1) # 0)
    BY <1>10
  <2>3. predicates[n].enabled \in BOOLEAN
    BY <1>2
  <2>4. Read(base + 4 * n + 1, 1) = IF predicates[n].enabled THEN 1 ELSE 0
    BY Zenon, <1>9
  <2>5. t[n].enabled = predicates[n].enabled
    <3> HIDE DEF t
    <3> QED BY <2>2, <2>3, <2>4
  <2> QED BY Zenon, <1>9, <2>1, <2>5
<1> HIDE DEF t
<1>13. SameHeap(t, predicates)
  BY Zenon, <1>2, <1>11, <1>12 DEF SameHeap
<1> QED BY <1>13 DEF t, predicates

LEMMA LoadServes ==
  ASSUME NEW c, IsWhole(c)
  PROVE  ServedFrom(Loaded, c)
<1> DEFINE img == ImageOf(c)
           roots == c.roots
           R == Len(roots)
           keyOf(p) == Read(PartitionsAt + p * PARTITION_STRIDE, 4)
           found(key) == {p \in 0..(R - 1) : keyOf(p) = key}
           last(key) == CHOOSE p \in found(key) : \A o \in found(key) : o <= p
           table == [key \in 0..(KEY_LOOKUP_SIZE - 1) |-> IF found(key) = {} THEN -1 ELSE last(key)]
<1>1. IsCertificate(c) /\ file.image = img /\ file.size = ImageSize(img)
  BY DEF IsWhole
<1>2. Shape(c.predicates, roots, c.nodes, c.lanes) /\ IsImage(img, c.in, c.predicates, roots, c.nodes, c.lanes)
  BY Zenon, <1>1, CertificateHasShape
<1>3. file.size \in Nat /\ 42 <= file.size
  BY <1>1, <1>2, HeaderFits
<1>4. /\ PartitionsAt = img[3].begin /\ NodesAt = img[4].begin /\ VectorsAt = img[5].begin /\ LabelsAt = img[6].begin
      /\ RefIndicesAt = img[8].begin /\ ClassBitsAt = img[9].begin
  BY <1>1, <1>2, <1>3, CursorsMeetTheSections
<1>5. PartitionCount = R /\ NodeCount = Len(c.nodes)
  BY <1>1, <1>2, <1>3, HeaderIsRead
<1>6. HasOffsets(Loaded, c)
  <2>1. /\ Loaded.partitionsBase = PartitionsAt /\ Loaded.partitionCount = PartitionCount
        /\ Loaded.nodesBase = NodesAt /\ Loaded.nodeCount = NodeCount
        /\ Loaded.vectors = VectorsAt /\ Loaded.labels = LabelsAt
        /\ Loaded.refIndices = RefIndicesAt /\ Loaded.nodeClassBits = ClassBitsAt
    BY DEF Loaded
  <2> QED BY Zenon, <1>4, <1>5, <2>1 DEF HasOffsets
<1>7. SameHeap(Loaded.tree, c.predicates)
  <2>1. Loaded.tree = LoadedTree
    BY DEF Loaded
  <2> QED BY Zenon, <2>1, PredicatesAreLoaded
<1>8. Loaded.keyToPartition = table
  <2>1. Loaded.keyToPartition
          = [key \in 0..(KEY_LOOKUP_SIZE - 1) |->
               LET F == {p \in 0..(PartitionCount - 1) : keyOf(p) = key}
               IN  IF F = {} THEN -1 ELSE CHOOSE p \in F : \A o \in F : o <= p]
    BY DEF Loaded
  <2> HIDE DEF keyOf, R
  <2> QED BY Zenon, <1>5, <2>1
<1>9. R \in Nat /\ \A p \in 0..(R - 1) : keyOf(p) = roots[p + 1].key
  <2>1. R \in Nat
    BY <1>1, CertificateIsTyped
  <2>2. ASSUME NEW p \in 0..(R - 1) PROVE keyOf(p) = roots[p + 1].key
    <3>1. IsPlacedPartition(img[3].begin + p * 80, roots[p + 1], c.nodes[roots[p + 1].root + 1])
      BY PartitionsAreMapped
    <3>2. Read(img[3].begin + p * 80, 4) = roots[p + 1].key
      BY Zenon, <3>1 DEF IsPlacedPartition
    <3> QED BY Zenon, <1>4, <3>2 DEF PARTITION_STRIDE
  <2> QED BY <2>1, <2>2
<1> HIDE DEF keyOf, R, roots
<1>10. ASSUME NEW key \in 0..(KEY_LOOKUP_SIZE - 1), found(key) # {} PROVE last(key) \in found(key)
  <2> DEFINE F == found(key)
  <2>1. IsFiniteSet(0..(R - 1)) /\ F \subseteq 0..(R - 1)
    <3>1. R - 1 \in Int /\ 0 \in Int
      BY <1>9
    <3> QED BY <3>1, FS_Interval
  <2>2. F \subseteq Int /\ IsFiniteSet(F) /\ F # {}
    <3>1. IsFiniteSet(F)
      BY <2>1, FS_Subset
    <3>2. F \subseteq Int
      BY <1>9
    <3> QED BY <1>10, <3>1, <3>2
  <2> HIDE DEF F
  <2>3. \E m \in F : \A y \in F : y <= m
    BY <2>2, GreatestExists
  <2>4. (CHOOSE m \in F : \A y \in F : y <= m) \in F
    BY Zenon, <2>3
  <2> QED BY Zenon, <2>4 DEF F
<1> HIDE DEF last
<1>11. ASSUME NEW key \in 0..(KEY_LOOKUP_SIZE - 1)
       PROVE  \/ table[key] = -1 /\ \A k \in 1..R : roots[k].key # key
              \/ table[key] \in 0..(R - 1) /\ roots[table[key] + 1].key = key
  <2>1. table[key] = IF found(key) = {} THEN -1 ELSE last(key)
    BY Zenon
  <2> HIDE DEF table
  <2>2. CASE found(key) = {}
    <3>1. ASSUME NEW k \in 1..R, roots[k].key = key PROVE FALSE
      <4>1. k - 1 \in 0..(R - 1) /\ (k - 1) + 1 = k
        BY <1>9
      <4>2. keyOf(k - 1) = roots[k].key
        BY Zenon, <1>9, <4>1
      <4>3. k - 1 \in found(key)
        BY <3>1, <4>1, <4>2
      <4> QED BY <2>2, <4>3
    <3> QED BY <2>1, <2>2, <3>1
  <2>3. CASE found(key) # {}
    <3>1. last(key) \in found(key) /\ table[key] = last(key)
      BY <1>10, <2>1, <2>3
    <3>2. last(key) \in 0..(R - 1) /\ keyOf(last(key)) = key
      BY <3>1
    <3>3. roots[last(key) + 1].key = key
      BY Zenon, <1>9, <3>2
    <3> QED BY Zenon, <3>1, <3>2, <3>3
  <2> QED BY <2>2, <2>3
<1> HIDE DEF table
<1>12. IsKeyTable(table, c.roots)
  BY Zenon, <1>11 DEF IsKeyTable, R, roots
<1> QED BY Zenon, <1>6, <1>7, <1>8, <1>12 DEF ServedFrom

-----------------------------------------------------------------------------
(* What is built: the partitions of some keys, as long as the partition    *)
(* tree is learned of none.                                                *)

BuiltInv ==
  /\ phase = "load" => built = NothingBuilt
  /\ phase = "train" =>
       /\ IsHeap(tree)
       /\ work # << >> => built = NothingBuilt
       /\ \E below, pos : IsBuilt(input.refs, tree, built.roots, built.nodes, built.lanes, below, pos)

LEMMA NothingIsBuilt ==
  ASSUME NEW refs, NEW predicates
  PROVE  \E below, pos : IsBuilt(refs, predicates, << >>, << >>, << >>, below, pos)
<1> DEFINE none == << >>
<1>1. PICK below, pos : Forest(refs, {}, << >>, << >>, 0, 0, below, pos)
  BY Zenon, EmptyForest
<1>2. none \in Seq(Root) /\ Len(none) = 0 /\ DOMAIN none = {}
  OBVIOUS
<1>3. 1..Len(none) = {}
  BY <1>2
<1>4. Held(refs, predicates, none) = {}
  BY Zenon, <1>2 DEF Held
<1>5. AreRoots(refs, predicates, none, none, below)
  BY Zenon, <1>2, <1>3 DEF AreRoots
<1>6. IsBuilt(refs, predicates, none, none, none, below, pos)
  BY Zenon, <1>1, <1>4, <1>5 DEF IsBuilt
<1> QED BY <1>6

(* The heap before it is trained.                                          *)
LEMMA DisabledHeap ==
  ASSUME NEW N \in Nat, NEW heap, heap = [n \in 0..(N - 1) |-> Disabled]
  PROVE  IsHeap(heap)
<1>1. DOMAIN heap = 0..(N - 1)
  OBVIOUS
<1>2. Cardinality(0..(N - 1)) = N
  <2>1. 0 \in Int /\ N - 1 \in Int
    OBVIOUS
  <2>2. Cardinality(0..(N - 1)) = IF 0 > N - 1 THEN 0 ELSE (N - 1) - 0 + 1
    BY <2>1, FS_Interval
  <2> QED BY <2>2
<1>3. \A n \in 0..(N - 1) : heap[n].enabled = FALSE
  BY DEF Disabled
<1>4. Cardinality(DOMAIN heap) = N
  BY Zenon, <1>1, <1>2
<1>5. \A n \in DOMAIN heap : heap[n].enabled \in BOOLEAN
  BY <1>1, <1>3
<1> HIDE DEF Disabled
<1> QED BY Zenon, <1>1, <1>4, <1>5 DEF IsHeap

LEMMA LearnedHeap ==
  ASSUME NEW heap, IsHeap(heap), NEW m, NEW p, p.enabled = TRUE, NEW learned, learned = [heap EXCEPT ![m] = p]
  PROVE  IsHeap(learned)
<1>1. DOMAIN learned = DOMAIN heap
  OBVIOUS
<1>2. \A n \in DOMAIN heap : learned[n].enabled \in BOOLEAN
  <2> TAKE n \in DOMAIN heap
  <2>1. learned[n] = IF n = m THEN p ELSE heap[n]
    OBVIOUS
  <2>2. heap[n].enabled \in BOOLEAN
    BY Zenon DEF IsHeap
  <2> QED BY Zenon, <2>1, <2>2
<1> QED BY Zenon, <1>1, <1>2 DEF IsHeap

(* The roots before and after a partition more.                            *)
IsOneMore(roots, r, more) ==
  /\ more \in Seq(Root) /\ Len(more) = Len(roots) + 1
  /\ (\A k \in 1..Len(roots) : more[k] = roots[k]) /\ more[Len(roots) + 1] = r

HoldsMore(refs, predicates, roots, r, more) ==
  Held(refs, predicates, more) = Held(refs, predicates, roots) \union Partition(refs, predicates, r.key)

LEMMA HeldByOneMore ==
  ASSUME NEW refs, NEW predicates, NEW roots \in Seq(Root), NEW r \in Root,
         NEW more, more = Append(roots, r)
  PROVE  HoldsMore(refs, predicates, roots, r, more) /\ IsOneMore(roots, r, more)
<1> DEFINE n == Len(roots)
<1>1. n \in Nat /\ more \in Seq(Root) /\ Len(more) = n + 1
  OBVIOUS
<1>2. (\A k \in 1..n : more[k] = roots[k]) /\ more[n + 1] = r
  OBVIOUS
<1>3. DOMAIN more = 1..(n + 1) /\ DOMAIN roots = 1..n
  OBVIOUS
<1> HIDE DEF n
<1>4. 1..(n + 1) = (1..n) \union {n + 1}
  BY <1>1
<1>5. ASSUME NEW i \in DOMAIN refs
      PROVE  (\E k \in DOMAIN more : more[k].key = Key(predicates, refs[i].vector))
               <=> \/ \E k \in DOMAIN roots : roots[k].key = Key(predicates, refs[i].vector)
                   \/ Key(predicates, refs[i].vector) = r.key
  BY <1>2, <1>3, <1>4
<1>6. Held(refs, predicates, more) = Held(refs, predicates, roots) \union Partition(refs, predicates, r.key)
  BY <1>5 DEF Held, Partition
<1> QED BY <1>1, <1>2, <1>6 DEF n, IsOneMore, HoldsMore

LEMMA OneMorePartition ==
  ASSUME NEW refs, AreReferences(refs), NEW predicates, NEW roots, NEW nodes, NEW lanes, NEW b, NEW p,
         IsBuilt(refs, predicates, roots, nodes, lanes, b, p), NEW leafSize \in Nat, 1 <= leafSize,
         NEW key \in Keys(refs, predicates), \A k \in DOMAIN roots : roots[k].key # key,
         NEW part, part = Partition(refs, predicates, key),
         NEW t, t = BuildNode(refs, part, leafSize, Len(nodes), Len(lanes)),
         NEW r, r = [key |-> key, root |-> Len(nodes)]
  PROVE  \E below, pos : IsBuilt(refs, predicates, Append(roots, r), nodes \o t.nodes, lanes \o t.lanes, below, pos)
<1> DEFINE held == Held(refs, predicates, roots)
           N == Len(nodes)
           L == Len(lanes)
           M == Len(t.nodes)
           more == Append(roots, r)
<1>1. /\ Forest(refs, held, nodes, lanes, 0, 0, b, p) /\ AreRoots(refs, predicates, roots, nodes, b)
  BY Zenon DEF IsBuilt
<1>2. nodes \in Seq(Entry) /\ lanes \in Seq(Lane) /\ L % LANES = 0
  BY Zenon, <1>1 DEF Forest
<1>3. N \in Nat /\ L \in Nat
  BY <1>2
<1>4. part \subseteq DOMAIN refs /\ part # {}
  BY DEF Partition, Keys
<1>5. IsTreeOf(refs, part, t, N, L)
  BY <1>2, <1>3, <1>4, BuildNodeIsTree
<1>6. PICK bT, pT : Forest(refs, part, t.nodes, t.lanes, N, L, bT, pT) /\ bT[N] = part
  BY Zenon, <1>5 DEF IsTreeOf
<1>7. TypedTree(t)
  BY Zenon, <1>5 DEF IsTreeOf
<1>8. t.nodes \in Seq(Entry) /\ M \in Nat /\ 1 <= M
  BY <1>7 DEF TypedTree
<1>9. held \intersect part = {}
  BY DEF Held, Partition
<1>10. key \in Nat
  <2>1. \A v : Key(predicates, v) \in 0..(KEY_LOOKUP_SIZE - 1)
    BY KeysFitTheTable
  <2>2. \A v : Key(predicates, v) \in Nat
    BY <2>1
  <2> QED BY <2>2 DEF Keys
<1> HIDE DEF held, N, L, M
<1>a. PICK zero \in Nat : zero = 0
  OBVIOUS
<1> DEFINE x == t.nodes
           y == t.lanes
<1>11a. PICK below, pos : /\ Forest(refs, held \union part, nodes \o x, lanes \o y, zero, zero, below, pos)
                          /\ Kept(below, b, zero, Len(nodes)) /\ Kept(below, bT, N, Len(x))
  <2>1. N = zero + Len(nodes) /\ L = zero + Len(lanes)
    BY <1>3, <1>a DEF N, L
  <2>2. Forest(refs, held, nodes, lanes, zero, zero, b, p)
    BY Zenon, <1>1, <1>a
  <2>3. Follows(nodes, lanes, zero, zero, N, L)
    BY Zenon, <2>1 DEF Follows
  <2>4. Forest(refs, part, x, y, N, L, bT, pT)
    BY Zenon, <1>6
  <2> HIDE DEF x, y
  <2> QED BY <1>9, <2>2, <2>3, <2>4, ForestsJoin
<1>11. /\ Forest(refs, held \union part, nodes \o t.nodes, lanes \o t.lanes, 0, 0, below, pos)
       /\ Kept(below, b, 0, Len(nodes)) /\ Kept(below, bT, N, Len(t.nodes))
  BY Zenon, <1>a, <1>11a
<1>12. roots \in Seq(Root) /\ r \in Root /\ r.key = key /\ r.root = N
  BY <1>1, <1>3, <1>10 DEF AreRoots, N, Root
<1> DEFINE R == Len(roots)
<1>13. /\ Held(refs, predicates, more) = held \union part
       /\ more \in Seq(Root) /\ Len(more) = R + 1
       /\ (\A k \in 1..R : more[k] = roots[k]) /\ more[R + 1] = r
  <2>1. /\ Held(refs, predicates, more) = Held(refs, predicates, roots) \union Partition(refs, predicates, r.key)
        /\ IsOneMore(roots, r, more)
    <3>1. more = Append(roots, r)
      OBVIOUS
    <3> HIDE DEF more
    <3>2. roots \in Seq(Root) /\ r \in Root
      BY <1>12
    <3>3. IsOneMore(roots, r, more)
      BY <3>1, <3>2, HeldByOneMore
    <3>4. HoldsMore(refs, predicates, roots, r, more)
      BY <3>1, <3>2, HeldByOneMore
    <3> QED BY <3>3, <3>4 DEF HoldsMore
  <2> HIDE DEF more
  <2> QED BY Zenon, <1>12, <2>1 DEF held, IsOneMore
<1>14. R \in Nat /\ DOMAIN roots = 1..R
  BY <1>12
<1>15. Len(nodes \o t.nodes) = N + M
  BY <1>2, <1>8 DEF N, M
<1> HIDE DEF R, more
<1>16. AreRoots(refs, predicates, more, nodes \o t.nodes, below)
  <2>1. ASSUME NEW k \in 1..(R + 1)
        PROVE  /\ more[k].root \in 0..(N + M - 1)
               /\ below[more[k].root] = Partition(refs, predicates, more[k].key)
    <3>1. CASE k \in 1..R
      <4>1. more[k] = roots[k]
        BY <1>13, <3>1
      <4>2. roots[k].root \in 0..(N - 1) /\ b[roots[k].root] = Partition(refs, predicates, roots[k].key)
        BY Zenon, <1>1, <3>1 DEF AreRoots, R, N
      <4>3. below[roots[k].root] = b[roots[k].root]
        <5>1. roots[k].root \in 0..(0 + Len(nodes) - 1)
          BY <1>3, <4>2 DEF N
        <5> QED BY Zenon, <1>11, <5>1 DEF Kept
      <4>4. roots[k].root \in 0..(N + M - 1)
        BY <1>3, <1>8, <4>2
      <4> QED BY Zenon, <4>1, <4>2, <4>3, <4>4
    <3>2. CASE k = R + 1
      <4>1. more[k] = r
        BY <1>13, <3>2
      <4>2. N \in N..(N + Len(t.nodes) - 1) /\ N \in 0..(N + M - 1)
        BY <1>3, <1>8 DEF M
      <4>3. below[N] = bT[N]
        BY Zenon, <1>11, <4>2 DEF Kept
      <4> QED BY Zenon, <1>6, <1>12, <4>1, <4>2, <4>3
    <3> QED BY <1>14, <3>1, <3>2
  <2>2. ASSUME NEW j \in 1..(R + 1), NEW k \in 1..(R + 1), more[j].key = more[k].key PROVE j = k
    <3>1. ASSUME NEW i \in 1..R PROVE more[i] = roots[i] /\ more[i].key # key
      BY <1>13, <1>14
    <3>2. more[R + 1].key = key
      BY <1>12, <1>13
    <3>3. CASE j \in 1..R /\ k \in 1..R
      <4>1. roots[j].key = roots[k].key
        BY Zenon, <2>2, <3>1, <3>3
      <4> QED BY Zenon, <1>1, <3>3, <4>1 DEF AreRoots, R
    <3>4. CASE j = R + 1 /\ k = R + 1
      BY <3>4
    <3>5. CASE j \in 1..R /\ k = R + 1
      BY Zenon, <2>2, <3>1, <3>2, <3>5
    <3>6. CASE j = R + 1 /\ k \in 1..R
      BY Zenon, <2>2, <3>1, <3>2, <3>6
    <3> QED BY <1>14, <3>3, <3>4, <3>5, <3>6
  <2> DEFINE c == nodes \o t.nodes
  <2>3. Len(c) - 1 = N + M - 1 /\ Len(more) = R + 1
    <3>1. Len(c) = N + M /\ Len(more) = R + 1
      BY <1>13, <1>15
    <3> HIDE DEF c
    <3> QED BY <1>3, <1>8, <3>1
  <2> HIDE DEF c
  <2>4. \A k \in 1..Len(more) : /\ more[k].root \in 0..(Len(c) - 1)
                               /\ below[more[k].root] = Partition(refs, predicates, more[k].key)
    BY Zenon, <2>1, <2>3
  <2>5. \A j, k \in 1..Len(more) : more[j].key = more[k].key => j = k
    BY Zenon, <2>2, <2>3
  <2>6. AreRoots(refs, predicates, more, c, below)
    BY Zenon, <1>13, <2>4, <2>5 DEF AreRoots
  <2> QED BY <2>6 DEF c
<1>17. IsBuilt(refs, predicates, more, nodes \o t.nodes, lanes \o t.lanes, below, pos)
  BY Zenon, <1>11, <1>13, <1>16 DEF IsBuilt
<1> QED BY <1>17 DEF more

LEMMA LoadBuilds ==
  ASSUME BuiltInv, Load
  PROVE  BuiltInv'
<1>1. built = NothingBuilt /\ built' = NothingBuilt
  BY DEF BuiltInv, Load
<1>2. PICK in \in Inputs[run] :
        LET refs == [i \in DOMAIN in.rows |-> ReferenceOf(in.rows[i], in.scale)]
            learns == Len(refs) >= K + 1 /\ KeyBits > 0
        IN  IF WellFormed(in.rows)
            THEN phase' = "train" /\ tree' = IF learns THEN [n \in 0..(LevelSize(KeyBits) - 2) |-> Disabled] ELSE << >>
            ELSE phase' = "failed"
  BY Zenon DEF Load
<1>3. phase' = "failed" \/ (phase' = "train" /\ (tree' = << >> \/ tree' = [n \in 0..(LevelSize(KeyBits) - 2) |-> Disabled]))
  BY Zenon, <1>2
<1>4. CASE phase' = "failed"
  BY <1>4 DEF BuiltInv
<1>5. CASE phase' = "train" /\ tree' = << >>
  <2> DEFINE N == 0
  <2>1. N \in Nat /\ tree' = [n \in 0..(N - 1) |-> Disabled]
    BY <1>5
  <2> HIDE DEF N
  <2>2. IsHeap(tree')
    BY <2>1, DisabledHeap
  <2>3. \E below, pos : IsBuilt(input'.refs, tree', built'.roots, built'.nodes, built'.lanes, below, pos)
    BY <1>1, NothingIsBuilt DEF NothingBuilt
  <2> QED BY <1>1, <1>5, <2>2, <2>3 DEF BuiltInv
<1>6. CASE phase' = "train" /\ tree' = [n \in 0..(LevelSize(KeyBits) - 2) |-> Disabled]
  <2> DEFINE N == LevelSize(KeyBits) - 1
  <2>1. N \in Nat /\ N - 1 = LevelSize(KeyBits) - 2
    <3>1. LevelSize(KeyBits) \in Nat \ {0}
      BY KeyBitsBounded, LevelSizeSteps
    <3> QED BY <3>1
  <2>1a. tree' = [n \in 0..(N - 1) |-> Disabled]
    BY Zenon, <1>6, <2>1
  <2> HIDE DEF N
  <2>2. IsHeap(tree')
    BY <2>1, <2>1a, DisabledHeap
  <2>3. \E below, pos : IsBuilt(input'.refs, tree', built'.roots, built'.nodes, built'.lanes, below, pos)
    BY <1>1, NothingIsBuilt DEF NothingBuilt
  <2> QED BY <1>1, <1>6, <2>2, <2>3 DEF BuiltInv
<1> QED BY <1>3, <1>4, <1>5, <1>6

LEMMA TrainBuilds ==
  ASSUME BuiltInv, TrainNode
  PROVE  BuiltInv'
<1>1. phase = "train" /\ work # << >> /\ built' = built /\ phase' = phase
  BY DEF TrainNode
<1>2. IsHeap(tree) /\ built = NothingBuilt
  BY <1>1 DEF BuiltInv
<1>3. PICK p \in Eligible(input.refs, work[1].queries) : tree' = [tree EXCEPT ![work[1].node] = p]
  BY Zenon DEF TrainNode
<1>4. p.enabled = TRUE
  <2>1. p \in Candidates(input.refs)
    BY DEF Eligible
  <2>2. PICK d \in 1..Dims :
          p \in {[dim |-> d, threshold |-> t, enabled |-> TRUE] :
                   t \in ThresholdsOf(Values(input.refs, DOMAIN input.refs, d))}
    BY Zenon, <2>1 DEF Candidates
  <2> QED BY <2>2
<1>5. IsHeap(tree')
  BY <1>2, <1>3, <1>4, LearnedHeap
<1>6. \E below, pos : IsBuilt(input'.refs, tree', built'.roots, built'.nodes, built'.lanes, below, pos)
  BY <1>1, <1>2, NothingIsBuilt DEF NothingBuilt
<1> QED BY <1>1, <1>2, <1>5, <1>6 DEF BuiltInv

LEMMA PartitionBuilds ==
  ASSUME BuiltInv, InputInv, BuildPartition
  PROVE  BuiltInv'
<1>1. phase = "train" /\ work = << >> /\ UNCHANGED <<phase, input, tree, work>>
  BY Zenon DEF BuildPartition
<1>2. IsHeap(tree)
  BY <1>1 DEF BuiltInv
<1>3. PICK b, p : IsBuilt(input.refs, tree, built.roots, built.nodes, built.lanes, b, p)
  BY Zenon, <1>1 DEF BuiltInv
<1>4. PICK key \in KeysToBuild :
        \E trees \in {BuildNode(input.refs, Partition(input.refs, tree, key), input.leafSize,
                                Len(built.nodes), Len(built.lanes))} :
          built' = [roots |-> Append(built.roots, [key |-> key, root |-> Len(built.nodes)]),
                    nodes |-> built.nodes \o trees.nodes,
                    lanes |-> built.lanes \o trees.lanes]
  BY Zenon DEF BuildPartition
<1>5. PICK t : /\ t = BuildNode(input.refs, Partition(input.refs, tree, key), input.leafSize,
                                Len(built.nodes), Len(built.lanes))
               /\ built' = [roots |-> Append(built.roots, [key |-> key, root |-> Len(built.nodes)]),
                            nodes |-> built.nodes \o t.nodes,
                            lanes |-> built.lanes \o t.lanes]
  BY Zenon, <1>4
<1> DEFINE r == [key |-> key, root |-> Len(built.nodes)]
           part == Partition(input.refs, tree, key)
<1>6. /\ built'.roots = Append(built.roots, r) /\ built'.nodes = built.nodes \o t.nodes
      /\ built'.lanes = built.lanes \o t.lanes
  BY <1>5
<1>7. key \in Keys(input.refs, tree) /\ \A k \in DOMAIN built.roots : built.roots[k].key # key
  BY <1>4 DEF KeysToBuild
<1>8. AreReferences(input.refs) /\ input.leafSize \in Nat /\ 1 <= input.leafSize
  <2>1. /\ input.scale \in Nat \ {0} /\ input.refs \in Seq(Reference(input.scale))
        /\ input.leafSize \in Nat /\ LANES <= input.leafSize
    BY <1>1 DEF InputInv
  <2>2. 1 <= input.leafSize
    BY <2>1, IndexFileAssumption
  <2> QED BY <2>1, <2>2, ReferencesAreReferences
<1>9. \E below, pos : IsBuilt(input.refs, tree, Append(built.roots, r), built.nodes \o t.nodes, built.lanes \o t.lanes, below, pos)
  <2>1. /\ part = Partition(input.refs, tree, key) /\ r = [key |-> key, root |-> Len(built.nodes)]
        /\ t = BuildNode(input.refs, part, input.leafSize, Len(built.nodes), Len(built.lanes))
    BY <1>5
  <2> HIDE DEF r, part
  <2> QED BY Zenon, <1>3, <1>7, <1>8, <2>1, OneMorePartition
<1> HIDE DEF r
<1>10. \E below, pos : IsBuilt(input'.refs, tree', built'.roots, built'.nodes, built'.lanes, below, pos)
  BY Zenon, <1>1, <1>6, <1>9
<1> QED BY <1>1, <1>2, <1>10 DEF BuiltInv

(* While preprocess trains and builds, what it has built are the trees of  *)
(* the keys built so far, one behind the other: their nodes have the boxes *)
(* and the class bits of the references below them, which are in the lanes *)
(* of the leaves, once (train_tree_node and build_index; inductive with    *)
(* InputInv).                                                              *)
THEOREM TreesAreBuilt == Spec => []BuiltInv
<1>1. Init => BuiltInv
  BY DEF Init, BuiltInv
<1>2. BuiltInv /\ InputInv /\ [Next]_vars => BuiltInv'
  <2>1. SUFFICES ASSUME BuiltInv, InputInv, [Next]_vars PROVE BuiltInv'
    OBVIOUS
  <2>2. CASE Load
    BY <2>1, <2>2, LoadBuilds
  <2>3. CASE SkipNode
    <3>1. phase = "train" /\ work # << >> /\ UNCHANGED <<phase, input, tree, built>>
      BY Zenon, <2>3 DEF SkipNode
    <3> QED BY <2>1, <3>1 DEF BuiltInv
  <2>4. CASE TrainNode
    BY <2>1, <2>4, TrainBuilds
  <2>5. CASE BuildPartition
    BY <2>1, <2>5, PartitionBuilds
  <2>6. CASE CreateFile
    <3>1. phase' = "write"
      BY Zenon, <2>6 DEF CreateFile
    <3> QED BY <3>1 DEF BuiltInv
  <2>7. CASE WriteSome
    <3>1. phase' = "written" \/ phase' = "write"
      BY Zenon, <2>7 DEF WriteSome
    <3> QED BY <3>1 DEF BuiltInv
  <2>8. CASE RunAgain
    <3>1. phase' = "load" /\ built' = NothingBuilt
      BY Zenon, <2>8 DEF RunAgain
    <3> QED BY <3>1 DEF BuiltInv
  <2>9. CASE UNCHANGED <<phase, input, tree, work, built>>
    BY <2>1, <2>9 DEF BuiltInv
  <2>10. UNCHANGED vars \/ Open \/ Stop => UNCHANGED <<phase, input, tree, work, built>>
    BY Zenon DEF vars, Open, Stop
  <2>11. \/ UNCHANGED vars \/ Load \/ SkipNode \/ TrainNode \/ BuildPartition \/ CreateFile
         \/ WriteSome \/ RunAgain \/ Open \/ Stop
    BY <2>1, Zenon DEF Next
  <2> QED BY Zenon, <2>2, <2>3, <2>4, <2>5, <2>6, <2>7, <2>8, <2>9, <2>10, <2>11
<1> QED BY <1>1, <1>2, InputsAreTyped, PTL DEF Spec

-----------------------------------------------------------------------------
(* The file on disk is the beginning of an image, and a worker serves a    *)
(* whole one.                                                              *)

IsServed(c) ==
  /\ file.size = ImageSize(ImageOf(c)) /\ c.in.scale = WorkerScale
  /\ ServedFrom(index, c)

IsWritten(c) ==
  /\ IsCertificate(c) /\ file.image = ImageOf(c) /\ file.refs = c.in.refs
  /\ file.size \in 0..ImageSize(ImageOf(c))

NoFile == file.image = << >> /\ file.size = 0 /\ worker # "serving"

FileInv ==
  /\ file = [image |-> file.image, size |-> file.size, refs |-> file.refs]
  /\ NoFile \/ \E c : IsWritten(c) /\ (worker = "serving" => IsServed(c))

LEMMA CreateWrites ==
  ASSUME FileInv, BuiltInv, InputInv, CreateFile
  PROVE  FileInv'
<1>1. phase = "train" /\ KeysToBuild = {} /\ worker # "serving" /\ worker' = worker
  BY Zenon DEF CreateFile
<1>2. file' = [image |-> Image(input, tree, built.roots, built.nodes, built.lanes), size |-> 0, refs |-> input.refs]
  BY Zenon DEF CreateFile
<1>3. PICK b, p : IsBuilt(input.refs, tree, built.roots, built.nodes, built.lanes, b, p)
  BY Zenon, <1>1 DEF BuiltInv
<1>4. IsHeap(tree)
  BY <1>1 DEF BuiltInv
<1>5. AreReferences(input.refs)
  BY <1>1, ReferencesAreReferences DEF InputInv
<1>5a. PICK c : c = [in |-> input, predicates |-> tree, roots |-> built.roots, nodes |-> built.nodes,
                     lanes |-> built.lanes, below |-> b, pos |-> p]
  OBVIOUS
<1>6. /\ c.in = input /\ c.predicates = tree /\ c.roots = built.roots /\ c.nodes = built.nodes
      /\ c.lanes = built.lanes /\ c.below = b /\ c.pos = p
  BY <1>5a
<1>7. Held(input.refs, tree, built.roots) = DOMAIN input.refs
  <2>1. ASSUME NEW i \in DOMAIN input.refs
        PROVE  \E k \in DOMAIN built.roots : built.roots[k].key = Key(tree, input.refs[i].vector)
    BY <1>1 DEF KeysToBuild, Keys
  <2> QED BY <2>1 DEF Held
<1>8. IsCertificate(c)
  BY Zenon, <1>3, <1>4, <1>5, <1>6, <1>7 DEF IsCertificate
<1>9. ImageSize(ImageOf(c)) \in Nat
  BY <1>8, HeaderFits
<1>10. ImageOf(c) = Image(input, tree, built.roots, built.nodes, built.lanes)
  BY Zenon, <1>6 DEF ImageOf
<1>11. file'.image = ImageOf(c) /\ file'.size = 0 /\ file'.refs = c.in.refs
  BY <1>2, <1>6, <1>10
<1>12. IsWritten(c)'
  <2>1. file'.size \in 0..ImageSize(ImageOf(c))
    <3>1. 0 \in 0..ImageSize(ImageOf(c))
      BY <1>9
    <3> QED BY Zenon, <1>11, <3>1
  <2> QED BY Zenon, <1>8, <1>11, <2>1 DEF IsWritten
<1>13. file' = [image |-> file'.image, size |-> file'.size, refs |-> file'.refs]
  BY <1>2
<1>14. worker' # "serving"
  BY <1>1
<1> QED BY Zenon, <1>12, <1>13, <1>14 DEF FileInv

(* No stop is beyond the end of the image.                                 *)
LEMMA StopsAreInside ==
  ASSUME NEW c, IsCertificate(c), NEW size \in Stops(ImageOf(c))
  PROVE  size \in 0..ImageSize(ImageOf(c))
<1> DEFINE img == ImageOf(c)
<1>1. IsImage(img, c.in, c.predicates, c.roots, c.nodes, c.lanes)
  BY Zenon, CertificateHasShape
<1>2. DOMAIN img = 1..9
  BY <1>1 DEF IsImage, LaidOut
<1> HIDE DEF img
<1>3. PICK n \in DOMAIN img : img[n].begin < img[n].end /\ size \in {img[n].begin + 1, img[n].end - 1, img[n].end}
  BY DEF Stops, img
<1>4. /\ ImageSize(img) \in Nat /\ img[n].begin \in Nat /\ img[n].end \in Nat /\ img[n].end <= ImageSize(img)
  <2>1. n \in 1..9
    BY <1>2
  <2>2. ImageSize(img) = img[9].end /\ img[9].end \in Nat
    BY ImageEnds DEF img
  <2>3. img[n].begin \in Nat /\ img[n].end \in Nat /\ img[n].end <= img[9].end
    BY <2>1, ImageEnds DEF img
  <2> QED BY <2>2, <2>3
<1>5. size \in 0..ImageSize(img)
  BY <1>3, <1>4
<1> QED BY <1>5 DEF img

LEMMA WriteWrites ==
  ASSUME FileInv, WriteSome
  PROVE  FileInv'
<1>1. worker' = worker /\ index' = index
  BY Zenon DEF WriteSome
<1>2. PICK size \in Stops(file.image) : file.size < size /\ file' = [file EXCEPT !.size = size]
  BY Zenon DEF WriteSome
<1>3. file = [image |-> file.image, size |-> file.size, refs |-> file.refs]
  BY Zenon DEF FileInv
<1>4. file'.image = file.image /\ file'.size = size /\ file'.refs = file.refs
  BY <1>2, <1>3
<1>5. file' = [image |-> file'.image, size |-> file'.size, refs |-> file'.refs]
  BY <1>2, <1>3
<1>6. CASE NoFile
  <2>1. DOMAIN file.image = {}
    BY <1>6 DEF NoFile
  <2>2. Stops(file.image) = {}
    BY <2>1 DEF Stops
  <2> QED BY <1>2, <2>2
<1>7. ASSUME NEW c, IsWritten(c), worker = "serving" => IsServed(c) PROVE FileInv'
  <2>1. IsCertificate(c) /\ file.image = ImageOf(c) /\ file.refs = c.in.refs /\ file.size \in 0..ImageSize(ImageOf(c))
    BY Zenon, <1>7 DEF IsWritten
  <2>2. size \in 0..ImageSize(ImageOf(c))
    BY <1>2, <2>1, StopsAreInside
  <2>3. ImageSize(ImageOf(c)) \in Nat
    BY <2>1, HeaderFits
  <2>4. worker # "serving"
    <3>1. ASSUME worker = "serving" PROVE FALSE
      <4>1. file.size = ImageSize(ImageOf(c))
        BY Zenon, <1>7, <3>1 DEF IsServed
      <4> QED BY <1>2, <2>2, <2>3, <4>1
    <3> QED BY Zenon, <3>1
  <2>5. IsWritten(c)'
    BY Zenon, <1>4, <2>1, <2>2 DEF IsWritten
  <2> QED BY Zenon, <1>1, <1>5, <2>4, <2>5 DEF FileInv
<1> QED BY Zenon, <1>6, <1>7 DEF FileInv

(* A worker opens whole files only: the last check of load is that the     *)
(* class bits, which end the image, are there.                             *)
LEMMA LoadsWhole ==
  ASSUME NEW c, IsWritten(c), Loads
  PROVE  IsWhole(c) /\ FileScale = WorkerScale /\ c.in.scale = WorkerScale
<1>1. IsCertificate(c) /\ file.image = ImageOf(c) /\ file.size \in 0..ImageSize(ImageOf(c))
  BY Zenon DEF IsWritten
<1>2. ImageSize(ImageOf(c)) \in Nat
  BY <1>1, HeaderFits
<1>3. 42 <= file.size /\ ClassBitsAt + NodeCount <= file.size /\ FileScale = WorkerScale
  BY Zenon DEF Loads, Within
<1>4. file.size \in Nat
  BY <1>1, <1>2
<1>5. /\ Shape(c.predicates, c.roots, c.nodes, c.lanes)
      /\ IsImage(ImageOf(c), c.in, c.predicates, c.roots, c.nodes, c.lanes)
  BY Zenon, <1>1, CertificateHasShape
<1>6. FileScale = c.in.scale
  BY <1>1, <1>3, <1>4, <1>5, HeaderIsRead
<1>7. ClassBitsAt + NodeCount = ImageSize(ImageOf(c))
  BY <1>1, <1>3, <1>4, <1>5, CursorsMeetTheSections
<1>8. file.size = ImageSize(ImageOf(c))
  <2> DEFINE z == ImageSize(ImageOf(c))
  <2>1. z <= file.size
    BY Zenon, <1>3, <1>7
  <2>2. z \in Nat /\ file.size \in 0..z
    BY Zenon, <1>1, <1>2
  <2> HIDE DEF z
  <2>3. file.size = z
    BY <2>1, <2>2
  <2> QED BY <2>3 DEF z
<1> QED BY Zenon, <1>1, <1>3, <1>6, <1>8 DEF IsWhole

LEMMA OpenOpens ==
  ASSUME FileInv, Open
  PROVE  FileInv'
<1>1. /\ file' = file
      /\ IF Loads THEN worker' = "serving" /\ index' = Loaded ELSE worker' = "refused" /\ index' = NotLoaded
  BY Zenon DEF Open
<1>2. CASE ~Loads
  <2>1. worker' = "refused"
    BY Zenon, <1>1, <1>2
  <2>2. worker' # "serving"
    BY <2>1
  <2> QED BY Zenon, <1>1, <2>2 DEF FileInv, NoFile, IsWritten
<1>3. CASE Loads
  <2>1. worker' = "serving" /\ index' = Loaded
    BY Zenon, <1>1, <1>3
  <2>2. ASSUME NoFile PROVE FALSE
    <3>1. file.size = 0
      BY Zenon, <2>2 DEF NoFile
    <3>2. 8 <= file.size
      BY Zenon, <1>3 DEF Loads, Within
    <3> QED BY <3>1, <3>2
  <2>3. PICK c : IsWritten(c)
    BY Zenon, <2>2 DEF FileInv
  <2>4. IsWhole(c) /\ c.in.scale = WorkerScale
    BY <1>3, <2>3, LoadsWhole
  <2>5. ServedFrom(Loaded, c)
    BY <2>4, LoadServes
  <2>6. IsServed(c)'
    BY Zenon, <1>1, <2>1, <2>4, <2>5 DEF IsServed, IsWhole
  <2>7. IsWritten(c)'
    BY Zenon, <1>1, <2>3 DEF IsWritten
  <2> QED BY Zenon, <1>1, <2>6, <2>7 DEF FileInv
<1> QED BY <1>2, <1>3

(* The file on disk is a prefix of the image of a complete index, and a    *)
(* worker that serves has mapped all of it, with the offsets, the          *)
(* predicates and the keys that preprocess laid out (CreateFile, WriteSome *)
(* and Open; inductive with BuiltInv and InputInv).                        *)
THEOREM FilesAreWritten == Spec => []FileInv
<1>1. Init => FileInv
  BY DEF Init, FileInv, NoFile
<1>2. FileInv /\ BuiltInv /\ InputInv /\ [Next]_vars => FileInv'
  <2>1. SUFFICES ASSUME FileInv, BuiltInv, InputInv, [Next]_vars PROVE FileInv'
    OBVIOUS
  <2>2. CASE CreateFile
    BY <2>1, <2>2, CreateWrites
  <2>3. CASE WriteSome
    BY <2>1, <2>3, WriteWrites
  <2>4. CASE Open
    BY <2>1, <2>4, OpenOpens
  <2>5. CASE Stop
    <3>1. file' = file /\ worker' = "down"
      BY Zenon, <2>5 DEF Stop
    <3>2. worker' # "serving"
      BY <3>1
    <3> QED BY Zenon, <2>1, <3>1, <3>2 DEF FileInv, NoFile, IsWritten
  <2>6. CASE UNCHANGED <<file, worker, index>>
    BY Zenon, <2>1, <2>6 DEF FileInv, NoFile, IsWritten, IsServed
  <2>7. UNCHANGED vars \/ Load \/ SkipNode \/ TrainNode \/ BuildPartition \/ RunAgain => UNCHANGED <<file, worker, index>>
    BY Zenon DEF vars, Load, SkipNode, TrainNode, BuildPartition, RunAgain
  <2>8. \/ UNCHANGED vars \/ Load \/ SkipNode \/ TrainNode \/ BuildPartition \/ CreateFile
        \/ WriteSome \/ RunAgain \/ Open \/ Stop
    BY <2>1, Zenon DEF Next
  <2> QED BY Zenon, <2>2, <2>3, <2>4, <2>5, <2>6, <2>7, <2>8
<1> QED BY <1>1, <1>2, InputsAreTyped, TreesAreBuilt, PTL DEF Spec

LEMMA ServingIsMapped ==
  ASSUME FileInv, worker = "serving"
  PROVE  \E c : IsWhole(c) /\ IsServed(c) /\ file.refs = c.in.refs
<1>1. PICK c : IsWritten(c) /\ IsServed(c)
  BY Zenon DEF FileInv, NoFile
<1> QED BY Zenon, <1>1 DEF IsWritten, IsServed, IsWhole

(* A worker serves from a whole file of its own scale only, wherever       *)
(* preprocess was killed and whatever it was run on before (the checks of  *)
(* load, in src/src/index/mod.rs).                                         *)
THEOREM OpenedFilesAreWhole == Spec => []OpenedIsWhole
<1>1. FileInv => OpenedIsWhole
  <2>1. SUFFICES ASSUME FileInv, worker = "serving"
                 PROVE  file.size = ImageSize(file.image) /\ FileScale = WorkerScale
    BY DEF OpenedIsWhole
  <2>2. PICK c : IsWhole(c) /\ IsServed(c)
    BY <2>1, ServingIsMapped
  <2>3. IsCertificate(c) /\ file.image = ImageOf(c) /\ file.size = ImageSize(ImageOf(c)) /\ c.in.scale = WorkerScale
    BY Zenon, <2>2 DEF IsWhole, IsServed
  <2>4. IsImage(ImageOf(c), c.in, c.predicates, c.roots, c.nodes, c.lanes)
    BY Zenon, <2>3, CertificateHasShape
  <2>5. file.size \in Nat /\ 42 <= file.size
    <3>1. ImageSize(ImageOf(c)) \in Nat /\ 42 <= ImageSize(ImageOf(c))
      BY <2>3, HeaderFits
    <3> QED BY Zenon, <2>3, <3>1
  <2>6. FileScale = c.in.scale
    BY <2>3, <2>4, <2>5, HeaderIsRead
  <2> QED BY Zenon, <2>3, <2>6
<1> QED BY <1>1, FilesAreWritten, PTL

-----------------------------------------------------------------------------
(* What a worker scans.                                                    *)

(* The lane that a position stands for.                                    *)
PlaceOf(p) == <<p \div LANES, p % LANES>>

LEMMA PositionIsSplit ==
  ASSUME NEW p \in Nat
  PROVE  /\ p \div LANES \in Nat /\ p % LANES \in 0..(LANES - 1)
         /\ (p \div LANES) * LANES + (p % LANES) = p
<1> DEFINE L == LANES
           q == p \div L
           r == p % L
<1>1. L \in Nat \ {0}
  BY IndexFileAssumption
<1>2. q \in Nat /\ r \in 0..(L - 1) /\ p = L * q + r
  <2> HIDE DEF L
  <2> QED BY <1>1
<1> HIDE DEF q, r
<1>3. q * L + r = p
  <2> HIDE DEF L
  <2> QED BY <1>1, <1>2
<1> QED BY <1>2, <1>3 DEF q, r, L

LEMMA PlacesDiffer ==
  ASSUME NEW p \in Nat, NEW q \in Nat, PlaceOf(p) = PlaceOf(q)
  PROVE  p = q
<1>1. p \div LANES = q \div LANES /\ p % LANES = q % LANES
  BY DEF PlaceOf
<1>2. (p \div LANES) * LANES + (p % LANES) = p /\ (q \div LANES) * LANES + (q % LANES) = q
  BY PositionIsSplit
<1> QED BY Zenon, <1>1, <1>2

(* The block and the lane of a row of lanes.                               *)
LEMMA PlaceIsInside ==
  ASSUME NEW l \in Nat, l % LANES = 0, NEW p \in 0..(l - 1)
  PROVE  /\ p \div LANES \in 0..((l \div LANES) - 1) /\ p % LANES \in 0..(LANES - 1)
         /\ LaneNumber(p \div LANES, p % LANES) = p + 1
<1> DEFINE L == LANES
           q == p \div L
           r == p % L
           b == l \div L
<1>1. L \in Nat \ {0} /\ b \in Nat /\ b * L = l
  BY VectorBytes, IndexFileAssumption
<1>2. q \in Nat /\ r \in 0..(L - 1) /\ q * L + r = p
  BY PositionIsSplit
<1>3. LaneNumber(q, r) = p + 1
  BY <1>2 DEF LaneNumber
<1> HIDE DEF L, q, r, b
<1>4. q < b
  <2>1. SUFFICES ASSUME b <= q PROVE FALSE
    BY <1>1, <1>2
  <2>2. b * L <= q * L
    BY <1>1, <1>2, <2>1
  <2> DEFINE x == b * L
             y == q * L
  <2>3. x \in Nat /\ y \in Nat /\ x <= y /\ x = l /\ y + r = p
    BY <1>1, <1>2, <2>2
  <2> HIDE DEF x, y
  <2> QED BY <1>1, <1>2, <2>3
<1>5. q \in 0..(b - 1)
  BY <1>1, <1>2, <1>4
<1> QED BY <1>2, <1>3, <1>5 DEF L, q, r, b

(* The lanes of a leaf whose first lane begins a block.                    *)
ScanFrom(block, len) ==
  UNION {{<<block + b, lane>> : lane \in 0..(Least(len - b * LANES, LANES) - 1)} : b \in 0..(Blocks(len) - 1)}

PlacesFrom(first, len) == {PlaceOf(p) : p \in first..(first + len - 1)}

LEMMA LeafPlaces ==
  ASSUME NEW first \in Nat, first % LANES = 0, NEW len \in Nat, NEW block, block = first \div LANES
  PROVE  ScanFrom(block, len) = PlacesFrom(first, len)
<1> DEFINE L == LANES
           B == Blocks(len)
           lanesOf(b) == {<<block + b, lane>> : lane \in 0..(Least(len - b * L, L) - 1)}
           all == UNION {lanesOf(b) : b \in 0..(B - 1)}
           places == {PlaceOf(p) : p \in first..(first + len - 1)}
<1>1. L \in Nat \ {0} /\ block \in Nat /\ block * L = first
  <2>1. first \div LANES \in Nat /\ (first \div LANES) * LANES + (first % LANES) = first
    BY PositionIsSplit
  <2>2. block * L + 0 = first /\ block \in Nat
    BY Zenon, <2>1
  <2> DEFINE y == block * L
  <2>3. y \in Nat /\ y + 0 = first
    BY <2>2, IndexFileAssumption
  <2> HIDE DEF y
  <2>4. y = first
    BY <2>3
  <2> QED BY <2>2, <2>4, IndexFileAssumption DEF y
<1>2. B \in Nat /\ len <= B * L /\ B * L < len + L /\ B * L \in Nat
  BY BlocksHold
<1> HIDE DEF L, B
<1>3. ASSUME NEW b \in 0..(B - 1), NEW lane \in 0..(Least(len - b * L, L) - 1)
      PROVE  <<block + b, lane>> \in places
  <2> DEFINE p == (block + b) * L + lane
             x == b * L
  <2>1. x \in Nat /\ p = first + x + lane /\ b \in Nat
    <3>1. b \in Nat /\ L \in Nat
      BY <1>1, <1>2
    <3>2. x \in Nat
      BY <3>1, ProductIsNat
    <3>3. (block + b) * L = block * L + b * L
      BY <1>1, <3>1
    <3>4. p = first + x + lane
      BY <1>1, <3>3
    <3> QED BY <3>1, <3>2, <3>4
  <2>2. lane \in 0..(L - 1) /\ lane < len - x
    <3> HIDE DEF x
    <3>1. lane \in 0..(Least(len - x, L) - 1)
      BY DEF x
    <3> QED BY <1>1, <2>1, <3>1 DEF Least
  <2>3. p \in first..(first + len - 1)
    <3> HIDE DEF x, p
    <3> QED BY <1>1, <2>1, <2>2
  <2>4. p % L = lane /\ p \div L = block + b
    <3> DEFINE a == block + b
    <3>1. a \in Nat /\ p = a * L + lane
      BY <1>1, <2>1
    <3> HIDE DEF a, p
    <3>2. (a * L + lane) % L = lane /\ (a * L + lane) \div L = a
      BY <1>1, <2>2, <3>1, RowAndField
    <3>3. p % L = lane /\ p \div L = a
      BY Zenon, <3>1, <3>2
    <3> QED BY Zenon, <3>3 DEF a
  <2> HIDE DEF p
  <2>5. PlaceOf(p) = <<block + b, lane>>
    BY Zenon, <2>4 DEF PlaceOf, L
  <2> QED BY <2>3, <2>5
<1>4. ASSUME NEW p \in first..(first + len - 1)
      PROVE  \E b \in 0..(B - 1) : PlaceOf(p) \in lanesOf(b)
  <2> DEFINE q == p \div L
             lane == p % L
             b == q - block
             x == b * L
  <2>1. p \in Nat /\ q \in Nat /\ lane \in 0..(L - 1) /\ q * L + lane = p
    <3>1. p \in Nat
      OBVIOUS
    <3> QED BY <3>1, PositionIsSplit DEF L
  <2> HIDE DEF q, lane
  <2>2. x = q * L - block * L
    BY <1>1, <2>1
  <2> DEFINE y == q * L
             z == B * L
  <2>3. y \in Nat /\ x = y - first /\ y + lane = p /\ z \in Nat /\ len <= z
    <3>1. y \in Nat
      BY <1>1, <2>1, ProductIsNat
    <3> QED BY <1>1, <1>2, <2>1, <2>2, <3>1
  <2>4. b \in Int /\ x = b * L
    BY <1>1, <2>1
  <2>5. x > -L /\ x < z
    <3> HIDE DEF x, y, z
    <3> QED BY <1>1, <2>1, <2>3
  <2>6. b >= 0
    <3>1. SUFFICES ASSUME b <= -1 PROVE FALSE
      BY <2>4
    <3> HIDE DEF b
    <3>2. b * L <= -L
      BY <1>1, <2>4, <3>1
    <3> DEFINE w == b * L
    <3>3. w \in Int /\ w <= -L /\ w > -L
      BY <1>1, <2>4, <2>5, <3>2
    <3> HIDE DEF w
    <3> QED BY <1>1, <3>3
  <2>7. b <= B - 1
    <3>1. SUFFICES ASSUME B <= b PROVE FALSE
      BY <1>2, <2>4
    <3> HIDE DEF b
    <3>2. B * L <= b * L
      BY <1>1, <1>2, <2>4, <3>1
    <3> DEFINE w == b * L
    <3>3. w \in Int /\ z <= w /\ w < z /\ z \in Nat
      BY <1>1, <2>3, <2>4, <2>5, <3>2
    <3> HIDE DEF w, z
    <3> QED BY <3>3
  <2>8. lane \in 0..(Least(len - x, L) - 1)
    <3>1. lane < len - x
      <4> HIDE DEF x, y
      <4> QED BY <1>1, <2>1, <2>3
    <3>2. x \in Int
      BY <2>3
    <3> HIDE DEF x
    <3> QED BY <1>1, <2>1, <3>1, <3>2 DEF Least
  <2>9. block + b = q
    BY <1>1, <2>1
  <2>10. PlaceOf(p) = <<block + b, lane>>
    BY Zenon, <2>9 DEF PlaceOf, q, lane, L
  <2>11. b \in 0..(B - 1)
    BY <1>2, <2>4, <2>6, <2>7
  <2> HIDE DEF b
  <2>12. PlaceOf(p) \in lanesOf(b)
    BY <2>8, <2>10
  <2> QED BY <2>11, <2>12
<1>5. all = places
  <2>1. \A x \in all : x \in places
    BY <1>3
  <2>2. \A x \in places : x \in all
    BY <1>4
  <2> HIDE DEF all, places
  <2> QED BY <2>1, <2>2
<1> QED BY Zenon, <1>5 DEF L, B, ScanFrom, PlacesFrom

(* The nodes of a certificate, from 0, and the references' lanes.          *)
LEMMA CertificateHolds ==
  ASSUME NEW c, IsCertificate(c)
  PROVE  /\ \A n \in 0..(Len(c.nodes) - 1) :
              /\ IsNode(c.in.refs, c.nodes[n + 1], n, Len(c.nodes) - 1, c.below, c.pos)
              /\ c.below[n] \subseteq DOMAIN c.in.refs
         /\ \A i \in DOMAIN c.in.refs : /\ c.pos[i] \in 0..(Len(c.lanes) - 1)
                                        /\ c.lanes[c.pos[i] + 1] = LaneOf(c.in.refs, i)
<1> DEFINE refs == c.in.refs
           nodes == c.nodes
           lanes == c.lanes
           N == Len(nodes)
           L == Len(lanes)
           S == DOMAIN refs
           pos == c.pos
           below == c.below
<1>1. Forest(refs, S, nodes, lanes, 0, 0, below, pos)
  <2>1. Held(refs, c.predicates, c.roots) = S
    BY Zenon DEF IsCertificate
  <2>2. Forest(refs, Held(refs, c.predicates, c.roots), nodes, lanes, 0, 0, below, pos)
    BY Zenon DEF IsCertificate, IsBuilt
  <2> HIDE DEF S
  <2> QED BY Zenon, <2>1, <2>2
<1>2. N \in Nat /\ L \in Nat
  BY CertificateIsTyped
<1> HIDE DEF refs, nodes, lanes, N, L, S, pos, below
<1>3. /\ pos \in [S -> Nat]
      /\ \A i \in S : 0 <= pos[i] /\ pos[i] < 0 + L /\ lanes[pos[i] - 0 + 1] = LaneOf(refs, i)
  BY Zenon, <1>1 DEF Forest, L
<1>4. below \in [0..(0 + N - 1) -> SUBSET S]
  BY Zenon, <1>1 DEF Forest, N
<1>5. \A k \in 1..N : IsNode(refs, nodes[k], 0 + k - 1, 0 + N - 1, below, pos)
  BY Zenon, <1>1 DEF Forest, N
<1>6. ASSUME NEW n \in 0..(N - 1)
      PROVE  IsNode(refs, nodes[n + 1], n, N - 1, below, pos) /\ below[n] \subseteq S
  <2>1. n + 1 \in 1..N /\ 0 + (n + 1) - 1 = n /\ 0 + N - 1 = N - 1 /\ n \in 0..(0 + N - 1)
    BY <1>2
  <2>2. IsNode(refs, nodes[n + 1], 0 + (n + 1) - 1, 0 + N - 1, below, pos)
    BY Zenon, <1>5, <2>1
  <2>3. IsNode(refs, nodes[n + 1], n, N - 1, below, pos)
    BY Zenon, <2>1, <2>2
  <2>4. below[n] \in SUBSET S
    BY Zenon, <1>4, <2>1
  <2> QED BY <2>3, <2>4
<1>7. ASSUME NEW i \in S PROVE pos[i] \in 0..(L - 1) /\ lanes[pos[i] + 1] = LaneOf(refs, i)
  <2> DEFINE p == pos[i]
  <2>1. p \in Nat /\ p < 0 + L /\ lanes[p - 0 + 1] = LaneOf(refs, i)
    BY <1>3
  <2> HIDE DEF p
  <2>2. p \in 0..(L - 1) /\ p - 0 + 1 = p + 1
    BY <1>2, <2>1
  <2> QED BY Zenon, <2>1, <2>2 DEF p
<1> QED BY Zenon, <1>6, <1>7 DEF refs, nodes, lanes, N, L, S, pos, below

(* The lanes of references.                                                *)
Placed(c, S) == {PlaceOf(c.pos[i]) : i \in S}

LEMMA LanesOfLeaf ==
  ASSUME NEW c, IsMapped(c), NEW n \in 0..(Len(c.nodes) - 1), c.nodes[n + 1].left = -1
  PROVE  LanesOf(n) = Placed(c, c.below[n])
<1> DEFINE e == c.nodes[n + 1]
           S == c.below[n]
           first == e.start
           len == e.len
           block == first \div LANES
<1>1. IsCertificate(c)
  BY DEF IsMapped, IsWhole
<1>2. IsNode(c.in.refs, e, n, Len(c.nodes) - 1, c.below, c.pos)
  BY <1>1, CertificateHolds
<1>3. Len(c.nodes) \in Nat /\ n + 1 \in 1..Len(c.nodes) /\ e \in Entry
  BY <1>1, CertificateIsTyped
<1>4. first \in Nat /\ len \in Nat
  BY <1>3 DEF Entry
<1>5. first % LANES = 0 /\ {c.pos[i] : i \in S} = first..(first + len - 1)
  <2>1. ASSUME e.left \in (n + 1)..(Len(c.nodes) - 1) PROVE FALSE
    <3> HIDE DEF e
    <3>1. e.left = -1
      BY DEF e
    <3> QED BY <2>1, <3>1
  <2> QED BY Zenon, <1>2, <2>1 DEF IsNode
<1>6. NodeStart(n) = block /\ NodeLen(n) = len
  <2>1. IsMappedNode(n, e)
    BY NodesAreMapped
  <2> QED BY Zenon, <2>1 DEF IsMappedNode
<1>7. ScanFrom(block, len) = PlacesFrom(first, len)
  <2> HIDE DEF first, len
  <2>1. block = first \div LANES
    OBVIOUS
  <2> HIDE DEF block
  <2> QED BY <1>4, <1>5, <2>1, LeafPlaces
<1> HIDE DEF e, S, first, len
<1>8. LanesOf(n) = ScanFrom(block, len)
  BY <1>6 DEF LanesOf, ScanFrom
<1>9. PlacesFrom(first, len) = {PlaceOf(c.pos[i]) : i \in S}
  <2> DEFINE P == first..(first + len - 1)
  <2>1. P = {c.pos[i] : i \in S}
    BY <1>5
  <2> HIDE DEF P
  <2>2. {PlaceOf(p) : p \in P} = {PlaceOf(c.pos[i]) : i \in S}
    BY <2>1
  <2> QED BY <2>2 DEF P, PlacesFrom
<1> QED BY Zenon, <1>7, <1>8, <1>9 DEF Placed, S

(* What lies below each node, as the worker collects it.                   *)
IsBelow(f) ==
  f = [n \in 0..(index.nodeCount - 1) |->
         IF NodeLeft(n) < 0 \/ NodeRight(n) < 0 THEN LanesOf(n) ELSE f[NodeLeft(n)] \union f[NodeRight(n)]]

IsPlacing(f, c) == \A n \in 0..(Len(c.nodes) - 1) : f[n] = Placed(c, c.below[n])

LEMMA PlacedUnion ==
  ASSUME NEW c, NEW A, NEW B
  PROVE  Placed(c, A \union B) = Placed(c, A) \union Placed(c, B)
BY DEF Placed

(* A node is a leaf, or holds what two later nodes hold.                   *)
LEMMA BelowNode ==
  ASSUME NEW c, IsMapped(c), NEW n \in 0..(Len(c.nodes) - 1)
  PROVE  \/ /\ NodeLeft(n) < 0
            /\ LanesOf(n) = Placed(c, c.below[n])
         \/ /\ NodeLeft(n) \in (n + 1)..(Len(c.nodes) - 1)
            /\ NodeRight(n) \in (n + 1)..(Len(c.nodes) - 1)
            /\ Placed(c, c.below[n]) = Placed(c, c.below[NodeLeft(n)]) \union Placed(c, c.below[NodeRight(n)])
<1> DEFINE e == c.nodes[n + 1]
<1>1. IsCertificate(c)
  BY DEF IsMapped, IsWhole
<1>2. IsNode(c.in.refs, e, n, Len(c.nodes) - 1, c.below, c.pos)
  BY <1>1, CertificateHolds
<1>3. IsMappedNode(n, e)
  BY NodesAreMapped
<1>4. NodeLeft(n) = e.left /\ NodeRight(n) = e.right
  BY Zenon, <1>3 DEF IsMappedNode
<1>5. CASE e.left = -1
  <2>1. LanesOf(n) = Placed(c, c.below[n])
    BY <1>5, LanesOfLeaf
  <2> HIDE DEF e
  <2>2. NodeLeft(n) < 0
    BY <1>4, <1>5
  <2> QED BY <2>1, <2>2
<1>6. CASE e.left # -1
  <2> HIDE DEF e
  <2>1. /\ e.left \in (n + 1)..(Len(c.nodes) - 1) /\ e.right \in (n + 1)..(Len(c.nodes) - 1)
        /\ c.below[n] = c.below[e.left] \union c.below[e.right]
    BY Zenon, <1>2, <1>6 DEF IsNode
  <2>2. Placed(c, c.below[n]) = Placed(c, c.below[e.left]) \union Placed(c, c.below[e.right])
    <3> DEFINE A == c.below[e.left]
               B == c.below[e.right]
    <3>1. c.below[n] = A \union B
      BY <2>1
    <3> HIDE DEF A, B
    <3>2. Placed(c, A \union B) = Placed(c, A) \union Placed(c, B)
      BY PlacedUnion
    <3>3. Placed(c, c.below[n]) = Placed(c, A) \union Placed(c, B)
      BY Zenon, <3>1, <3>2
    <3> QED BY Zenon, <3>3 DEF A, B
  <2> QED BY Zenon, <1>4, <2>1, <2>2
<1> QED BY <1>5, <1>6

LEMMA BelowExists ==
  ASSUME NEW c, IsMapped(c)
  PROVE  \E f : IsBelow(f)
<1> DEFINE N == Len(c.nodes)
           f == [n \in 0..(N - 1) |-> Placed(c, c.below[n])]
<1>1. index.nodeCount = N
  BY Zenon DEF IsMapped, HasOffsets
<1>2. N \in Nat
  BY CertificateIsTyped DEF IsMapped, IsWhole
<1>3. ASSUME NEW n \in 0..(N - 1)
      PROVE  f[n] = IF NodeLeft(n) < 0 \/ NodeRight(n) < 0 THEN LanesOf(n) ELSE f[NodeLeft(n)] \union f[NodeRight(n)]
  <2> DEFINE l == NodeLeft(n)
             r == NodeRight(n)
             here == LanesOf(n)
             S == Placed(c, c.below[n])
  <2>1. \/ l < 0 /\ here = S
        \/ /\ l \in (n + 1)..(N - 1) /\ r \in (n + 1)..(N - 1)
           /\ S = Placed(c, c.below[l]) \union Placed(c, c.below[r])
    BY BelowNode
  <2>2. f[n] = S
    OBVIOUS
  <2> HIDE DEF l, r, here, S
  <2>3. CASE l < 0 /\ here = S
    <3>1. f[n] = IF l < 0 \/ r < 0 THEN here ELSE f[l] \union f[r]
      BY <2>2, <2>3
    <3> QED BY Zenon, <3>1 DEF l, r, here
  <2>4. CASE /\ l \in (n + 1)..(N - 1) /\ r \in (n + 1)..(N - 1)
             /\ S = Placed(c, c.below[l]) \union Placed(c, c.below[r])
    <3> HIDE DEF N
    <3>1. l \in 0..(N - 1) /\ r \in 0..(N - 1) /\ ~(l < 0) /\ ~(r < 0)
      BY <1>2, <2>4
    <3>2. f[l] = Placed(c, c.below[l]) /\ f[r] = Placed(c, c.below[r])
      BY Zenon, <3>1
    <3> HIDE DEF f
    <3>3. f[n] = f[l] \union f[r]
      BY Zenon, <2>2, <2>4, <3>2
    <3>4. f[n] = IF l < 0 \/ r < 0 THEN here ELSE f[l] \union f[r]
      BY Zenon, <3>1, <3>3
    <3> QED BY Zenon, <3>4 DEF l, r, here
  <2> QED BY <2>1, <2>3, <2>4
<1>4. f = [n \in 0..(index.nodeCount - 1) |->
             IF NodeLeft(n) < 0 \/ NodeRight(n) < 0 THEN LanesOf(n) ELSE f[NodeLeft(n)] \union f[NodeRight(n)]]
  <2> DEFINE g(n) == IF NodeLeft(n) < 0 \/ NodeRight(n) < 0 THEN LanesOf(n) ELSE f[NodeLeft(n)] \union f[NodeRight(n)]
  <2>1. \A n \in 0..(N - 1) : f[n] = g(n)
    BY Zenon, <1>3
  <2>2. f = [n \in 0..(N - 1) |-> f[n]]
    BY Zenon
  <2> HIDE DEF f, g, N
  <2>3. f = [n \in 0..(N - 1) |-> g(n)]
    BY Zenon, <2>1, <2>2
  <2>4. f = [n \in 0..(index.nodeCount - 1) |-> g(n)]
    BY Zenon, <1>1, <2>3
  <2> QED BY Zenon, <2>4 DEF g
<1> HIDE DEF f
<1>5. IsBelow(f)
  BY Zenon, <1>4 DEF IsBelow
<1> QED BY <1>5

LEMMA BelowIsPlacing ==
  ASSUME NEW c, IsMapped(c), NEW f, IsBelow(f)
  PROVE  IsPlacing(f, c)
<1> DEFINE N == Len(c.nodes)
           T == {k \in Nat : \A n \in 0..(N - 1) : N - n <= k => f[n] = Placed(c, c.below[n])}
<1>1. index.nodeCount = N
  BY Zenon DEF IsMapped, HasOffsets
<1>2. N \in Nat
  BY CertificateIsTyped DEF IsMapped, IsWhole
<1>3. \A n \in 0..(N - 1) :
        f[n] = IF NodeLeft(n) < 0 \/ NodeRight(n) < 0 THEN LanesOf(n) ELSE f[NodeLeft(n)] \union f[NodeRight(n)]
  <2>1. f = [n \in 0..(N - 1) |->
               IF NodeLeft(n) < 0 \/ NodeRight(n) < 0 THEN LanesOf(n) ELSE f[NodeLeft(n)] \union f[NodeRight(n)]]
    BY Zenon, <1>1 DEF IsBelow
  <2> QED BY Zenon, <2>1
<1>4. \A n \in 0..(N - 1) :
        \/ /\ NodeLeft(n) < 0
           /\ LanesOf(n) = Placed(c, c.below[n])
        \/ /\ NodeLeft(n) \in (n + 1)..(N - 1)
           /\ NodeRight(n) \in (n + 1)..(N - 1)
           /\ Placed(c, c.below[n]) = Placed(c, c.below[NodeLeft(n)]) \union Placed(c, c.below[NodeRight(n)])
  BY BelowNode
<1> HIDE DEF N
<1>5. 0 \in T
  BY <1>2
<1>6. ASSUME NEW k \in Nat, k \in T PROVE k + 1 \in T
  <2>1. SUFFICES ASSUME NEW n \in 0..(N - 1), N - n <= k + 1 PROVE f[n] = Placed(c, c.below[n])
    OBVIOUS
  <2> DEFINE l == NodeLeft(n)
             r == NodeRight(n)
             here == LanesOf(n)
  <2>2. f[n] = IF l < 0 \/ r < 0 THEN here ELSE f[l] \union f[r]
    BY <1>3
  <2>3. \/ l < 0 /\ here = Placed(c, c.below[n])
        \/ /\ l \in (n + 1)..(N - 1) /\ r \in (n + 1)..(N - 1)
           /\ Placed(c, c.below[n]) = Placed(c, c.below[l]) \union Placed(c, c.below[r])
    BY <1>4
  <2> HIDE DEF l, r, here
  <2>4. CASE l < 0 /\ here = Placed(c, c.below[n])
    BY Zenon, <2>2, <2>4
  <2>5. CASE /\ l \in (n + 1)..(N - 1) /\ r \in (n + 1)..(N - 1)
             /\ Placed(c, c.below[n]) = Placed(c, c.below[l]) \union Placed(c, c.below[r])
    <3>1. l \in 0..(N - 1) /\ r \in 0..(N - 1) /\ ~(l < 0) /\ ~(r < 0) /\ N - l <= k /\ N - r <= k
      BY <1>2, <2>1, <2>5
    <3>2. f[l] = Placed(c, c.below[l]) /\ f[r] = Placed(c, c.below[r])
      BY <1>6, <3>1
    <3> QED BY Zenon, <2>2, <2>5, <3>1, <3>2
  <2> QED BY <2>3, <2>4, <2>5
<1> HIDE DEF T
<1>7. N \in T
  BY <1>2, <1>5, <1>6, AllNumbers
<1>8. \A n \in 0..(N - 1) : f[n] = Placed(c, c.below[n])
  BY <1>2, <1>7 DEF T
<1> QED BY Zenon, <1>8 DEF IsPlacing, N

(* The lanes below a node are those of the references below it.            *)
LEMMA LanesBelowAre ==
  ASSUME NEW c, IsMapped(c), NEW n \in 0..(Len(c.nodes) - 1)
  PROVE  LanesBelow(n) = Placed(c, c.below[n])
<1> DEFINE f == CHOOSE f : IsBelow(f)
<1>1. IsBelow(f)
  BY BelowExists
<1>2. LanesBelow(n) = f[n]
  BY Zenon DEF LanesBelow, IsBelow
<1> HIDE DEF f
<1>3. IsPlacing(f, c)
  BY <1>1, BelowIsPlacing
<1> QED BY Zenon, <1>2, <1>3 DEF IsPlacing

(* What is read in some lanes, and what was written of some references.    *)
ReadIn(lanes) == {ScannedLane(l[1], l[2]) : l \in lanes}

ServedOf(refs, S) == {Scanned(LaneOf(refs, i)) : i \in S}

LEMMA ReferenceIsScanned ==
  ASSUME NEW c, IsMapped(c), NEW i \in DOMAIN c.in.refs, NEW l, l = PlaceOf(c.pos[i])
  PROVE  ScannedLane(l[1], l[2]) = Scanned(LaneOf(c.in.refs, i))
<1> DEFINE N == Len(c.lanes)
           p == c.pos[i]
           block == p \div LANES
           lane == p % LANES
<1>1. IsCertificate(c)
  BY DEF IsMapped, IsWhole
<1>2. N \in Nat /\ N % LANES = 0
  BY <1>1, CertificateIsTyped
<1>3. p \in 0..(N - 1) /\ c.lanes[p + 1] = LaneOf(c.in.refs, i)
  BY <1>1, CertificateHolds
<1>4. l[1] = block /\ l[2] = lane
  BY DEF PlaceOf
<1> HIDE DEF p
<1>5. block \in 0..((N \div LANES) - 1) /\ lane \in 0..(LANES - 1) /\ LaneNumber(block, lane) = p + 1
  <2> HIDE DEF N
  <2> QED BY <1>2, <1>3, PlaceIsInside
<1> HIDE DEF block, lane
<1>6. ScannedLane(block, lane) = Scanned(c.lanes[LaneNumber(block, lane)])
  BY <1>5, LanesAreMapped
<1> QED BY Zenon, <1>3, <1>4, <1>5, <1>6

LEMMA ReferencesAreScanned ==
  ASSUME NEW c, IsMapped(c), NEW S, S \subseteq DOMAIN c.in.refs
  PROVE  ReadIn(Placed(c, S)) = ServedOf(c.in.refs, S)
<1>1. \A i \in S : LET l == PlaceOf(c.pos[i]) IN ScannedLane(l[1], l[2]) = Scanned(LaneOf(c.in.refs, i))
  <2>1. ASSUME NEW i \in S, NEW l, l = PlaceOf(c.pos[i])
        PROVE  ScannedLane(l[1], l[2]) = Scanned(LaneOf(c.in.refs, i))
    <3>1. i \in DOMAIN c.in.refs
      OBVIOUS
    <3> QED BY Zenon, <3>1, <2>1, ReferenceIsScanned
  <2> QED BY <2>1
<1>2. ASSUME NEW x \in ReadIn(Placed(c, S)) PROVE x \in ServedOf(c.in.refs, S)
  <2>1. PICK l \in Placed(c, S) : x = ScannedLane(l[1], l[2])
    BY Zenon DEF ReadIn
  <2>2. PICK i \in S : l = PlaceOf(c.pos[i])
    BY Zenon DEF Placed
  <2>3. x = Scanned(LaneOf(c.in.refs, i))
    BY Zenon, <1>1, <2>1, <2>2
  <2> QED BY Zenon, <2>3 DEF ServedOf
<1>3. ASSUME NEW x \in ServedOf(c.in.refs, S) PROVE x \in ReadIn(Placed(c, S))
  <2>1. PICK i \in S : x = Scanned(LaneOf(c.in.refs, i))
    BY Zenon DEF ServedOf
  <2> DEFINE l == PlaceOf(c.pos[i])
  <2>2. l \in Placed(c, S)
    BY Zenon DEF Placed
  <2>3. x = ScannedLane(l[1], l[2])
    BY <1>1, <2>1
  <2> HIDE DEF l
  <2> QED BY Zenon, <2>2, <2>3 DEF ReadIn
<1> QED BY <1>2, <1>3

-----------------------------------------------------------------------------
(* The theorems of the mapped file.                                        *)

(* The box and the class bits of a node are right for what lies below it.  *)
IsSoundNode(n) ==
  LET below == ReadIn(LanesBelow(n))
      low == NodeMin(n)
      high == NodeMax(n)
  IN  /\ \A lane \in below, d \in 1..Dims : low[d] <= lane.vector[d] /\ lane.vector[d] <= high[d]
      /\ NodeClassBits(n) = Bits({lane.label : lane \in below})

LEMMA NodesAreSound ==
  ASSUME NEW c, IsMapped(c), NEW n \in 0..(Len(c.nodes) - 1)
  PROVE  IsSoundNode(n)
<1> DEFINE e == c.nodes[n + 1]
           S == c.below[n]
           refs == c.in.refs
           below == ServedOf(refs, S)
           low == BoxLow(refs, S)
           high == BoxHigh(refs, S)
<1>1. IsCertificate(c) /\ AreReferences(refs)
  BY Zenon DEF IsMapped, IsWhole, IsCertificate
<1>2. IsNode(refs, e, n, Len(c.nodes) - 1, c.below, c.pos) /\ S \subseteq DOMAIN refs
  BY <1>1, CertificateHolds
<1>3. S # {} /\ e.min = low /\ e.max = high /\ e.classBits = Bits(ClassBits(refs, S))
  BY Zenon, <1>2 DEF IsNode
<1>4. IsMappedNode(n, e)
  BY NodesAreMapped
<1>5. NodeMin(n) = low /\ NodeMax(n) = high /\ NodeClassBits(n) = Bits(ClassBits(refs, S))
  BY Zenon, <1>3, <1>4 DEF IsMappedNode
<1>6. ReadIn(LanesBelow(n)) = below
  <2>1. LanesBelow(n) = Placed(c, S)
    BY LanesBelowAre
  <2>2. ReadIn(Placed(c, S)) = below
    BY <1>2, ReferencesAreScanned
  <2> QED BY Zenon, <2>1, <2>2
<1> HIDE DEF S, refs
<1>7. ASSUME NEW i \in S, NEW d \in 1..Dims, NEW x, x = Scanned(LaneOf(refs, i))
      PROVE  low[d] <= x.vector[d] /\ x.vector[d] <= high[d]
  <2>1. d \in 1..PACKED_DIMS
    BY DimensionsAre
  <2>2. x.vector[d] = refs[i].vector[d]
    BY <1>7 DEF Scanned, LaneOf
  <2>3. Lowest(refs, S, d) <= refs[i].vector[d] /\ refs[i].vector[d] <= Highest(refs, S, d)
    BY <1>1, <1>2, <1>3, <2>1, BoxBounds
  <2>4. low[d] = Lowest(refs, S, d) /\ high[d] = Highest(refs, S, d)
    BY Zenon, <2>1 DEF BoxLow, BoxHigh
  <2> QED BY Zenon, <2>2, <2>3, <2>4
<1>8. ASSUME NEW lane \in below, NEW d \in 1..Dims
      PROVE  low[d] <= lane.vector[d] /\ lane.vector[d] <= high[d]
  <2>1. PICK i \in S : lane = Scanned(LaneOf(refs, i))
    BY Zenon DEF ServedOf
  <2> HIDE DEF low, high
  <2> QED BY Zenon, <1>7, <2>1
<1>9. {lane.label : lane \in below} = ClassBits(refs, S)
  <2>1. \A i \in S : Scanned(LaneOf(refs, i)).label = refs[i].label
    BY DEF Scanned, LaneOf
  <2>2. ASSUME NEW x \in ClassBits(refs, S) PROVE x \in {lane.label : lane \in below}
    <3>1. PICK i \in S : x = refs[i].label
      BY Zenon DEF ClassBits
    <3>2. Scanned(LaneOf(refs, i)) \in below
      BY Zenon DEF ServedOf
    <3>3. x = Scanned(LaneOf(refs, i)).label
      BY Zenon, <2>1, <3>1
    <3> HIDE DEF below
    <3> QED BY Zenon, <3>2, <3>3
  <2>3. ASSUME NEW x \in {lane.label : lane \in below} PROVE x \in ClassBits(refs, S)
    <3>1. PICK lane \in below : x = lane.label
      BY Zenon
    <3>2. PICK i \in S : lane = Scanned(LaneOf(refs, i))
      BY Zenon DEF ServedOf
    <3>3. x = refs[i].label
      BY Zenon, <2>1, <3>1, <3>2
    <3> QED BY Zenon, <3>3 DEF ClassBits
  <2> HIDE DEF below
  <2> QED BY <2>2, <2>3
<1> HIDE DEF low, high, below
<1>10. NodeClassBits(n) = Bits({lane.label : lane \in below})
  BY Zenon, <1>5, <1>9
<1>11. \A lane \in ReadIn(LanesBelow(n)), d \in 1..Dims :
         NodeMin(n)[d] <= lane.vector[d] /\ lane.vector[d] <= NodeMax(n)[d]
  BY Zenon, <1>5, <1>6, <1>8
<1>12. NodeClassBits(n) = Bits({lane.label : lane \in ReadIn(LanesBelow(n))})
  BY Zenon, <1>6, <1>10
<1> QED BY Zenon, <1>11, <1>12 DEF IsSoundNode

(* A partition has the box of its root.                                    *)
LEMMA PartitionsAreSound ==
  ASSUME NEW c, IsMapped(c), NEW p \in 0..(Len(c.roots) - 1)
  PROVE  PartitionMin(p) = NodeMin(PartitionRoot(p)) /\ PartitionMax(p) = NodeMax(PartitionRoot(p))
<1> DEFINE r == c.roots[p + 1]
           e == c.nodes[r.root + 1]
<1>1. IsCertificate(c)
  BY DEF IsMapped, IsWhole
<1>2. r.root \in 0..(Len(c.nodes) - 1)
  <2>1. Len(c.roots) \in Nat /\ \A k \in 1..Len(c.roots) : c.roots[k].root \in 0..(Len(c.nodes) - 1)
    BY <1>1, CertificateIsTyped
  <2>2. p + 1 \in 1..Len(c.roots)
    BY <2>1
  <2> QED BY Zenon, <2>1, <2>2
<1>3. IsMappedPartition(p, r, e)
  BY PartitionsAreServed
<1>4. IsMappedNode(r.root, e)
  BY <1>2, NodesAreMapped
<1> HIDE DEF r, e
<1> QED BY Zenon, <1>3, <1>4 DEF IsMappedPartition, IsMappedNode

(* A worker that serves reads boxes that bound what lies below them, class *)
(* bits of the labels there are, and partitions with the box of their root *)
(* (src/src/index/build.rs writes them, src/src/index/layout.rs reads them *)
(* by offset, for whatever references, tree and scale).                    *)
THEOREM ServedTreesAreSound == Spec => []MappedTreeIsSound
<1>1. FileInv => MappedTreeIsSound
  <2>1. SUFFICES ASSUME FileInv, worker = "serving"
                 PROVE  /\ \A n \in 0..(index.nodeCount - 1) : IsSoundNode(n)
                        /\ \A p \in 0..(index.partitionCount - 1) :
                             /\ PartitionMin(p) = NodeMin(PartitionRoot(p))
                             /\ PartitionMax(p) = NodeMax(PartitionRoot(p))
    BY Zenon DEF MappedTreeIsSound, IsSoundNode, ReadIn
  <2>2. PICK c : IsWhole(c) /\ IsServed(c)
    BY <2>1, ServingIsMapped
  <2>3. IsMapped(c)
    BY Zenon, <2>2 DEF IsMapped, IsServed, ServedFrom
  <2>4. index.nodeCount = Len(c.nodes) /\ index.partitionCount = Len(c.roots)
    BY Zenon, <2>3 DEF IsMapped, HasOffsets
  <2>5. \A n \in 0..(index.nodeCount - 1) : IsSoundNode(n)
    BY Zenon, <2>3, <2>4, NodesAreSound
  <2>6. \A p \in 0..(index.partitionCount - 1) :
          /\ PartitionMin(p) = NodeMin(PartitionRoot(p))
          /\ PartitionMax(p) = NodeMax(PartitionRoot(p))
    BY Zenon, <2>3, <2>4, PartitionsAreSound
  <2> QED BY <2>5, <2>6
<1> QED BY <1>1, FilesAreWritten, PTL

(* Two references never share a lane.                                      *)
LEMMA PlacesOfReferencesDiffer ==
  ASSUME NEW c, IsCertificate(c), NEW i \in DOMAIN c.in.refs, NEW j \in DOMAIN c.in.refs,
         PlaceOf(c.pos[i]) = PlaceOf(c.pos[j])
  PROVE  i = j
<1> DEFINE p == c.pos[i]
           q == c.pos[j]
           refs == c.in.refs
<1>1. /\ p \in 0..(Len(c.lanes) - 1) /\ c.lanes[p + 1] = LaneOf(refs, i)
      /\ q \in 0..(Len(c.lanes) - 1) /\ c.lanes[q + 1] = LaneOf(refs, j)
  BY CertificateHolds
<1>2. p \in Nat /\ q \in Nat /\ PlaceOf(p) = PlaceOf(q)
  BY <1>1
<1> HIDE DEF p, q, refs
<1>3. p = q
  BY <1>2, PlacesDiffer
<1>4. LaneOf(refs, i) = LaneOf(refs, j)
  BY Zenon, <1>1, <1>3
<1>5. LaneOf(refs, i).index = i /\ LaneOf(refs, j).index = j
  BY DEF LaneOf
<1> QED BY Zenon, <1>4, <1>5

LEMMA AsManyPlaces ==
  ASSUME NEW c, IsCertificate(c), NEW S, S \subseteq DOMAIN c.in.refs
  PROVE  Cardinality(Placed(c, S)) = Cardinality(S)
<1> DEFINE f == [i \in S |-> PlaceOf(c.pos[i])]
           T == Placed(c, S)
<1>1. IsFiniteSet(S)
  <2>1. AreReferences(c.in.refs)
    BY DEF IsCertificate
  <2> QED BY <2>1, PositionsAreFinite
<1>2. f \in [S -> T]
  BY DEF Placed
<1>3. \A i, j \in S : f[i] = f[j] => i = j
  BY PlacesOfReferencesDiffer
<1>4. \A x \in T : \E i \in S : f[i] = x
  BY DEF Placed
<1> HIDE DEF f, T
<1>5. DOMAIN f = S
  BY <1>2
<1>6. f \in Bijection(S, T)
  BY <1>2, <1>3, <1>4, <1>5 DEF Bijection, Injection, Surjection, IsInjective
<1>7. ExistsBijection(S, T)
  BY Zenon, <1>6 DEF ExistsBijection
<1>8. Cardinality(T) = Cardinality(S)
  BY <1>1, <1>7, FS_Bijection
<1> QED BY <1>8 DEF T

(* The lanes that are scanned for a key, and the references that have it.  *)
LanesFor(key) == IF PartitionOf(key) = -1 THEN {} ELSE LanesBelow(PartitionRoot(PartitionOf(key)))

LEMMA KeyIsServed ==
  ASSUME NEW c, IsMapped(c), IsKeyTable(index.keyToPartition, c.roots), NEW key \in 0..(KEY_LOOKUP_SIZE - 1)
  PROVE  LanesFor(key) = Placed(c, Partition(c.in.refs, c.predicates, key))
<1> DEFINE p == PartitionOf(key)
           roots == c.roots
           mine == Partition(c.in.refs, c.predicates, key)
<1>1. IsCertificate(c)
  BY DEF IsMapped, IsWhole
<1>2. p = index.keyToPartition[key]
  <2>1. key < KEY_LOOKUP_SIZE
    BY IndexFileAssumption
  <2> QED BY Zenon, <2>1 DEF PartitionOf
<1>3. \/ p = -1 /\ \A k \in 1..Len(roots) : roots[k].key # key
      \/ p \in 0..(Len(roots) - 1) /\ roots[p + 1].key = key
  BY Zenon, <1>2 DEF IsKeyTable
<1>4. Len(roots) \in Nat /\ DOMAIN roots = 1..Len(roots)
  BY <1>1, CertificateIsTyped
<1>5. AreRoots(c.in.refs, c.predicates, roots, c.nodes, c.below) /\ Held(c.in.refs, c.predicates, roots) = DOMAIN c.in.refs
  BY Zenon, <1>1 DEF IsCertificate, IsBuilt
<1>6. CASE p = -1 /\ \A k \in 1..Len(roots) : roots[k].key # key
  <2>1. ASSUME NEW i \in mine PROVE FALSE
    <3>1. i \in DOMAIN c.in.refs /\ Key(c.predicates, c.in.refs[i].vector) = key
      BY Zenon DEF Partition
    <3>2. PICK k \in DOMAIN roots : roots[k].key = Key(c.predicates, c.in.refs[i].vector)
      BY Zenon, <1>5, <3>1 DEF Held
    <3> QED BY Zenon, <1>4, <1>6, <3>1, <3>2
  <2>2. mine = {}
    BY Zenon, <2>1
  <2> HIDE DEF mine
  <2>3. Placed(c, mine) = {}
    BY <2>2 DEF Placed
  <2>4. LanesFor(key) = {}
    BY Zenon, <1>6 DEF LanesFor
  <2> QED BY <2>3, <2>4 DEF mine
<1>7. CASE p \in 0..(Len(roots) - 1) /\ roots[p + 1].key = key
  <2> DEFINE r == roots[p + 1]
  <2>1. p + 1 \in 1..Len(roots) /\ p # -1
    <3> HIDE DEF p, roots
    <3> QED BY <1>4, <1>7
  <2>2. r.root \in 0..(Len(c.nodes) - 1) /\ c.below[r.root] = mine
    BY Zenon, <1>5, <1>7, <2>1 DEF AreRoots
  <2>3. IsMappedPartition(p, r, c.nodes[r.root + 1])
    <3> HIDE DEF p
    <3> QED BY <1>7, PartitionsAreServed
  <2>4. PartitionRoot(p) = r.root
    BY Zenon, <2>3 DEF IsMappedPartition
  <2>5. LanesBelow(r.root) = Placed(c, c.below[r.root])
    <3> HIDE DEF r
    <3> QED BY <2>2, LanesBelowAre
  <2>6. LanesFor(key) = LanesBelow(PartitionRoot(p))
    BY Zenon, <2>1 DEF LanesFor
  <2> QED BY Zenon, <2>2, <2>4, <2>5, <2>6
<1> QED BY <1>3, <1>6, <1>7

(* The references of a key are served, once each, and nothing else.        *)
IsServedKey(refs, key, mine) ==
  /\ Cardinality(LanesFor(key)) = Cardinality(mine)
  /\ ReadIn(LanesFor(key)) = ServedOf(refs, mine)

LEMMA KeysAreServed ==
  ASSUME NEW c, IsMapped(c), IsServed(c), NEW key \in 0..(KEY_LOOKUP_SIZE - 1), NEW mine,
         mine = {i \in DOMAIN c.in.refs : Key(index.tree, c.in.refs[i].vector) = key}
  PROVE  IsServedKey(c.in.refs, key, mine)
<1>1. IsCertificate(c)
  BY DEF IsMapped, IsWhole
<1>2. IsKeyTable(index.keyToPartition, c.roots) /\ SameHeap(index.tree, c.predicates)
  BY Zenon DEF IsServed, ServedFrom
<1>3. \A v : Key(index.tree, v) = Key(c.predicates, v)
  BY <1>2, SameHeapSameKey
<1>4. mine = Partition(c.in.refs, c.predicates, key)
  BY Zenon, <1>3 DEF Partition
<1>5. LanesFor(key) = Placed(c, mine)
  BY <1>2, <1>4, KeyIsServed
<1>6. mine \subseteq DOMAIN c.in.refs
  BY <1>4 DEF Partition
<1>7. Cardinality(Placed(c, mine)) = Cardinality(mine)
  BY <1>1, <1>6, AsManyPlaces
<1>8. ReadIn(Placed(c, mine)) = ServedOf(c.in.refs, mine)
  BY <1>6, ReferencesAreScanned
<1> QED BY Zenon, <1>5, <1>7, <1>8 DEF IsServedKey

(* A worker that serves finds every reference: under the key that the      *)
(* predicates it read give the reference, in the leaves of one partition,  *)
(* in one lane, with its vector and label; and it scans nothing else. So   *)
(* the predicates, key_lookup, the offsets of src/src/index/layout.rs and  *)
(* the masks of the last block agree with what preprocess wrote.           *)
THEOREM ReferencesAreServed == Spec => []EveryReferenceServed
<1>1. FileInv => EveryReferenceServed
  <2>1. SUFFICES ASSUME FileInv, worker = "serving" PROVE EveryReferenceServed
    BY Zenon DEF EveryReferenceServed
  <2>2. PICK c : IsWhole(c) /\ IsServed(c) /\ file.refs = c.in.refs
    BY <2>1, ServingIsMapped
  <2>3. IsMapped(c)
    BY Zenon, <2>2 DEF IsMapped, IsServed, ServedFrom
  <2> DEFINE refs == file.refs
             keyOf == [i \in DOMAIN refs |-> Key(index.tree, refs[i].vector)]
             mine(key) == {i \in DOMAIN refs : keyOf[i] = key}
             served(key) == {[vector |-> [d \in 1..Dims |-> refs[i].vector[d]],
                              label |-> refs[i].label, index |-> i] : i \in mine(key)}
  <2>4. ASSUME NEW key \in 0..(KEY_LOOKUP_SIZE - 1) \union {keyOf[i] : i \in DOMAIN refs}
        PROVE  /\ Cardinality(LanesFor(key)) = Cardinality(mine(key))
               /\ ReadIn(LanesFor(key)) = served(key)
    <3>1. key \in 0..(KEY_LOOKUP_SIZE - 1)
      <4>1. ASSUME NEW i \in DOMAIN refs PROVE keyOf[i] \in 0..(KEY_LOOKUP_SIZE - 1)
        BY KeysFitTheTable
      <4> HIDE DEF keyOf
      <4> QED BY <4>1
    <3>2. mine(key) = {i \in DOMAIN c.in.refs : Key(index.tree, c.in.refs[i].vector) = key}
      <4>1. mine(key) = {i \in DOMAIN refs : Key(index.tree, refs[i].vector) = key}
        OBVIOUS
      <4>2. refs = c.in.refs
        BY <2>2
      <4> HIDE DEF refs, mine
      <4> QED BY Zenon, <4>1, <4>2
    <3> DEFINE m == mine(key)
    <3> HIDE DEF mine, m
    <3>3. IsServedKey(c.in.refs, key, m)
      <4>1. m = {i \in DOMAIN c.in.refs : Key(index.tree, c.in.refs[i].vector) = key}
        BY <3>2 DEF m
      <4> QED BY Zenon, <2>2, <2>3, <3>1, <4>1, KeysAreServed
    <3>4. ServedOf(refs, m) = {[vector |-> [d \in 1..Dims |-> refs[i].vector[d]], label |-> refs[i].label, index |-> i] : i \in m}
      <4> HIDE DEF refs
      <4> QED BY Zenon DEF ServedOf, Scanned, LaneOf
    <3>5. served(key) = ServedOf(refs, m)
      BY Zenon, <3>4 DEF m
    <3> QED BY Zenon, <2>2, <3>3, <3>5 DEF IsServedKey, m
  <2> QED BY Zenon, <2>1, <2>4 DEF EveryReferenceServed, LanesFor, ReadIn
<1> QED BY <1>1, FilesAreWritten, PTL
=============================================================================
