-------------------------- MODULE KnnSearchProofs --------------------------
(***************************************************************************)
(* Theorems about KnnSearch, for every index that satisfies Search, every  *)
(* K and all capacities, about the search of the tools next to it, and     *)
(* about the distances that BlockScan computes.                            *)
(***************************************************************************)
EXTENDS InstrumentedSearch, BlockScan, TLAPS, WellFoundedInduction, FiniteSetTheorems

(* The parts of the inductive invariant.                                   *)

(* The K best are in the order of insert_best_fast: the last is the worst. *)
BestInOrder ==
  \A i, j \in 1..K : i < j => ~CandidateBefore(best[j], best[i])

(* The nodes on the stack, and the one being visited, leave room for all   *)
(* that their descents may push.                                           *)
StackFits ==
  /\ \A i \in DOMAIN stack : i - 1 + ix.height[stack[i]] <= TreeStack
  /\ pc = "visit" => Len(stack) + ix.height[cur] <= TreeStack

(* What the place of the search says of the other variables.               *)
PhaseOK ==
  /\ pc = "visit" => cur \in ix.nodes
  /\ pc # "scan" => lanes = << >>
  /\ pc \notin {"visit", "scan"} => stack = << >>
  /\ pc = "collect" => ~collected
  /\ pc = "next" => collected

IInv ==
  /\ ix \in Searches
  /\ TypeOK
  /\ BestInOrder
  /\ StackFits
  /\ PhaseOK
  /\ DeferredHaveOneLabel
  /\ NothingForgotten

-----------------------------------------------------------------------------
(* Sequences and numbers.                                                  *)

LEMMA LeastElement ==
  ASSUME NEW T, T \subseteq Nat, T # {}
  PROVE  \E m \in T : \A n \in T : m <= n
<1> DEFINE R == {ss \in Nat \X Nat : ss[1] < ss[2]}
<1>1. IsWellFoundedOn(R, Nat)
  BY NatLessThanWellFounded DEF OpToRel
<1>2. PICK m \in T : \A n \in T : ~(<<n, m>> \in R)
  BY <1>1, WFMin
<1>3. \A n \in T : ~(n < m)
  BY <1>2
<1> QED BY <1>2, <1>3

LEMMA SubSeqFacts ==
  ASSUME NEW S, NEW s \in Seq(S), NEW i \in Nat, NEW j \in Nat, j <= Len(s), i <= j
  PROVE  /\ SubSeq(s, i + 1, j) \in Seq(S)
         /\ Len(SubSeq(s, i + 1, j)) = j - i
         /\ \A k \in 1..(j - i) : SubSeq(s, i + 1, j)[k] = s[i + k]
  OBVIOUS

LEMMA PoppedSeq ==
  ASSUME NEW S, NEW s \in Seq(S), s # << >>
  PROVE  /\ Len(s) \in Nat \ {0}
         /\ s[Len(s)] \in S
         /\ SubSeq(s, 1, Len(s) - 1) \in Seq(S)
         /\ Len(SubSeq(s, 1, Len(s) - 1)) = Len(s) - 1
         /\ \A i \in 1..(Len(s) - 1) : SubSeq(s, 1, Len(s) - 1)[i] = s[i]
         /\ Elements(s) = {s[Len(s)]} \union Elements(SubSeq(s, 1, Len(s) - 1))
<1> DEFINE n == Len(s)
           t == SubSeq(s, 1, n - 1)
<1>1. n \in Nat \ {0} /\ s[n] \in S
  OBVIOUS
<1>2. t \in Seq(S) /\ Len(t) = n - 1 /\ \A i \in 1..(n - 1) : t[i] = s[i]
  BY <1>1, SubSeqFacts, 0 + 1 = 1, n - 1 <= n, 0 <= n - 1, n - 1 \in Nat,
    n - 1 - 0 = n - 1, \A i \in 1..(n - 1) : 0 + i = i
<1>3. DOMAIN s = 1..n /\ DOMAIN t = 1..(n - 1)
  BY <1>1, <1>2
<1>4. \A i \in 1..n : i = n \/ i \in 1..(n - 1)
  BY <1>1
<1>5. n \in 1..n /\ \A i \in 1..(n - 1) : i \in 1..n
  BY <1>1
<1>6. Elements(s) = {s[n]} \union Elements(t)
  <2>1. ASSUME NEW e \in Elements(s) PROVE e \in {s[n]} \union Elements(t)
    <3>1. PICK i \in 1..n : e = s[i]
      BY <1>3 DEF Elements
    <3> QED BY <1>2, <1>3, <1>4, <3>1 DEF Elements
  <2>2. ASSUME NEW e \in {s[n]} \union Elements(t) PROVE e \in Elements(s)
    BY <1>2, <1>3, <1>5 DEF Elements
  <2> QED BY <2>1, <2>2
<1> HIDE DEF n, t
<1> QED BY <1>1, <1>2, <1>6 DEF n, t

LEMMA PushedSeq ==
  ASSUME NEW S, NEW s \in Seq(S), NEW e \in S
  PROVE  /\ Append(s, e) \in Seq(S)
         /\ Len(Append(s, e)) = Len(s) + 1
         /\ \A i \in 1..Len(s) : Append(s, e)[i] = s[i]
         /\ Append(s, e)[Len(s) + 1] = e
         /\ Elements(Append(s, e)) = {e} \union Elements(s)
<1>1. /\ Append(s, e) \in Seq(S)
      /\ Len(Append(s, e)) = Len(s) + 1
      /\ \A i \in 1..Len(s) : Append(s, e)[i] = s[i]
      /\ Append(s, e)[Len(s) + 1] = e
  OBVIOUS
<1>2. DOMAIN s = 1..Len(s) /\ DOMAIN Append(s, e) = 1..(Len(s) + 1)
  BY <1>1
<1>3. \A i \in 1..(Len(s) + 1) : i = Len(s) + 1 \/ i \in 1..Len(s)
  OBVIOUS
<1> QED BY <1>1, <1>2, <1>3 DEF Elements

LEMMA TailSeq ==
  ASSUME NEW S, NEW s \in Seq(S), s # << >>
  PROVE  /\ s[1] \in S
         /\ SubSeq(s, 2, Len(s)) \in Seq(S)
         /\ Elements(s) = {s[1]} \union Elements(SubSeq(s, 2, Len(s)))
<1> DEFINE n == Len(s)
           t == SubSeq(s, 2, n)
<1>1. n \in Nat \ {0} /\ s[1] \in S
  OBVIOUS
<1>2. t \in Seq(S) /\ Len(t) = n - 1 /\ \A i \in 1..(n - 1) : t[i] = s[1 + i]
  <2>1. n \in Nat /\ 1 \in Nat /\ 1 <= n /\ n <= Len(s) /\ 1 + 1 = 2
    BY <1>1
  <2>2. /\ SubSeq(s, 1 + 1, n) \in Seq(S)
        /\ Len(SubSeq(s, 1 + 1, n)) = n - 1
        /\ \A k \in 1..(n - 1) : SubSeq(s, 1 + 1, n)[k] = s[1 + k]
    <3> HIDE DEF n, t
    <3> QED BY <2>1, SubSeqFacts
  <2> QED BY <2>1, <2>2
<1>3. DOMAIN s = 1..n /\ DOMAIN t = 1..(n - 1)
  BY <1>1, <1>2
<1>4. \A i \in 1..n : i = 1 \/ (i - 1 \in 1..(n - 1) /\ 1 + (i - 1) = i)
  BY <1>1
<1>5. 1 \in 1..n /\ \A i \in 1..(n - 1) : 1 + i \in 1..n
  BY <1>1
<1>6. Elements(s) = {s[1]} \union Elements(t)
  <2>1. ASSUME NEW e \in Elements(s) PROVE e \in {s[1]} \union Elements(t)
    <3>1. PICK i \in 1..n : e = s[i]
      BY <1>3 DEF Elements
    <3>2. CASE i = 1
      BY <3>1, <3>2
    <3>3. CASE i # 1
      <4>1. i - 1 \in 1..(n - 1) /\ t[i - 1] = s[i]
        BY <3>3, <1>2, <1>4
      <4> QED BY <1>3, <3>1, <4>1 DEF Elements
    <3> QED BY <3>2, <3>3
  <2>2. ASSUME NEW e \in {s[1]} \union Elements(t) PROVE e \in Elements(s)
    BY <1>2, <1>3, <1>5 DEF Elements
  <2> QED BY <2>1, <2>2
<1> HIDE DEF n, t
<1> QED BY <1>1, <1>2, <1>6 DEF n, t

-----------------------------------------------------------------------------
(* The K best.                                                             *)

LEMMA EntryFacts ==
  /\ Reference \subseteq Entry
  /\ \A e \in Entry : e.dist \in Nat /\ e.dist <= Infinity /\ e.idx \in Nat
  /\ Placeholder \in Entry
BY KnnAssumption DEF Reference, Entry, Placeholder, Labels

LEMMA OrderOfEntries ==
  ASSUME NEW p \in Entry, NEW q \in Entry, NEW r \in Entry
  PROVE  /\ CandidateBefore(p, q) => ~CandidateBefore(q, p) /\ p.dist <= q.dist
         /\ CandidateBefore(p, q) /\ ~CandidateBefore(r, q) => CandidateBefore(p, r)
         /\ ~CandidateBefore(p, q) => q.dist <= p.dist
<1>1. /\ p.dist \in Nat /\ q.dist \in Nat /\ r.dist \in Nat
      /\ p.idx \in Nat /\ q.idx \in Nat /\ r.idx \in Nat
  BY EntryFacts
<1> QED BY <1>1 DEF CandidateBefore

(* insert_best_fast keeps the order and the size, and the worst distance   *)
(* does not grow.                                                          *)
LEMMA InsertKeepsOrder ==
  ASSUME best \in [1..K -> Entry], BestInOrder, NEW r \in Entry, best' = InsertBest(r)
  PROVE  /\ best' \in [1..K -> Entry]
         /\ BestInOrder'
         /\ best'[K].dist <= best[K].dist
<1> DEFINE Before(i) == CandidateBefore(r, best[i])
<1>1. K \in Nat \ {0} /\ K \in 1..K
  BY KnnAssumption
<1>2. \A i \in 1..K : i # 1 => i - 1 \in 1..K
  BY <1>1
<1>3. \A i \in 1..K : best[i] \in Entry
  OBVIOUS
<1>4. \A i \in 1..K :
        \/ ~Before(i) /\ best'[i] = best[i]
        \/ Before(i) /\ (i = 1 \/ ~Before(i - 1)) /\ best'[i] = r
        \/ Before(i) /\ i # 1 /\ Before(i - 1) /\ best'[i] = best[i - 1]
  BY <1>1 DEF InsertBest
<1>5. best' \in [1..K -> Entry]
  <2>1. \A i \in 1..K : best'[i] \in Entry
    BY <1>2, <1>3, <1>4
  <2>2. best' = [i \in 1..K |-> best'[i]]
    BY DEF InsertBest
  <2> QED BY <2>1, <2>2
<1>6. \A i, j \in 1..K : i < j /\ Before(i) => Before(j)
  <2>1. SUFFICES ASSUME NEW i \in 1..K, NEW j \in 1..K, i < j, Before(i) PROVE Before(j)
    OBVIOUS
  <2>2. ~CandidateBefore(best[j], best[i])
    BY <2>1 DEF BestInOrder
  <2> QED BY <1>3, <2>1, <2>2, OrderOfEntries
<1>7. BestInOrder'
  <2>1. SUFFICES ASSUME NEW i \in 1..K, NEW j \in 1..K, i < j
                 PROVE  ~CandidateBefore(best'[j], best'[i])
    BY DEF BestInOrder, CandidateBefore
  <2>2. j # 1 /\ j - 1 \in 1..K /\ (i = j - 1 \/ i < j - 1)
    BY <2>1, <1>1
  <2>3. i # 1 => i - 1 \in 1..K /\ i - 1 < j - 1
    BY <2>1, <1>2
  <2>4. CASE ~Before(i)
    <3>1. best'[i] = best[i]
      BY <1>4, <2>4
    <3>2. CASE best'[j] = best[j]
      BY <2>1, <3>1, <3>2 DEF BestInOrder
    <3>3. CASE best'[j] = r
      BY <2>4, <3>1, <3>3
    <3>4. CASE Before(j - 1) /\ best'[j] = best[j - 1]
      <4>1. i < j - 1
        BY <2>2, <2>4, <3>4
      <4> QED BY <2>2, <3>1, <3>4, <4>1 DEF BestInOrder
    <3> QED BY <1>4, <3>2, <3>3, <3>4
  <2>5. CASE Before(i)
    <3>1. Before(j - 1) /\ Before(j)
      BY <1>6, <2>1, <2>2, <2>5
    <3>2. best'[j] = best[j - 1]
      BY <1>4, <2>2, <3>1
    <3>3. CASE best'[i] = r
      <4>1. ~CandidateBefore(best[j - 1], r)
        BY <1>3, <2>2, <3>1, OrderOfEntries
      <4> QED BY <3>2, <3>3, <4>1
    <3>4. CASE i # 1 /\ best'[i] = best[i - 1]
      BY <2>2, <2>3, <3>2, <3>4 DEF BestInOrder
    <3> QED BY <1>4, <2>5, <3>3, <3>4
  <2> QED BY <2>4, <2>5
<1>8. best'[K].dist <= best[K].dist
  <2>1. CASE best'[K] = best[K]
    BY <1>1, <1>3, <2>1, EntryFacts
  <2>2. CASE Before(K) /\ best'[K] = r
    BY <1>1, <1>3, <2>2, OrderOfEntries
  <2>3. CASE K # 1 /\ best'[K] = best[K - 1]
    <3>1. ~CandidateBefore(best[K], best[K - 1]) /\ K - 1 \in 1..K
      BY <1>1, <2>3 DEF BestInOrder
    <3> QED BY <1>1, <1>3, <2>3, <3>1, OrderOfEntries
  <2> QED BY <1>1, <1>4, <2>1, <2>2, <2>3
<1> QED BY <1>5, <1>7, <1>8

(* What is nearer than the new worst stays, and r enters if it is nearer.  *)
LEMMA InsertKeepsNear ==
  ASSUME best \in [1..K -> Entry], BestInOrder, NEW r \in Entry, best' = InsertBest(r),
         NEW q \in Elements(best) \union {r}, q.dist < best'[K].dist
  PROVE  q \in Elements(best')
<1> DEFINE Before(i) == CandidateBefore(r, best[i])
<1>1. K \in Nat \ {0} /\ K \in 1..K
  BY KnnAssumption
<1>2. /\ best' \in [1..K -> Entry]
      /\ best'[K].dist <= best[K].dist
  BY InsertKeepsOrder
<1>3. /\ \A i \in 1..K : best[i] \in Entry /\ best'[i] \in Entry
      /\ DOMAIN best = 1..K /\ DOMAIN best' = 1..K
  BY <1>2
<1>4. \A i \in 1..K :
        \/ ~Before(i) /\ best'[i] = best[i]
        \/ Before(i) /\ (i = 1 \/ ~Before(i - 1)) /\ best'[i] = r
        \/ Before(i) /\ i # 1 /\ Before(i - 1) /\ best'[i] = best[i - 1]
  BY <1>1 DEF InsertBest
<1>5. CASE q \in Elements(best)
  <2>1. PICK i \in 1..K : q = best[i]
    BY <1>3, <1>5 DEF Elements
  <2>2. CASE ~Before(i)
    BY <1>3, <1>4, <2>1, <2>2 DEF Elements
  <2>3. CASE Before(i)
    <3>1. i # K
      <4>1. SUFFICES ASSUME i = K PROVE FALSE
        OBVIOUS
      <4>2. /\ q.dist \in Nat /\ best[K].dist \in Nat /\ best'[K].dist \in Nat
            /\ q = best[K]
        BY <1>1, <1>3, <2>1, <4>1, EntryFacts
      <4> QED BY <1>2, <4>2
    <3>2. i + 1 \in 1..K /\ i < i + 1 /\ i + 1 # 1 /\ (i + 1) - 1 = i
      BY <1>1, <3>1
    <3>3. ~CandidateBefore(best[i + 1], best[i])
      BY <3>2 DEF BestInOrder
    <3>4. Before(i + 1)
      BY <1>3, <2>3, <3>2, <3>3, OrderOfEntries
    <3>5. best'[i + 1] = best[i]
      BY <1>4, <2>3, <3>2, <3>4
    <3> QED BY <1>3, <2>1, <3>2, <3>5 DEF Elements
  <2> QED BY <2>2, <2>3
<1>6. CASE q = r
  <2>1. Before(K)
    <3>1. /\ r.dist \in Nat /\ best[K].dist \in Nat /\ best'[K].dist \in Nat
      BY <1>1, <1>3, EntryFacts
    <3> QED BY <1>2, <1>6, <3>1 DEF CandidateBefore
  <2> DEFINE T == {i \in 1..K : Before(i)}
  <2>2. T \subseteq Nat /\ T # {}
    BY <1>1, <2>1
  <2>3. PICK i \in T : \A j \in T : i <= j
    <3> HIDE DEF T
    <3> QED BY <2>2, LeastElement
  <2>4. i = 1 \/ ~Before(i - 1)
    <3>1. i # 1 => i - 1 \in 1..K /\ ~(i <= i - 1)
      BY <1>1
    <3> QED BY <2>3, <3>1
  <2>5. best'[i] = r
    BY <1>4, <2>4
  <2> QED BY <1>3, <1>6, <2>5 DEF Elements
<1> QED BY <1>5, <1>6

-----------------------------------------------------------------------------
(* The index.                                                              *)

LEMMA IndexFacts ==
  ASSUME ix \in Searches
  PROVE  /\ NoNode \notin ix.nodes
         /\ ix.others \subseteq ix.nodes
         /\ ix.home # NoNode => ix.home \in ix.nodes
         /\ \A n \in ix.nodes : Sound(ix, n) /\ ix.below[n] \subseteq Reference
<1>1. Search(ix)
  BY SearchesAssumption
<1> QED BY <1>1 DEF Search, Roots

LEMMA NodeFacts ==
  ASSUME ix \in Searches, NEW n \in ix.nodes
  PROVE  /\ ix.bound[n] \in Nat
         /\ \A r \in ix.below[n] : r.dist \in Nat /\ ix.bound[n] <= r.dist
         /\ ix.height[n] \in 0..TreeStack
         /\ ix.classes[n] \subseteq Labels
<1>1. Sound(ix, n) /\ ix.below[n] \subseteq Reference
  BY IndexFacts
<1>2. \A r \in ix.below[n] : r.dist \in Nat /\ r.label \in Labels
  BY <1>1, EntryFacts DEF Reference
<1>3. ix.bound[n] \in Nat
  BY <1>1, KnnAssumption DEF Sound
<1> QED BY <1>1, <1>2, <1>3 DEF Sound

LEMMA LeafFacts ==
  ASSUME ix \in Searches, NEW n \in ix.nodes, IsLeaf(ix, n)
  PROVE  ix.refs[n] \in Seq(Reference) /\ Elements(ix.refs[n]) = ix.below[n]
<1>1. Sound(ix, n)
  BY IndexFacts
<1> QED BY <1>1 DEF Sound, Elements

LEMMA InnerFacts ==
  ASSUME ix \in Searches, NEW n \in ix.nodes, ~IsLeaf(ix, n)
  PROVE  /\ ix.left[n] \in ix.nodes /\ ix.right[n] \in ix.nodes
         /\ ix.height[ix.left[n]] < ix.height[n] /\ ix.height[ix.right[n]] < ix.height[n]
         /\ ix.below[n] = ix.below[ix.left[n]] \union ix.below[ix.right[n]]
<1>1. Sound(ix, n)
  BY IndexFacts
<1> QED BY <1>1 DEF Sound, IsLeaf

LEMMA WorstFacts ==
  ASSUME best \in [1..K -> Entry]
  PROVE  Worst \in Nat
<1>1. K \in 1..K
  BY KnnAssumption
<1>2. best[K] \in Entry
  BY <1>1
<1> QED BY <1>2, EntryFacts DEF Worst

(* What justifies leaving a node out.                                      *)
LEMMA TooFar ==
  ASSUME ix \in Searches, best \in [1..K -> Entry], NEW n \in ix.nodes,
         ~(ix.bound[n] < Worst), NEW r \in ix.below[n]
  PROVE  ~(r.dist < Worst)
<1>1. ix.bound[n] \in Nat /\ r.dist \in Nat /\ ix.bound[n] <= r.dist
  BY NodeFacts
<1> QED BY <1>1, WorstFacts

LEMMA NotReached ==
  ASSUME ix \in Searches, best \in [1..K -> Entry], NEW n \in ix.nodes, ~Reaches(n)
  PROVE  ~(ix.bound[n] < Worst)
BY NodeFacts, WorstFacts DEF Reaches

-----------------------------------------------------------------------------
(* What a step has to show for NothingForgotten.                           *)

Rest == Elements(pending) \union (IF collected THEN todo ELSE ix.others)

LEMMA StillSeen ==
  ASSUME NothingForgotten, ix' = ix, best' = best,
         \A n \in Outstanding : \A r \in ix.below[n] : r.dist < Worst => r \in Unseen',
         Elements(lanes) \subseteq Unseen'
  PROVE  NothingForgotten'
<1>1. SUFFICES ASSUME NEW r \in References(ix), r.dist < Worst
               PROVE  r \in Elements(best) \/ r \in Unseen'
  BY DEF NothingForgotten, Worst
<1>2. CASE r \in Unseen
  BY <1>1, <1>2 DEF Unseen
<1> QED BY <1>1, <1>2 DEF NothingForgotten

LEMMA SeenBelow ==
  ASSUME ix' = ix, NEW n \in Outstanding', NEW r \in ix.below[n]
  PROVE  r \in Unseen'
<1>1. r \in UNION {ix.below[m] : m \in Outstanding'}
  OBVIOUS
<1> QED BY <1>1 DEF Unseen

LEMMA BacktrackPops ==
  ASSUME IInv, pc \in {"visit", "scan"}, Backtrack, ix' = ix
  PROVE  /\ pc' \in {"visit", "replay", "searched"}
         /\ cur' \in ix.nodes \union {NoNode}
         /\ stack' \in Seq(ix.nodes)
         /\ StackFits'
         /\ pc' = "visit" => cur' \in ix.nodes
         /\ pc' # "visit" => stack' = << >>
         /\ Elements(stack) \subseteq Elements(stack') \union (IF pc' = "visit" THEN {cur'} ELSE {})
<1>1. stack \in Seq(ix.nodes)
  BY DEF IInv, TypeOK
<1>2. CASE stack = << >>
  <2>1. cur' = NoNode /\ pc' \in {"replay", "searched"} /\ stack' = << >>
    BY <1>2 DEF Backtrack
  <2>2. StackFits'
    BY <2>1 DEF StackFits
  <2> QED BY <1>1, <1>2, <2>1, <2>2
<1>3. CASE stack # << >>
  <2> DEFINE n == Len(stack)
  <2>1. /\ n \in Nat \ {0} /\ stack[n] \in ix.nodes
        /\ cur' = stack[n] /\ pc' = "visit" /\ stack' \in Seq(ix.nodes)
        /\ Len(stack') = n - 1
        /\ \A i \in 1..(n - 1) : stack'[i] = stack[i]
        /\ Elements(stack) = {stack[n]} \union Elements(stack')
    <3> DEFINE s == SubSeq(stack, 1, Len(stack) - 1)
    <3>1. cur' = stack[Len(stack)] /\ pc' = "visit" /\ stack' = s
      BY <1>3 DEF Backtrack
    <3>2. /\ Len(stack) \in Nat \ {0} /\ stack[Len(stack)] \in ix.nodes
          /\ s \in Seq(ix.nodes) /\ Len(s) = Len(stack) - 1
          /\ \A i \in 1..(Len(stack) - 1) : s[i] = stack[i]
          /\ Elements(stack) = {stack[Len(stack)]} \union Elements(s)
      BY <1>1, <1>3, PoppedSeq
    <3> HIDE DEF s
    <3> QED BY <3>1, <3>2
  <2>2. \A i \in 1..n : i - 1 + ix.height[stack[i]] <= TreeStack
    BY <1>1 DEF IInv, StackFits
  <2>3. StackFits'
    <3>1. DOMAIN stack' = 1..(n - 1) /\ \A i \in 1..(n - 1) : i \in 1..n
      BY <2>1
    <3>2. \A i \in DOMAIN stack' : i - 1 + ix.height[stack'[i]] <= TreeStack
      BY <2>1, <2>2, <3>1
    <3>3. n - 1 + ix.height[cur'] <= TreeStack
      <4>1. n \in 1..n
        BY <2>1
      <4> QED BY <2>1, <2>2, <4>1
    <3>4. Len(stack') + ix.height[cur'] <= TreeStack
      <4> HIDE DEF n
      <4> QED BY <2>1, <3>3
    <3> QED BY <3>2, <3>4 DEF StackFits
  <2> QED BY <2>1, <2>3
<1> QED BY <1>2, <1>3

(* The steps that leave cur for what is on the stack.                      *)
LEMMA BacktrackInv ==
  ASSUME IInv, pc \in {"visit", "scan"}, Backtrack,
         UNCHANGED <<ix, best, replaying, collected, todo>>, lanes = << >>, lanes' = << >>,
         pending' \in Seq(ix.nodes), Elements(pending) \subseteq Elements(pending'),
         deferLabel' \in Labels \union {NoLabel}, DeferredHaveOneLabel',
         pc = "visit" => \/ cur \in Elements(pending')
                         \/ \A r \in ix.below[cur] : ~(r.dist < Worst)
  PROVE  IInv'
<1>1. /\ pc' \in {"visit", "replay", "searched"}
      /\ cur' \in ix.nodes \union {NoNode}
      /\ stack' \in Seq(ix.nodes)
      /\ StackFits'
      /\ pc' = "visit" => cur' \in ix.nodes
      /\ pc' # "visit" => stack' = << >>
      /\ Elements(stack) \subseteq Elements(stack') \union (IF pc' = "visit" THEN {cur'} ELSE {})
  BY BacktrackPops
<1>2. TypeOK'
  <2>1. << >> \in Seq(Reference)
    OBVIOUS
  <2> QED BY <1>1, <2>1 DEF IInv, TypeOK
<1>3. BestInOrder' /\ PhaseOK'
  BY <1>1 DEF IInv, BestInOrder, CandidateBefore, PhaseOK
<1>4. NothingForgotten'
  <2>1. \A n \in Outstanding : (n = cur /\ pc = "visit") \/ n \in Elements(stack) \/ n \in Rest
    BY DEF Outstanding, Rest
  <2>2. \A n \in Elements(stack) \union Rest : n \in Outstanding'
    BY <1>1 DEF Outstanding, Rest
  <2>3. ASSUME NEW n \in Outstanding, NEW r \in ix.below[n], r.dist < Worst
        PROVE  r \in Unseen'
    <3>1. CASE n \in Elements(stack) \union Rest
      BY <2>2, <2>3, <3>1, SeenBelow
    <3>2. CASE n = cur /\ pc = "visit"
      <4>1. cur \in Elements(pending')
        BY <2>3, <3>2
      <4>2. cur \in Outstanding'
        BY <4>1 DEF Outstanding
      <4> QED BY <2>3, <3>2, <4>2, SeenBelow
    <3> QED BY <2>1, <3>1, <3>2
  <2>4. Elements(lanes) = {}
    BY DEF Elements
  <2> QED BY <2>3, <2>4, StillSeen DEF IInv
<1> QED BY <1>1, <1>2, <1>3, <1>4 DEF IInv

-----------------------------------------------------------------------------
(* The steps in the tree.                                                  *)

LEMMA PruneInv == IInv /\ Prune => IInv'
<1> SUFFICES ASSUME IInv, Prune PROVE IInv'
  OBVIOUS
<1>1. pc = "visit" /\ ~Reaches(cur) /\ Backtrack
      /\ UNCHANGED <<ix, best, lanes, pending, deferLabel, replaying, collected, todo>>
  BY DEF Prune, deferVars, partVars
<1>2. cur \in ix.nodes /\ lanes = << >> /\ best \in [1..K -> Entry]
  BY <1>1 DEF IInv, PhaseOK, TypeOK
<1>3. \A r \in ix.below[cur] : ~(r.dist < Worst)
  BY <1>1, <1>2, NotReached, TooFar DEF IInv
<1>4. DeferredHaveOneLabel'
  BY <1>1 DEF IInv, DeferredHaveOneLabel
<1>5. pending \in Seq(ix.nodes) /\ deferLabel \in Labels \union {NoLabel}
  BY DEF IInv, TypeOK
<1> QED BY <1>1, <1>2, <1>3, <1>4, <1>5, BacktrackInv

LEMMA DeferInv == IInv /\ Defer => IInv'
<1> SUFFICES ASSUME IInv, Defer PROVE IInv'
  OBVIOUS
<1>1. /\ pc = "visit" /\ Backtrack
      /\ pending' = Append(pending, cur)
      /\ UNCHANGED <<ix, best, lanes, replaying, collected, todo>>
  BY DEF Defer, partVars
<1>2. PICK l \in Labels : MayDefer(l) /\ deferLabel' = l
  BY DEF Defer
<1>3. cur \in ix.nodes /\ lanes = << >> /\ pending \in Seq(ix.nodes)
  BY <1>1 DEF IInv, PhaseOK, TypeOK
<1>4. /\ pending' \in Seq(ix.nodes)
      /\ Elements(pending') = {cur} \union Elements(pending)
  BY <1>1, <1>3, PushedSeq
<1>5. ix.classes[cur] = {l}
  BY <1>2, <1>3, NodeFacts DEF IInv, MayDefer, Labels
<1>6. \A n \in Elements(pending) : ix.classes[n] = {l}
  <2>1. SUFFICES ASSUME NEW n \in Elements(pending) PROVE ix.classes[n] = {l}
    OBVIOUS
  <2>2. n \in ix.nodes
    BY <1>3 DEF Elements
  <2>3. ix.classes[n] = {deferLabel} /\ ix.classes[n] \subseteq Labels
    BY <2>2, NodeFacts DEF IInv, DeferredHaveOneLabel
  <2>4. deferLabel # NoLabel
    BY <2>3, KnnAssumption
  <2> QED BY <1>2, <2>3, <2>4 DEF MayDefer
<1>7. DeferredHaveOneLabel'
  BY <1>1, <1>2, <1>4, <1>5, <1>6 DEF DeferredHaveOneLabel
<1> QED BY <1>1, <1>2, <1>3, <1>4, <1>7, BacktrackInv

LEMMA LeaveLeafInv == IInv /\ LeaveLeaf => IInv'
<1> SUFFICES ASSUME IInv, LeaveLeaf PROVE IInv'
  OBVIOUS
<1>1. pc = "scan" /\ lanes = << >> /\ Backtrack
      /\ UNCHANGED <<ix, best, lanes, pending, deferLabel, replaying, collected, todo>>
  BY DEF LeaveLeaf, deferVars, partVars
<1>2. DeferredHaveOneLabel'
  BY <1>1 DEF IInv, DeferredHaveOneLabel
<1>3. pending \in Seq(ix.nodes) /\ deferLabel \in Labels \union {NoLabel}
  BY DEF IInv, TypeOK
<1> QED BY <1>1, <1>2, <1>3, BacktrackInv

LEMMA ChildrenFacts ==
  ASSUME IInv, cur \in ix.nodes, ~IsLeaf(ix, cur)
  PROVE  /\ Near \in ix.nodes /\ Far \in ix.nodes
         /\ ix.height[Near] < ix.height[cur] /\ ix.height[Far] < ix.height[cur]
         /\ ix.below[cur] = ix.below[Near] \union ix.below[Far]
         /\ ix.bound[Near] <= ix.bound[Far]
<1>1. /\ ix.left[cur] \in ix.nodes /\ ix.right[cur] \in ix.nodes
      /\ ix.height[ix.left[cur]] < ix.height[cur] /\ ix.height[ix.right[cur]] < ix.height[cur]
      /\ ix.below[cur] = ix.below[ix.left[cur]] \union ix.below[ix.right[cur]]
  BY InnerFacts DEF IInv
<1>2. ix.bound[ix.left[cur]] \in Nat /\ ix.bound[ix.right[cur]] \in Nat
  BY <1>1, NodeFacts DEF IInv
<1>3. \/ /\ Near = ix.left[cur] /\ Far = ix.right[cur]
         /\ ix.bound[ix.left[cur]] <= ix.bound[ix.right[cur]]
      \/ /\ Near = ix.right[cur] /\ Far = ix.left[cur]
         /\ ~(ix.bound[ix.left[cur]] <= ix.bound[ix.right[cur]])
  BY DEF Near, Far
<1>4. CASE Near = ix.left[cur] /\ Far = ix.right[cur] /\ ix.bound[ix.left[cur]] <= ix.bound[ix.right[cur]]
  BY <1>1, <1>4
<1>5. CASE Near = ix.right[cur] /\ Far = ix.left[cur] /\ ~(ix.bound[ix.left[cur]] <= ix.bound[ix.right[cur]])
  <2> DEFINE m == ix.bound[ix.left[cur]]
             n == ix.bound[ix.right[cur]]
  <2>1. m \in Nat /\ n \in Nat /\ ~(m <= n)
    BY <1>2, <1>5
  <2> HIDE DEF m, n
  <2>2. n <= m
    BY <2>1
  <2>3. ix.bound[Near] <= ix.bound[Far]
    BY <1>5, <2>2 DEF m, n
  <2>4. ix.below[ix.left[cur]] \union ix.below[ix.right[cur]] = ix.below[Near] \union ix.below[Far]
    BY <1>5
  <2> QED BY <1>1, <1>5, <2>3, <2>4
<1> QED BY <1>3, <1>4, <1>5

LEMMA SkipChildrenInv == IInv /\ SkipChildren => IInv'
<1> SUFFICES ASSUME IInv, SkipChildren PROVE IInv'
  OBVIOUS
<1>1. pc = "visit" /\ ~IsLeaf(ix, cur) /\ ~Reaches(Near) /\ Reaches(cur) /\ Backtrack
      /\ UNCHANGED <<ix, best, lanes, pending, deferLabel, replaying, collected, todo>>
  BY DEF SkipChildren, deferVars, partVars
<1>2. cur \in ix.nodes /\ lanes = << >> /\ best \in [1..K -> Entry]
  BY <1>1 DEF IInv, PhaseOK, TypeOK
<1>3. Near \in ix.nodes /\ Far \in ix.nodes /\ ix.bound[Near] <= ix.bound[Far]
      /\ ix.below[cur] = ix.below[Near] \union ix.below[Far]
  BY <1>1, <1>2, ChildrenFacts
<1>4. ~(ix.bound[Near] < Worst) /\ ~(ix.bound[Far] < Worst)
  <2>1. ~(ix.bound[Near] < Worst)
    BY <1>1, <1>2, <1>3, NotReached DEF IInv
  <2>2. ix.bound[Near] \in Nat /\ ix.bound[Far] \in Nat /\ Worst \in Nat
    BY <1>2, <1>3, NodeFacts, WorstFacts DEF IInv
  <2> QED BY <1>3, <2>1, <2>2
<1>5. \A r \in ix.below[cur] : ~(r.dist < Worst)
  BY <1>2, <1>3, <1>4, TooFar DEF IInv
<1>6. DeferredHaveOneLabel'
  BY <1>1 DEF IInv, DeferredHaveOneLabel
<1>7. pending \in Seq(ix.nodes) /\ deferLabel \in Labels \union {NoLabel}
  BY DEF IInv, TypeOK
<1> QED BY <1>1, <1>2, <1>5, <1>6, <1>7, BacktrackInv

LEMMA EnterLeafInv == IInv /\ EnterLeaf => IInv'
<1> SUFFICES ASSUME IInv, EnterLeaf PROVE IInv'
  OBVIOUS
<1>1. /\ pc = "visit" /\ IsLeaf(ix, cur) /\ pc' = "scan" /\ lanes' = ix.refs[cur]
      /\ UNCHANGED <<ix, best, cur, stack, pending, deferLabel, replaying, collected, todo>>
  BY DEF EnterLeaf, deferVars, partVars
<1>2. cur \in ix.nodes /\ lanes = << >>
  BY <1>1 DEF IInv, PhaseOK
<1>3. lanes' \in Seq(Reference) /\ Elements(lanes') = ix.below[cur]
  BY <1>1, <1>2, LeafFacts DEF IInv
<1>4. TypeOK'
  BY <1>1, <1>3 DEF IInv, TypeOK
<1>5. BestInOrder' /\ StackFits' /\ PhaseOK' /\ DeferredHaveOneLabel'
  BY <1>1 DEF IInv, BestInOrder, CandidateBefore, StackFits, PhaseOK, DeferredHaveOneLabel
<1>6. NothingForgotten'
  <2>1. ASSUME NEW n \in Outstanding, NEW r \in ix.below[n] PROVE r \in Unseen'
    <3>1. CASE n = cur
      BY <1>3, <2>1, <3>1 DEF Unseen
    <3>2. CASE n # cur
      <4>1. n \in Outstanding'
        BY <1>1, <2>1, <3>2 DEF Outstanding
      <4> QED BY <1>1, <2>1, <4>1, SeenBelow
    <3> QED BY <3>1, <3>2
  <2>2. Elements(lanes) = {}
    BY <1>2 DEF Elements
  <2> QED BY <1>1, <2>1, <2>2, StillSeen DEF IInv
<1> QED BY <1>1, <1>4, <1>5, <1>6 DEF IInv

LEMMA ScanLaneInv == IInv /\ ScanLane => IInv'
<1> SUFFICES ASSUME IInv, ScanLane PROVE IInv'
  OBVIOUS
<1> DEFINE r == lanes[1]
<1>1. /\ pc = "scan" /\ lanes # << >> /\ best' = InsertBest(r)
      /\ lanes' = SubSeq(lanes, 2, Len(lanes))
      /\ UNCHANGED <<ix, pc, cur, stack, pending, deferLabel, replaying, collected, todo>>
  BY DEF ScanLane, deferVars, partVars
<1>2. lanes \in Seq(Reference) /\ best \in [1..K -> Entry] /\ BestInOrder
  BY DEF IInv, TypeOK
<1>3. r \in Reference /\ lanes' \in Seq(Reference)
      /\ Elements(lanes) = {r} \union Elements(lanes')
  BY <1>1, <1>2, TailSeq
<1>4. r \in Entry
  BY <1>3, EntryFacts
<1>5. best' \in [1..K -> Entry] /\ BestInOrder' /\ best'[K].dist <= best[K].dist
  <2> HIDE DEF r
  <2> QED BY <1>1, <1>2, <1>4, InsertKeepsOrder
<1>6. TypeOK'
  BY <1>1, <1>3, <1>5 DEF IInv, TypeOK
<1>7. StackFits' /\ PhaseOK' /\ DeferredHaveOneLabel'
  BY <1>1 DEF IInv, StackFits, PhaseOK, DeferredHaveOneLabel
<1>8. NothingForgotten'
  <2>1. SUFFICES ASSUME NEW q \in References(ix), q.dist < best'[K].dist
                 PROVE  q \in Elements(best') \/ q \in Unseen'
    BY <1>1 DEF NothingForgotten, Worst
  <2>2. q.dist < Worst
    <3>1. q \in Reference
      <4>1. PICK n \in Roots(ix) : q \in ix.below[n]
        BY DEF References
      <4>2. n \in ix.nodes
        BY <4>1, IndexFacts DEF IInv, Roots
      <4> QED BY <4>1, <4>2, IndexFacts DEF IInv
    <3>2. K \in 1..K
      BY KnnAssumption
    <3>3. q.dist \in Nat /\ best[K].dist \in Nat /\ best'[K].dist \in Nat
      BY <1>2, <1>5, <3>1, <3>2, EntryFacts
    <3> QED BY <1>5, <2>1, <3>3 DEF Worst
  <2>3. q \in Elements(best) \/ q \in Unseen
    BY <2>2 DEF IInv, NothingForgotten
  <2>4. Outstanding' = Outstanding
    BY <1>1 DEF Outstanding
  <2>5. CASE q \in Elements(best) \union {r}
    <3> HIDE DEF r
    <3> QED BY <1>1, <1>2, <1>4, <2>1, <2>5, InsertKeepsNear
  <2>6. CASE q \notin Elements(best) \union {r}
    <3>1. q \in (UNION {ix.below[n] : n \in Outstanding}) \union Elements(lanes)
      BY <2>3, <2>6 DEF Unseen
    <3>2. CASE q \in Elements(lanes')
      BY <3>2 DEF Unseen
    <3>3. CASE q \in UNION {ix.below[n] : n \in Outstanding}
      <4>1. PICK n \in Outstanding : q \in ix.below[n]
        BY <3>3
      <4> QED BY <1>1, <2>4, <4>1, SeenBelow
    <3> QED BY <1>3, <2>6, <3>1, <3>2, <3>3
  <2> QED BY <2>5, <2>6
<1> QED BY <1>1, <1>5, <1>6, <1>7, <1>8 DEF IInv

(* The stack always has room for the far child.                            *)
LEMMA RoomForFar ==
  ASSUME IInv, pc = "visit", ~IsLeaf(ix, cur)
  PROVE  Len(stack) < TreeStack
<1>1. cur \in ix.nodes /\ stack \in Seq(ix.nodes) /\ Len(stack) \in Nat
      /\ Len(stack) + ix.height[cur] <= TreeStack
  BY DEF IInv, PhaseOK, TypeOK, StackFits
<1>2. ix.height[Near] < ix.height[cur] /\ Near \in ix.nodes
  BY <1>1, ChildrenFacts
<1>3. ix.height[Near] \in Nat /\ ix.height[cur] \in Nat /\ TreeStack \in Nat
  BY <1>1, <1>2, NodeFacts, KnnAssumption DEF IInv
<1> QED BY <1>1, <1>2, <1>3

LEMMA DescendInv == IInv /\ Descend => IInv'
<1> SUFFICES ASSUME IInv, Descend PROVE IInv'
  OBVIOUS
<1>1. /\ pc = "visit" /\ ~IsLeaf(ix, cur) /\ Reaches(Near)
      /\ cur' = Near
      /\ stack' = IF KeepFar THEN Append(stack, Far) ELSE stack
      /\ UNCHANGED <<ix, pc, best, lanes, pending, deferLabel, replaying, collected, todo>>
  BY DEF Descend, deferVars, partVars
<1>2. cur \in ix.nodes /\ lanes = << >> /\ best \in [1..K -> Entry]
      /\ stack \in Seq(ix.nodes) /\ Len(stack) \in Nat
  BY <1>1 DEF IInv, PhaseOK, TypeOK
<1>3. /\ Near \in ix.nodes /\ Far \in ix.nodes
      /\ ix.height[Near] < ix.height[cur] /\ ix.height[Far] < ix.height[cur]
      /\ ix.below[cur] = ix.below[Near] \union ix.below[Far]
  BY <1>1, <1>2, ChildrenFacts
<1>4. /\ ix.height[Near] \in Nat /\ ix.height[Far] \in Nat /\ ix.height[cur] \in Nat
      /\ TreeStack \in Nat /\ Len(stack) + ix.height[cur] <= TreeStack
  BY <1>1, <1>2, <1>3, NodeFacts, KnnAssumption DEF IInv, StackFits
<1>5. /\ Append(stack, Far) \in Seq(ix.nodes)
      /\ Len(Append(stack, Far)) = Len(stack) + 1
      /\ \A i \in 1..Len(stack) : Append(stack, Far)[i] = stack[i]
      /\ Append(stack, Far)[Len(stack) + 1] = Far
      /\ Elements(Append(stack, Far)) = {Far} \union Elements(stack)
  BY <1>2, <1>3, PushedSeq
<1>6. /\ stack' \in Seq(ix.nodes) /\ Elements(stack) \subseteq Elements(stack')
      /\ Reaches(Far) => Far \in Elements(stack')
  BY <1>1, <1>2, <1>5, RoomForFar DEF KeepFar
<1>7. StackFits'
  <2>1. \A i \in 1..Len(stack) : i - 1 + ix.height[stack[i]] <= TreeStack
    BY <1>2 DEF IInv, StackFits
  <2>2. CASE stack' = stack
    <3>1. Len(stack) + ix.height[Near] <= TreeStack
      BY <1>2, <1>3, <1>4
    <3> QED BY <1>1, <1>2, <2>1, <2>2, <3>1 DEF StackFits
  <2>3. CASE stack' = Append(stack, Far)
    <3>1. DOMAIN stack' = 1..(Len(stack) + 1) /\ Len(stack') = Len(stack) + 1
      BY <1>2, <1>5, <2>3
    <3>2. Len(stack) + 1 - 1 + ix.height[Far] <= TreeStack
      BY <1>2, <1>3, <1>4
    <3>3. Len(stack) + 1 + ix.height[Near] <= TreeStack
      BY <1>2, <1>3, <1>4
    <3>4. \A i \in 1..(Len(stack) + 1) : i - 1 + ix.height[stack'[i]] <= TreeStack
      <4>1. SUFFICES ASSUME NEW i \in 1..(Len(stack) + 1)
                     PROVE  i - 1 + ix.height[stack'[i]] <= TreeStack
        OBVIOUS
      <4>2. CASE i \in 1..Len(stack)
        BY <1>5, <2>1, <2>3, <4>2
      <4>3. CASE i = Len(stack) + 1
        BY <1>5, <2>3, <3>2, <4>3
      <4> QED BY <1>2, <4>1, <4>2, <4>3
    <3> QED BY <1>1, <3>1, <3>3, <3>4 DEF StackFits
  <2> QED BY <1>1, <2>2, <2>3
<1>8. TypeOK'
  BY <1>1, <1>3, <1>6 DEF IInv, TypeOK
<1>9. BestInOrder' /\ PhaseOK' /\ DeferredHaveOneLabel'
  BY <1>1, <1>3 DEF IInv, BestInOrder, CandidateBefore, PhaseOK, DeferredHaveOneLabel
<1>10. NothingForgotten'
  <2>1. ASSUME NEW n \in Outstanding, NEW r \in ix.below[n], r.dist < Worst
        PROVE  r \in Unseen'
    <3>1. CASE n # cur
      <4>1. n \in Outstanding'
        BY <1>1, <1>6, <2>1, <3>1 DEF Outstanding
      <4> QED BY <1>1, <2>1, <4>1, SeenBelow
    <3>2. CASE n = cur /\ r \in ix.below[Near]
      <4>1. Near \in Outstanding'
        BY <1>1 DEF Outstanding
      <4> QED BY <1>1, <3>2, <4>1, SeenBelow
    <3>3. CASE n = cur /\ r \in ix.below[Far]
      <4>1. Reaches(Far)
        BY <1>2, <1>3, <2>1, <3>3, NotReached, TooFar DEF IInv
      <4>2. Far \in Outstanding'
        BY <1>6, <4>1 DEF Outstanding
      <4> QED BY <1>1, <3>3, <4>2, SeenBelow
    <3> QED BY <1>3, <2>1, <3>1, <3>2, <3>3
  <2>2. Elements(lanes) = {}
    BY <1>2 DEF Elements
  <2> QED BY <1>1, <2>1, <2>2, StillSeen DEF IInv
<1> QED BY <1>1, <1>7, <1>8, <1>9, <1>10 DEF IInv

-----------------------------------------------------------------------------
(* The replay and the partitions.                                          *)

(* The steps between two trees, which leave the best and the stack alone.  *)
LEMMA BetweenInv ==
  ASSUME IInv, pc \notin {"visit", "scan"}, UNCHANGED <<ix, best, stack, lanes>>,
         TypeOK', PhaseOK', DeferredHaveOneLabel',
         \A n \in Rest : \/ n \in Outstanding'
                         \/ \A r \in ix.below[n] : ~(r.dist < Worst)
  PROVE  IInv'
<1>1. stack = << >> /\ lanes = << >>
  BY DEF IInv, PhaseOK
<1>2. BestInOrder'
  BY DEF IInv, BestInOrder, CandidateBefore
<1>3. StackFits'
  <2>1. pc' = "visit" => ix.height[cur'] \in 0..TreeStack
    BY NodeFacts DEF IInv, PhaseOK
  <2>2. Len(stack') = 0 /\ DOMAIN stack' = {}
    BY <1>1
  <2>3. pc' = "visit" => Len(stack') + ix.height[cur'] <= TreeStack
    BY <2>1, <2>2, KnnAssumption
  <2> QED BY <2>2, <2>3 DEF StackFits
<1>4. Elements(lanes) = {} /\ Elements(stack) = {}
  BY <1>1 DEF Elements
<1>5. Outstanding = Rest
  BY <1>4 DEF Outstanding, Rest
<1>6. NothingForgotten'
  BY <1>4, <1>5, SeenBelow, StillSeen DEF IInv
<1> QED BY <1>2, <1>3, <1>6 DEF IInv

LEMMA ReplayingInv == IInv /\ (StartReplay \/ Replay \/ EndReplay \/ NoReplay) => IInv'
<1> SUFFICES ASSUME IInv, StartReplay \/ Replay \/ EndReplay \/ NoReplay PROVE IInv'
  OBVIOUS
<1>0. /\ pc \in {"searched", "replay"}
      /\ UNCHANGED <<ix, best, stack, lanes, collected, todo>>
      /\ ~(pc \in {"visit", "scan", "collect", "next"})
  BY DEF StartReplay, Replay, EndReplay, NoReplay, treeVars, partVars
<1>1. CASE StartReplay
  <2>1. pc' = "replay" /\ replaying' = TRUE /\ UNCHANGED <<cur, pending, deferLabel>>
    BY <1>1 DEF StartReplay, treeVars
  <2>2. TypeOK' /\ PhaseOK' /\ DeferredHaveOneLabel'
    BY <1>0, <2>1 DEF IInv, TypeOK, PhaseOK, DeferredHaveOneLabel
  <2>3. \A n \in Rest : n \in Outstanding'
    BY <1>0, <2>1 DEF Rest, Outstanding
  <2> QED BY <1>0, <2>2, <2>3, BetweenInv
<1>2. CASE Replay
  <2> DEFINE root == pending[Len(pending)]
  <2>1. /\ pending # << >>
        /\ \/ ix.bound[root] > Worst /\ UNCHANGED <<pc, cur>>
           \/ pc' = "visit" /\ cur' = root
        /\ pending' = SubSeq(pending, 1, Len(pending) - 1)
        /\ UNCHANGED <<deferLabel, replaying>> /\ pc = "replay"
    BY <1>2 DEF Replay
  <2>2. pending \in Seq(ix.nodes) /\ best \in [1..K -> Entry]
    BY DEF IInv, TypeOK
  <2>3. /\ root \in ix.nodes /\ pending' \in Seq(ix.nodes)
        /\ Elements(pending) = {root} \union Elements(pending')
    BY <2>1, <2>2, PoppedSeq
  <2> HIDE DEF root
  <2>4. TypeOK' /\ PhaseOK'
    BY <1>0, <2>1, <2>3 DEF IInv, TypeOK, PhaseOK
  <2>5. DeferredHaveOneLabel'
    BY <1>0, <2>1, <2>3 DEF IInv, DeferredHaveOneLabel
  <2>6. ASSUME NEW n \in Rest
        PROVE  n \in Outstanding' \/ \A r \in ix.below[n] : ~(r.dist < Worst)
    <3>1. CASE n # root
      <4>1. n \in Elements(pending') \union (IF collected THEN todo ELSE ix.others)
        BY <2>3, <2>6, <3>1 DEF Rest
      <4> QED BY <1>0, <4>1 DEF Outstanding
    <3>2. CASE n = root /\ pc' = "visit" /\ cur' = root
      BY <3>2 DEF Outstanding
    <3>3. CASE n = root /\ ix.bound[root] > Worst
      <4>1. ~(ix.bound[root] < Worst)
        <5>1. ix.bound[root] \in Nat /\ Worst \in Nat
          BY <2>2, <2>3, NodeFacts, WorstFacts DEF IInv
        <5> QED BY <3>3, <5>1
      <4> QED BY <2>2, <2>3, <3>3, <4>1, TooFar DEF IInv
    <3> QED BY <2>1, <3>1, <3>2, <3>3
  <2> QED BY <1>0, <2>4, <2>5, <2>6, BetweenInv
<1>3. CASE EndReplay
  <2>1. /\ pending = << >> /\ deferLabel' = NoLabel /\ replaying' = FALSE
        /\ pc' \in {"done"} \union (IF collected THEN {"next"} ELSE {"collect"})
        /\ UNCHANGED <<cur, pending>>
    BY <1>3 DEF EndReplay, PartitionDone, treeVars
  <2>2. TypeOK' /\ PhaseOK'
    BY <1>0, <2>1 DEF IInv, TypeOK, PhaseOK
  <2>3. DeferredHaveOneLabel'
    BY <2>1 DEF DeferredHaveOneLabel, Elements
  <2>4. \A n \in Rest : n \in Outstanding'
    BY <1>0, <2>1 DEF Rest, Outstanding
  <2> QED BY <1>0, <2>2, <2>3, <2>4, BetweenInv
<1>4. CASE NoReplay
  <2>1. /\ pc' \in {"done"} \union (IF collected THEN {"next"} ELSE {"collect"})
        /\ UNCHANGED <<cur, pending, deferLabel, replaying>>
    BY <1>4 DEF NoReplay, PartitionDone, treeVars, deferVars
  <2>2. TypeOK' /\ PhaseOK' /\ DeferredHaveOneLabel'
    BY <1>0, <2>1 DEF IInv, TypeOK, PhaseOK, DeferredHaveOneLabel
  <2>3. \A n \in Rest : n \in Outstanding'
    BY <1>0, <2>1 DEF Rest, Outstanding
  <2> QED BY <1>0, <2>2, <2>3, BetweenInv
<1> QED BY <1>1, <1>2, <1>3, <1>4

LEMMA PartitionsInv == IInv /\ (Collect \/ SearchPartition \/ Finish) => IInv'
<1> SUFFICES ASSUME IInv, Collect \/ SearchPartition \/ Finish PROVE IInv'
  OBVIOUS
<1>0. /\ pc \in {"collect", "next"}
      /\ UNCHANGED <<ix, best, stack, lanes, pending, deferLabel, replaying>>
      /\ ~(pc \in {"visit", "scan"})
  BY DEF Collect, SearchPartition, Finish, treeVars, deferVars
<1>1. ix.others \subseteq ix.nodes /\ best \in [1..K -> Entry] /\ todo \subseteq ix.others
  BY IndexFacts DEF IInv, TypeOK
<1>2. DeferredHaveOneLabel'
  BY <1>0 DEF IInv, DeferredHaveOneLabel
<1>3. CASE Collect
  <2>1. /\ pc = "collect" /\ pc' = "next" /\ collected' = TRUE /\ cur' = cur
        /\ todo' = {n \in ix.others : ix.bound[n] < Worst}
    BY <1>3 DEF Collect, treeVars
  <2>2. TypeOK' /\ PhaseOK'
    BY <1>0, <2>1 DEF IInv, TypeOK, PhaseOK
  <2>3. ~collected
    BY <2>1 DEF IInv, PhaseOK
  <2>4. ASSUME NEW n \in Rest
        PROVE  n \in Outstanding' \/ \A r \in ix.below[n] : ~(r.dist < Worst)
    <3>1. CASE n \in Elements(pending) \/ n \in todo'
      BY <1>0, <2>1, <3>1 DEF Outstanding
    <3>2. CASE n \in ix.others /\ n \notin todo'
      <4>1. n \in ix.nodes /\ ~(ix.bound[n] < Worst)
        BY <1>1, <2>1, <3>2
      <4> QED BY <1>1, <4>1, TooFar DEF IInv
    <3> QED BY <2>3, <2>4, <3>1, <3>2 DEF Rest
  <2> QED BY <1>0, <1>2, <2>2, <2>4, BetweenInv
<1>4. CASE SearchPartition
  <2>1. PICK n \in todo : cur' = n /\ todo' = todo \ {n}
    BY <1>4 DEF SearchPartition
  <2>2. pc = "next" /\ pc' = "visit" /\ collected' = collected
    BY <1>4 DEF SearchPartition
  <2>3. TypeOK' /\ PhaseOK'
    BY <1>0, <1>1, <2>1, <2>2 DEF IInv, TypeOK, PhaseOK
  <2>4. collected
    BY <2>2 DEF IInv, PhaseOK
  <2>5. \A m \in Rest : m \in Outstanding'
    BY <1>0, <2>1, <2>2, <2>4 DEF Rest, Outstanding
  <2> QED BY <1>0, <1>2, <2>3, <2>5, BetweenInv
<1>5. CASE Finish
  <2>1. pc' = "done" /\ UNCHANGED <<cur, collected, todo>>
    BY <1>5 DEF Finish, treeVars, partVars
  <2>2. TypeOK' /\ PhaseOK'
    BY <1>0, <2>1 DEF IInv, TypeOK, PhaseOK
  <2>3. \A n \in Rest : n \in Outstanding'
    BY <1>0, <2>1 DEF Rest, Outstanding
  <2> QED BY <1>0, <1>2, <2>2, <2>3, BetweenInv
<1> QED BY <1>3, <1>4, <1>5

LEMMA InitInv == Init => IInv
<1> SUFFICES ASSUME Init PROVE IInv
  OBVIOUS
<1>1. /\ ix \in Searches /\ cur = ix.home
      /\ pc = IF ix.home = NoNode THEN "collect" ELSE "visit"
      /\ best = [i \in 1..K |-> Placeholder]
      /\ stack = << >> /\ lanes = << >> /\ pending = << >>
      /\ deferLabel = NoLabel /\ replaying = FALSE /\ collected = FALSE /\ todo = {}
  BY DEF Init
<1>2. ix.home # NoNode => ix.home \in ix.nodes
  BY <1>1, IndexFacts
<1>3. TypeOK
  <2>1. best \in [1..K -> Entry]
    BY <1>1, EntryFacts
  <2>2. << >> \in Seq(ix.nodes) /\ << >> \in Seq(Reference)
    OBVIOUS
  <2> QED BY <1>1, <1>2, <2>1, <2>2 DEF TypeOK
<1>4. BestInOrder
  <2>1. Placeholder.dist \in Nat /\ Placeholder.idx \in Nat
    BY EntryFacts
  <2>2. \A i \in 1..K : best[i] = Placeholder
    BY <1>1
  <2> QED BY <2>1, <2>2 DEF BestInOrder, CandidateBefore
<1>5. PhaseOK
  BY <1>1, <1>2 DEF PhaseOK
<1>6. StackFits
  <2>1. pc = "visit" => ix.height[cur] \in 0..TreeStack
    BY <1>1, <1>2, NodeFacts
  <2>2. Len(stack) = 0 /\ DOMAIN stack = {}
    BY <1>1
  <2>3. pc = "visit" => Len(stack) + ix.height[cur] <= TreeStack
    BY <2>1, <2>2, KnnAssumption
  <2> QED BY <2>2, <2>3 DEF StackFits
<1>7. DeferredHaveOneLabel
  BY <1>1 DEF DeferredHaveOneLabel, Elements
<1>8. NothingForgotten
  <2>1. SUFFICES ASSUME NEW r \in References(ix) PROVE r \in Unseen
    BY DEF NothingForgotten
  <2>2. PICK n \in Roots(ix) : r \in ix.below[n]
    BY DEF References
  <2>3. n \in Outstanding
    BY <1>1 DEF Outstanding, Roots
  <2> QED BY <2>2, <2>3 DEF Unseen
<1> QED BY <1>1, <1>3, <1>4, <1>5, <1>6, <1>7, <1>8 DEF IInv

LEMMA StutterInv == IInv /\ UNCHANGED vars => IInv'
BY DEF IInv, vars, treeVars, deferVars, partVars, TypeOK, BestInOrder, CandidateBefore,
  StackFits, PhaseOK, DeferredHaveOneLabel, NothingForgotten, Unseen, Outstanding, Worst

-----------------------------------------------------------------------------
(* The invariant of the search.                                            *)
THEOREM InductiveInvariant == Spec => []IInv
<1>1. IInv /\ [Next]_vars => IInv'
  BY PruneInv, DeferInv, EnterLeafInv, ScanLaneInv, LeaveLeafInv, DescendInv, SkipChildrenInv,
    ReplayingInv, PartitionsInv, StutterInv DEF Next
<1> QED BY InitInv, <1>1, PTL DEF Spec

(* Every variable stays in its type: only nodes of the index are visited,  *)
(* pushed or deferred, and only its references become neighbours.          *)
THEOREM TypeCorrect == Spec => []TypeOK
<1>1. IInv => TypeOK
  BY DEF IInv
<1> QED BY InductiveInvariant, <1>1, PTL

(* What is deferred has the label of the consensus and no other.           *)
THEOREM DeferralsHaveOneLabel == Spec => []DeferredHaveOneLabel
<1>1. IInv => DeferredHaveOneLabel
  BY DEF IInv
<1> QED BY InductiveInvariant, <1>1, PTL

(* No reference nearer than the worst neighbour is lost by pruning,        *)
(* deferring, replaying, skipping partitions or dropping a far child.      *)
THEOREM NothingIsForgotten == Spec => []NothingForgotten
<1>1. IInv => NothingForgotten
  BY DEF IInv
<1> QED BY InductiveInvariant, <1>1, PTL

(* The far child that search_node_iterative_fast would drop without a      *)
(* trace when stack_nodes is full is never dropped.                        *)
THEOREM StackNeverFull ==
  Spec => [](pc = "visit" /\ ~IsLeaf(ix, cur) => Len(stack) < TreeStack)
<1>1. IInv => (pc = "visit" /\ ~IsLeaf(ix, cur) => Len(stack) < TreeStack)
  BY RoomForFar
<1> QED BY InductiveInvariant, <1>1, PTL
-----------------------------------------------------------------------------
(* No reference is scored twice: the places where a reference may be, the  *)
(* K best and those still to be seen, have none in common.                 *)

(* What is below the nodes T.                                              *)
BelowAll(T) == UNION {ix.below[n] : n \in T}

(* What is being scanned, or about to be.                                  *)
HereRefs == IF pc = "visit" THEN ix.below[cur] ELSE Elements(lanes)

RootsLeft == IF collected THEN todo ELSE ix.others

Disjoint(S, T) == S \intersect T = {}

(* The references of the index, and what best starts with.                 *)
Scorable == References(ix) \union {Placeholder}

Apart(all, b, h, s, p, r) ==
  /\ b \subseteq all /\ h \subseteq all /\ s \subseteq all
  /\ p \subseteq all /\ r \subseteq all
  /\ Disjoint(b, h) /\ Disjoint(b, s) /\ Disjoint(b, p) /\ Disjoint(b, r)
  /\ Disjoint(h, s) /\ Disjoint(h, p) /\ Disjoint(h, r)
  /\ Disjoint(s, p) /\ Disjoint(s, r) /\ Disjoint(p, r)

(* Nothing is below two of the nodes of q.                                 *)
OneByOne(q) ==
  \A i, j \in DOMAIN q : i # j => Disjoint(ix.below[q[i]], ix.below[q[j]])

NoneTwice(q) == \A i, j \in DOMAIN q : i # j => q[i] # q[j]

OnceInv ==
  /\ Apart(Scorable, Elements(best), HereRefs, BelowAll(Elements(stack)),
           BelowAll(Elements(pending)), BelowAll(RootsLeft))
  /\ OneByOne(stack) /\ OneByOne(pending)
  /\ NoneTwice(lanes)
  /\ NoReferenceTwice

LEMMA InsertOnce ==
  ASSUME best \in [1..K -> Entry], BestInOrder, NoReferenceTwice,
         NEW r \in Reference, r \notin Elements(best), best' = InsertBest(r)
  PROVE  /\ NoReferenceTwice'
         /\ Elements(best') \subseteq Elements(best) \union {r}
<1> DEFINE Before(i) == CandidateBefore(r, best[i])
<1>1. K \in Nat \ {0} /\ r \in Entry
  BY KnnAssumption, EntryFacts
<1>2. best' \in [1..K -> Entry]
  BY <1>1, InsertKeepsOrder
<1>3. /\ \A i \in 1..K : best[i] \in Entry /\ best[i] \in Elements(best) /\ r # best[i]
      /\ DOMAIN best' = 1..K
  BY <1>2 DEF Elements
<1>4. \A i \in 1..K :
        \/ ~Before(i) /\ best'[i] = best[i]
        \/ Before(i) /\ (i = 1 \/ ~Before(i - 1)) /\ best'[i] = r
        \/ Before(i) /\ i # 1 /\ Before(i - 1) /\ best'[i] = best[i - 1]
  BY <1>1 DEF InsertBest
<1>5. \A i \in 1..K : i # 1 => i - 1 \in 1..K
  BY <1>1
<1>6. \A i, j \in 1..K : i < j /\ Before(i) => Before(j)
  <2>1. SUFFICES ASSUME NEW i \in 1..K, NEW j \in 1..K, i < j, Before(i) PROVE Before(j)
    OBVIOUS
  <2>2. ~CandidateBefore(best[j], best[i])
    BY <2>1 DEF BestInOrder
  <2> QED BY <1>1, <1>3, <2>1, <2>2, OrderOfEntries
<1>7. \A i, j \in 1..K : i # j => best[i] # best[j] \/ best[i] = Placeholder
  BY DEF NoReferenceTwice
<1>8. ASSUME NEW i \in 1..K, NEW j \in 1..K, i < j
      PROVE  best'[i] # best'[j] \/ best'[i] = Placeholder
  <2>1. j # 1 /\ j - 1 \in 1..K /\ (i = j - 1 \/ i < j - 1) /\ i # j
    BY <1>8, <1>1
  <2>2. i # 1 => i - 1 \in 1..K /\ i - 1 # j - 1
    BY <1>8, <1>5
  <2>3. CASE ~Before(i)
    <3>1. best'[i] = best[i]
      BY <1>4, <2>3
    <3>2. CASE best'[j] = best[j]
      BY <1>7, <2>1, <3>1, <3>2
    <3>3. CASE best'[j] = r
      BY <1>3, <3>1, <3>3
    <3>4. CASE Before(j - 1) /\ best'[j] = best[j - 1]
      <4>1. i # j - 1
        BY <2>3, <3>4
      <4> QED BY <1>7, <2>1, <3>1, <3>4, <4>1
    <3> QED BY <1>4, <3>2, <3>3, <3>4
  <2>4. CASE Before(i)
    <3>1. Before(j) /\ Before(j - 1)
      BY <1>6, <1>8, <2>1, <2>4
    <3>2. best'[j] = best[j - 1]
      BY <1>4, <2>1, <3>1
    <3>3. CASE best'[i] = r
      BY <1>3, <2>1, <3>2, <3>3
    <3>4. CASE i # 1 /\ best'[i] = best[i - 1]
      BY <1>7, <2>1, <2>2, <3>2, <3>4
    <3> QED BY <1>4, <2>4, <3>3, <3>4
  <2> QED BY <2>3, <2>4
<1>9. NoReferenceTwice'
  <2>1. SUFFICES ASSUME NEW i \in 1..K, NEW j \in 1..K, i # j
                 PROVE  best'[i] # best'[j] \/ best'[i] = Placeholder
    BY DEF NoReferenceTwice, Placeholder
  <2>2. i < j \/ j < i
    BY <1>1, <2>1
  <2> QED BY <1>8, <2>2
<1>10. Elements(best') \subseteq Elements(best) \union {r}
  <2>1. \A i \in 1..K : best'[i] \in Elements(best) \union {r}
    BY <1>3, <1>4, <1>5
  <2> QED BY <1>3, <2>1 DEF Elements
<1> QED BY <1>9, <1>10

LEMMA SameScorable == ix' = ix => Scorable' = Scorable
BY DEF Scorable, References, Roots, Placeholder

(* Two places of a queue of nodes share nothing with each other once the   *)
(* last is taken off it.                                                   *)
LEMMA TakenApart ==
  ASSUME NEW N, NEW q \in Seq(N), q # << >>, OneByOne(q)
  PROVE  /\ OneByOne(SubSeq(q, 1, Len(q) - 1))
         /\ BelowAll(Elements(q)) =
              ix.below[q[Len(q)]] \union BelowAll(Elements(SubSeq(q, 1, Len(q) - 1)))
         /\ Disjoint(ix.below[q[Len(q)]], BelowAll(Elements(SubSeq(q, 1, Len(q) - 1))))
<1> DEFINE n == Len(q)
           t == SubSeq(q, 1, n - 1)
<1>1. /\ n \in Nat \ {0} /\ t \in Seq(N) /\ Len(t) = n - 1
      /\ \A i \in 1..(n - 1) : t[i] = q[i]
      /\ Elements(q) = {q[n]} \union Elements(t)
  BY PoppedSeq
<1>2. DOMAIN q = 1..n /\ DOMAIN t = 1..(n - 1)
  BY <1>1
<1>3. n \in DOMAIN q /\ \A i \in DOMAIN t : i \in DOMAIN q /\ i # n /\ t[i] = q[i]
  BY <1>1, <1>2
<1> HIDE DEF n, t
<1>4. OneByOne(t)
  BY <1>3 DEF OneByOne
<1>5. BelowAll(Elements(q)) = ix.below[q[n]] \union BelowAll(Elements(t))
  BY <1>1 DEF BelowAll
<1>6. \A e \in Elements(t) : Disjoint(ix.below[q[n]], ix.below[e])
  BY <1>3 DEF OneByOne, Elements
<1>7. Disjoint(ix.below[q[n]], BelowAll(Elements(t)))
  BY <1>6 DEF Disjoint, BelowAll
<1> QED BY <1>4, <1>5, <1>7 DEF n, t

LEMMA PutApart ==
  ASSUME NEW N, NEW q \in Seq(N), NEW e \in N, OneByOne(q),
         Disjoint(ix.below[e], BelowAll(Elements(q)))
  PROVE  /\ OneByOne(Append(q, e))
         /\ BelowAll(Elements(Append(q, e))) = ix.below[e] \union BelowAll(Elements(q))
<1> DEFINE n == Len(q)
           t == Append(q, e)
<1>1. /\ n \in Nat /\ t \in Seq(N) /\ Len(t) = n + 1
      /\ \A i \in 1..n : t[i] = q[i]
      /\ t[n + 1] = e
      /\ Elements(t) = {e} \union Elements(q)
  BY PushedSeq
<1>2. DOMAIN q = 1..n /\ DOMAIN t = 1..(n + 1)
  BY <1>1
<1> HIDE DEF n, t
<1>3. \A i \in DOMAIN t : (i = n + 1 /\ t[i] = e) \/ (i \in DOMAIN q /\ t[i] = q[i])
  <2>1. \A i \in 1..(n + 1) : i = n + 1 \/ i \in 1..n
    BY <1>1
  <2>2. SUFFICES ASSUME NEW i \in 1..(n + 1)
                 PROVE  (i = n + 1 /\ t[i] = e) \/ (i \in DOMAIN q /\ t[i] = q[i])
    BY <1>2
  <2>3. CASE i = n + 1
    BY <1>1, <2>3
  <2>4. CASE i \in 1..n
    BY <1>1, <1>2, <2>4
  <2> QED BY <2>1, <2>2, <2>3, <2>4
<1>4. \A i \in DOMAIN q : Disjoint(ix.below[e], ix.below[q[i]])
  BY DEF Disjoint, BelowAll, Elements
<1>5. OneByOne(t)
  BY <1>3, <1>4 DEF OneByOne, Disjoint
<1>6. BelowAll(Elements(t)) = ix.below[e] \union BelowAll(Elements(q))
  BY <1>1 DEF BelowAll
<1> QED BY <1>5, <1>6 DEF n, t

LEMMA NothingThere == Elements(<< >>) = {} /\ NoneTwice(<< >>) /\ BelowAll({}) = {}
BY DEF Elements, NoneTwice, BelowAll

(* A backtrack takes what is below the top of the stack, and only that, to *)
(* the search.                                                             *)
LEMMA BacktrackApart ==
  ASSUME IInv, OneByOne(stack), pc \in {"visit", "scan"}, Backtrack,
         ix' = ix, lanes' = << >>
  PROVE  /\ HereRefs' \subseteq BelowAll(Elements(stack))
         /\ BelowAll(Elements(stack))' \subseteq BelowAll(Elements(stack))
         /\ Disjoint(HereRefs', BelowAll(Elements(stack))')
         /\ OneByOne(stack)'
<1>1. stack \in Seq(ix.nodes)
  BY DEF IInv, TypeOK
<1>2. CASE stack = << >>
  <2>1. pc' # "visit" /\ stack' = stack
    BY <1>2 DEF Backtrack
  <2>2. HereRefs' = {}
    BY <2>1, NothingThere DEF HereRefs
  <2> QED BY <2>1, <2>2 DEF BelowAll, Disjoint, OneByOne
<1>3. CASE stack # << >>
  <2>1. /\ cur' = stack[Len(stack)] /\ pc' = "visit"
        /\ stack' = SubSeq(stack, 1, Len(stack) - 1)
    BY <1>3 DEF Backtrack
  <2>2. HereRefs' = ix.below[stack[Len(stack)]]
    BY <2>1 DEF HereRefs
  <2>3. PICK rest : rest = SubSeq(stack, 1, Len(stack) - 1)
    OBVIOUS
  <2>4. /\ OneByOne(rest)
        /\ BelowAll(Elements(stack)) = ix.below[stack[Len(stack)]] \union BelowAll(Elements(rest))
        /\ Disjoint(ix.below[stack[Len(stack)]], BelowAll(Elements(rest)))
    BY <1>1, <1>3, <2>3, TakenApart
  <2>5. BelowAll(Elements(stack))' = BelowAll(Elements(rest)) /\ OneByOne(stack)'
    BY <2>1, <2>3, <2>4 DEF BelowAll, OneByOne
  <2> QED BY <2>2, <2>4, <2>5
<1> QED BY <1>2, <1>3

LEMMA BacktrackOnce ==
  ASSUME IInv, OnceInv, pc \in {"visit", "scan"}, Backtrack,
         UNCHANGED <<ix, best, collected, todo>>, lanes' = << >>,
         OneByOne(pending)',
         BelowAll(Elements(pending))' \subseteq
           BelowAll(Elements(pending)) \union HereRefs
  PROVE  OnceInv'
<1>1. /\ HereRefs' \subseteq BelowAll(Elements(stack))
      /\ BelowAll(Elements(stack))' \subseteq BelowAll(Elements(stack))
      /\ Disjoint(HereRefs', BelowAll(Elements(stack))')
      /\ OneByOne(stack)'
  BY BacktrackApart DEF OnceInv
<1>2. BelowAll(RootsLeft)' = BelowAll(RootsLeft) /\ Elements(best)' = Elements(best)
  BY DEF BelowAll, RootsLeft
<1>3. Apart(Scorable, Elements(best), HereRefs, BelowAll(Elements(stack)),
            BelowAll(Elements(pending)), BelowAll(RootsLeft))'
  BY <1>1, <1>2, SameScorable DEF OnceInv, Apart, Disjoint
<1>4. NoneTwice(lanes)' /\ NoReferenceTwice'
  BY NothingThere DEF OnceInv, NoReferenceTwice, Placeholder, NoneTwice
<1> QED BY <1>1, <1>3, <1>4 DEF OnceInv

LEMMA LeavingOnce ==
  IInv /\ OnceInv /\ (Prune \/ Defer \/ LeaveLeaf \/ SkipChildren) => OnceInv'
<1> SUFFICES ASSUME IInv, OnceInv, Prune \/ Defer \/ LeaveLeaf \/ SkipChildren
             PROVE  OnceInv'
  OBVIOUS
<1>1. /\ pc \in {"visit", "scan"} /\ Backtrack
      /\ UNCHANGED <<ix, best, lanes, collected, todo>>
  BY DEF Prune, Defer, LeaveLeaf, SkipChildren, partVars
<1>2. lanes = << >>
  BY DEF IInv, PhaseOK, Prune, Defer, LeaveLeaf, SkipChildren
<1>3. CASE Prune \/ LeaveLeaf \/ SkipChildren
  <2>1. pending' = pending
    BY <1>3 DEF Prune, LeaveLeaf, SkipChildren, deferVars
  <2>2. OneByOne(pending)' /\ BelowAll(Elements(pending))' = BelowAll(Elements(pending))
    BY <1>1, <2>1 DEF OnceInv, OneByOne, BelowAll
  <2> QED BY <1>1, <1>2, <2>2, BacktrackOnce
<1>4. CASE Defer
  <2>1. pc = "visit" /\ pending' = Append(pending, cur)
    BY <1>4 DEF Defer
  <2>2. cur \in ix.nodes /\ pending \in Seq(ix.nodes) /\ HereRefs = ix.below[cur]
    BY <2>1 DEF IInv, PhaseOK, TypeOK, HereRefs
  <2>3. Disjoint(ix.below[cur], BelowAll(Elements(pending))) /\ OneByOne(pending)
    BY <2>2 DEF OnceInv, Apart
  <2>4. PICK longer : longer = Append(pending, cur)
    OBVIOUS
  <2>5. /\ OneByOne(longer)
        /\ BelowAll(Elements(longer)) = ix.below[cur] \union BelowAll(Elements(pending))
    BY <2>2, <2>3, <2>4, PutApart
  <2>6. OneByOne(pending)' /\ BelowAll(Elements(pending))' = BelowAll(Elements(longer))
    BY <1>1, <2>1, <2>4, <2>5 DEF OneByOne, BelowAll
  <2> QED BY <1>1, <1>2, <2>2, <2>5, <2>6, BacktrackOnce
<1> QED BY <1>3, <1>4

LEMMA EnterLeafOnce == IInv /\ OnceInv /\ EnterLeaf => OnceInv'
<1> SUFFICES ASSUME IInv, OnceInv, EnterLeaf PROVE OnceInv'
  OBVIOUS
<1>1. /\ pc = "visit" /\ IsLeaf(ix, cur) /\ pc' = "scan" /\ lanes' = ix.refs[cur]
      /\ UNCHANGED <<ix, best, cur, stack, pending, collected, todo>>
  BY DEF EnterLeaf, deferVars, partVars
<1>2. cur \in ix.nodes
  BY <1>1 DEF IInv, PhaseOK
<1>3. Elements(ix.refs[cur]) = ix.below[cur]
  BY <1>1, <1>2, LeafFacts DEF IInv
<1>4. NoneTwice(ix.refs[cur])
  BY <1>1, <1>2, IndexFacts DEF IInv, Sound, NoneTwice
<1>5. HereRefs' = HereRefs /\ NoneTwice(lanes)'
  BY <1>1, <1>3, <1>4 DEF HereRefs, NoneTwice
<1>6. Apart(Scorable, Elements(best), HereRefs, BelowAll(Elements(stack)),
            BelowAll(Elements(pending)), BelowAll(RootsLeft))'
  BY <1>1, <1>5, SameScorable DEF OnceInv, BelowAll, RootsLeft
<1>7. OneByOne(stack)' /\ OneByOne(pending)' /\ NoReferenceTwice'
  BY <1>1 DEF OnceInv, OneByOne, NoReferenceTwice, Placeholder
<1> QED BY <1>5, <1>6, <1>7 DEF OnceInv

LEMMA TailOnce ==
  ASSUME NEW S, NEW q \in Seq(S), q # << >>, NoneTwice(q)
  PROVE  /\ q[1] \notin Elements(SubSeq(q, 2, Len(q)))
         /\ NoneTwice(SubSeq(q, 2, Len(q)))
<1> DEFINE n == Len(q)
           t == SubSeq(q, 2, n)
<1>1. n \in Nat \ {0} /\ 1 \in Nat /\ 1 <= n /\ n <= Len(q) /\ 1 + 1 = 2 /\ DOMAIN q = 1..n
  OBVIOUS
<1>2. t \in Seq(S) /\ Len(t) = n - 1 /\ \A k \in 1..(n - 1) : t[k] = q[1 + k]
  <2>1. /\ SubSeq(q, 1 + 1, n) \in Seq(S)
        /\ Len(SubSeq(q, 1 + 1, n)) = n - 1
        /\ \A k \in 1..(n - 1) : SubSeq(q, 1 + 1, n)[k] = q[1 + k]
    <3> HIDE DEF n, t
    <3> QED BY <1>1, SubSeqFacts
  <2> QED BY <1>1, <2>1
<1> HIDE DEF t
<1>3. DOMAIN t = 1..(n - 1)
  BY <1>2
<1>4. \A k \in 1..(n - 1) : 1 + k \in 1..n /\ 1 + k # 1 /\ 1 \in 1..n
  BY <1>1
<1>5. \A j, k \in 1..(n - 1) : j # k => 1 + j # 1 + k
  BY <1>1
<1> HIDE DEF n
<1>6. \A i, j \in 1..n : i # j => q[i] # q[j]
  BY <1>1 DEF NoneTwice
<1>7. \A k \in DOMAIN t : t[k] # q[1]
  <2>1. SUFFICES ASSUME NEW k \in 1..(n - 1) PROVE q[1 + k] # q[1]
    BY <1>2, <1>3
  <2> QED BY <1>4, <1>6, <2>1
<1>8. NoneTwice(t)
  <2>1. SUFFICES ASSUME NEW j \in 1..(n - 1), NEW k \in 1..(n - 1), j # k
                 PROVE  q[1 + j] # q[1 + k]
    BY <1>2, <1>3 DEF NoneTwice
  <2> QED BY <1>4, <1>5, <1>6, <2>1
<1> QED BY <1>7, <1>8 DEF Elements, n, t

LEMMA ScanLaneOnce == IInv /\ OnceInv /\ ScanLane => OnceInv'
<1> SUFFICES ASSUME IInv, OnceInv, ScanLane PROVE OnceInv'
  OBVIOUS
<1>1. PICK r : r = lanes[1]
  OBVIOUS
<1>2. /\ pc = "scan" /\ lanes # << >> /\ best' = InsertBest(r)
      /\ lanes' = SubSeq(lanes, 2, Len(lanes))
      /\ UNCHANGED <<ix, pc, cur, stack, pending, collected, todo>>
  BY <1>1 DEF ScanLane, deferVars, partVars
<1>3. PICK t : t = SubSeq(lanes, 2, Len(lanes))
  OBVIOUS
<1>4. /\ r \in Reference /\ Elements(lanes) = {r} \union Elements(t)
      /\ r \notin Elements(t) /\ NoneTwice(t)
  BY <1>1, <1>2, <1>3, TailSeq, TailOnce DEF IInv, TypeOK, OnceInv
<1>5. HereRefs = {r} \union Elements(t) /\ HereRefs' = Elements(t) /\ NoneTwice(lanes)'
  BY <1>2, <1>3, <1>4 DEF HereRefs, NoneTwice
<1>6. r \notin Elements(best)
  BY <1>5 DEF OnceInv, Apart, Disjoint
<1>7. /\ NoReferenceTwice'
      /\ Elements(best') \subseteq Elements(best) \union {r}
  BY <1>2, <1>4, <1>6, InsertOnce DEF IInv, TypeOK, OnceInv
<1>8. /\ BelowAll(Elements(stack))' = BelowAll(Elements(stack))
      /\ BelowAll(Elements(pending))' = BelowAll(Elements(pending))
      /\ BelowAll(RootsLeft)' = BelowAll(RootsLeft)
  BY <1>2 DEF BelowAll, RootsLeft
<1>9. Scorable' = Scorable
  BY <1>2, SameScorable
<1>10. Apart(Scorable, Elements(best), HereRefs, BelowAll(Elements(stack)),
            BelowAll(Elements(pending)), BelowAll(RootsLeft))'
  BY <1>4, <1>5, <1>7, <1>8, <1>9 DEF OnceInv, Apart, Disjoint
<1>11. OneByOne(stack)' /\ OneByOne(pending)'
  BY <1>2 DEF OnceInv, OneByOne
<1> QED BY <1>5, <1>7, <1>10, <1>11 DEF OnceInv

LEMMA DescendOnce == IInv /\ OnceInv /\ Descend => OnceInv'
<1> SUFFICES ASSUME IInv, OnceInv, Descend PROVE OnceInv'
  OBVIOUS
<1>1. PICK near, far : near = Near /\ far = Far
  OBVIOUS
<1>2. /\ pc = "visit" /\ ~IsLeaf(ix, cur) /\ cur' = near
      /\ stack' = stack \/ stack' = Append(stack, far)
      /\ UNCHANGED <<ix, pc, best, lanes, pending, collected, todo>>
  BY <1>1 DEF Descend, deferVars, partVars
<1>3. cur \in ix.nodes /\ stack \in Seq(ix.nodes)
  BY <1>2 DEF IInv, PhaseOK, TypeOK
<1>4. /\ near \in ix.nodes /\ far \in ix.nodes
      /\ ix.below[cur] = ix.below[near] \union ix.below[far]
  BY <1>1, <1>2, <1>3, ChildrenFacts
<1>5. Disjoint(ix.below[near], ix.below[far])
  <2>1. ix.below[ix.left[cur]] \intersect ix.below[ix.right[cur]] = {}
    BY <1>2, <1>3, IndexFacts DEF IInv, Sound
  <2> QED BY <1>1, <2>1 DEF Near, Far, Disjoint
<1>6. HereRefs = ix.below[cur] /\ HereRefs' = ix.below[near]
  BY <1>2 DEF HereRefs
<1>7. /\ OneByOne(stack)'
      /\ BelowAll(Elements(stack))' \subseteq BelowAll(Elements(stack)) \union ix.below[far]
  <2>1. CASE stack' = stack
    BY <1>2, <2>1 DEF OnceInv, OneByOne, BelowAll
  <2>2. CASE stack' = Append(stack, far)
    <3>1. Disjoint(ix.below[far], BelowAll(Elements(stack))) /\ OneByOne(stack)
      BY <1>4, <1>6 DEF OnceInv, Apart, Disjoint
    <3>2. PICK longer : longer = Append(stack, far)
      OBVIOUS
    <3>3. /\ OneByOne(longer)
          /\ BelowAll(Elements(longer)) = ix.below[far] \union BelowAll(Elements(stack))
      BY <1>3, <1>4, <3>1, <3>2, PutApart
    <3>4. OneByOne(stack)' /\ BelowAll(Elements(stack))' = BelowAll(Elements(longer))
      BY <1>2, <2>2, <3>2, <3>3 DEF OneByOne, BelowAll
    <3> QED BY <3>3, <3>4
  <2> QED BY <1>2, <2>1, <2>2
<1>8. /\ Elements(best)' = Elements(best)
      /\ BelowAll(Elements(pending))' = BelowAll(Elements(pending))
      /\ BelowAll(RootsLeft)' = BelowAll(RootsLeft)
  BY <1>2 DEF BelowAll, RootsLeft
<1>9. Scorable' = Scorable
  BY <1>2, SameScorable
<1>10. Apart(Scorable, Elements(best), HereRefs, BelowAll(Elements(stack)),
            BelowAll(Elements(pending)), BelowAll(RootsLeft))'
  BY <1>4, <1>5, <1>6, <1>7, <1>8, <1>9 DEF OnceInv, Apart, Disjoint
<1>11. OneByOne(pending)' /\ NoneTwice(lanes)' /\ NoReferenceTwice'
  BY <1>2 DEF OnceInv, OneByOne, NoneTwice, NoReferenceTwice, Placeholder
<1> QED BY <1>7, <1>10, <1>11 DEF OnceInv

(* Between two trees only what is deferred and the roots are left.         *)
LEMMA BetweenOnce ==
  ASSUME IInv, OnceInv, pc \notin {"visit", "scan"}, UNCHANGED <<ix, best, stack, lanes>>,
         OneByOne(pending)', BelowAll(RootsLeft)' \subseteq BelowAll(RootsLeft),
         BelowAll(Elements(pending))' \subseteq BelowAll(Elements(pending)),
         pc' # "visit" \/
           /\ ix.below[cur'] \subseteq BelowAll(RootsLeft) \union BelowAll(Elements(pending))
           /\ Disjoint(ix.below[cur'], BelowAll(RootsLeft)')
           /\ Disjoint(ix.below[cur'], BelowAll(Elements(pending))')
  PROVE  OnceInv'
<1>1. lanes = << >> /\ stack = << >>
  BY DEF IInv, PhaseOK
<1>2. HereRefs' = (IF pc' = "visit" THEN ix.below[cur'] ELSE {})
  BY <1>1, NothingThere DEF HereRefs
<1>3. BelowAll(Elements(stack))' = {} /\ Elements(best)' = Elements(best)
  BY <1>1, NothingThere DEF BelowAll
<1>4. Apart(Scorable, Elements(best), HereRefs, BelowAll(Elements(stack)),
            BelowAll(Elements(pending)), BelowAll(RootsLeft))'
  BY <1>2, <1>3, SameScorable DEF OnceInv, Apart, Disjoint
<1>5. OneByOne(stack)' /\ NoneTwice(lanes)' /\ NoReferenceTwice'
  BY DEF OnceInv, OneByOne, NoneTwice, NoReferenceTwice, Placeholder
<1> QED BY <1>4, <1>5 DEF OnceInv

LEMMA ReplayingOnce ==
  IInv /\ OnceInv /\ (StartReplay \/ Replay \/ EndReplay \/ NoReplay) => OnceInv'
<1> SUFFICES ASSUME IInv, OnceInv, StartReplay \/ Replay \/ EndReplay \/ NoReplay
             PROVE  OnceInv'
  OBVIOUS
<1>1. /\ pc \notin {"visit", "scan"}
      /\ UNCHANGED <<ix, best, stack, lanes, collected, todo>>
  BY DEF StartReplay, Replay, EndReplay, NoReplay, treeVars, partVars
<1>2. BelowAll(RootsLeft)' = BelowAll(RootsLeft)
  BY <1>1 DEF BelowAll, RootsLeft
<1>3. CASE StartReplay \/ EndReplay \/ NoReplay
  <2>1. pending' = pending /\ pc' # "visit"
    BY <1>3 DEF StartReplay, EndReplay, NoReplay, PartitionDone, deferVars
  <2>2. OneByOne(pending)' /\ BelowAll(Elements(pending))' = BelowAll(Elements(pending))
    BY <1>1, <2>1 DEF OnceInv, OneByOne, BelowAll
  <2> QED BY <1>1, <1>2, <2>1, <2>2, BetweenOnce
<1>4. CASE Replay
  <2>1. PICK root : root = pending[Len(pending)]
    OBVIOUS
  <2>2. PICK rest : rest = SubSeq(pending, 1, Len(pending) - 1)
    OBVIOUS
  <2>3. /\ pending # << >> /\ pending' = rest /\ pc = "replay"
        /\ pc' = pc \/ cur' = root
    BY <1>4, <2>1, <2>2 DEF Replay
  <2>4. /\ OneByOne(rest)
        /\ BelowAll(Elements(pending)) = ix.below[root] \union BelowAll(Elements(rest))
        /\ Disjoint(ix.below[root], BelowAll(Elements(rest)))
    BY <2>1, <2>2, <2>3, TakenApart DEF IInv, TypeOK, OnceInv
  <2>5. OneByOne(pending)' /\ BelowAll(Elements(pending))' = BelowAll(Elements(rest))
    BY <1>1, <2>3, <2>4 DEF OneByOne, BelowAll
  <2>6. Disjoint(ix.below[root], BelowAll(RootsLeft))
    BY <2>4 DEF OnceInv, Apart, Disjoint
  <2> QED BY <1>1, <1>2, <2>3, <2>4, <2>5, <2>6, BetweenOnce
<1> QED BY <1>3, <1>4

LEMMA PartitionsOnce ==
  IInv /\ OnceInv /\ (Collect \/ SearchPartition \/ Finish) => OnceInv'
<1> SUFFICES ASSUME IInv, OnceInv, Collect \/ SearchPartition \/ Finish PROVE OnceInv'
  OBVIOUS
<1>1. /\ pc \in {"collect", "next"}
      /\ UNCHANGED <<ix, best, stack, lanes, pending>>
  BY DEF Collect, SearchPartition, Finish, treeVars, deferVars
<1>2. OneByOne(pending)' /\ BelowAll(Elements(pending))' = BelowAll(Elements(pending))
  BY <1>1 DEF OnceInv, OneByOne, BelowAll
<1>3. CASE Collect
  <2>1. ~collected /\ collected' /\ todo' \subseteq ix.others /\ pc' # "visit"
    BY <1>3 DEF Collect, IInv, PhaseOK
  <2>2. BelowAll(RootsLeft)' \subseteq BelowAll(RootsLeft)
    BY <1>1, <2>1 DEF BelowAll, RootsLeft
  <2> QED BY <1>1, <1>2, <2>1, <2>2, BetweenOnce
<1>4. CASE Finish
  <2>1. pc' # "visit" /\ BelowAll(RootsLeft)' = BelowAll(RootsLeft)
    BY <1>1, <1>4 DEF Finish, partVars, BelowAll, RootsLeft
  <2> QED BY <1>1, <1>2, <2>1, BetweenOnce
<1>5. CASE SearchPartition
  <2>1. PICK n \in todo : cur' = n /\ todo' = todo \ {n} /\ collected' = collected
    BY <1>5 DEF SearchPartition
  <2>2. collected /\ todo \subseteq ix.others
    BY <1>5 DEF SearchPartition, IInv, PhaseOK, TypeOK
  <2>3. RootsLeft = todo /\ BelowAll(RootsLeft)' = BelowAll(todo \ {n})
    BY <1>1, <2>1, <2>2 DEF RootsLeft, BelowAll
  <2>4. BelowAll(todo) = ix.below[n] \union BelowAll(todo \ {n})
    BY <2>1 DEF BelowAll
  <2>5. \A m \in todo \ {n} : Disjoint(ix.below[n], ix.below[m])
    <3>1. \A m \in todo : m \in Roots(ix)
      BY <2>2 DEF Roots
    <3> QED BY <2>1, <3>1, SearchesAssumption DEF IInv, Search, Disjoint
  <2>6. Disjoint(ix.below[n], BelowAll(todo \ {n}))
    BY <2>5 DEF Disjoint, BelowAll
  <2>7. Disjoint(ix.below[n], BelowAll(Elements(pending)))
    BY <2>3, <2>4 DEF OnceInv, Apart, Disjoint
  <2> QED BY <1>1, <1>2, <2>1, <2>3, <2>4, <2>6, <2>7, BetweenOnce
<1> QED BY <1>3, <1>4, <1>5

LEMMA InitOnce == Init => OnceInv
<1> SUFFICES ASSUME Init PROVE OnceInv
  OBVIOUS
<1>1. /\ ix \in Searches /\ cur = ix.home
      /\ pc = IF ix.home = NoNode THEN "collect" ELSE "visit"
      /\ best = [i \in 1..K |-> Placeholder]
      /\ stack = << >> /\ lanes = << >> /\ pending = << >> /\ collected = FALSE
  BY DEF Init
<1>2. /\ BelowAll(Elements(stack)) = {} /\ BelowAll(Elements(pending)) = {}
      /\ BelowAll(RootsLeft) = BelowAll(ix.others)
  BY <1>1, NothingThere DEF RootsLeft
<1>3. HereRefs = {} \/ (ix.home # NoNode /\ HereRefs = ix.below[ix.home])
  <2>1. CASE pc = "visit"
    BY <1>1, <2>1 DEF HereRefs
  <2>2. CASE pc # "visit"
    BY <1>1, <2>2, NothingThere DEF HereRefs
  <2> QED BY <2>1, <2>2
<1>4. \A n \in Roots(ix) : ix.below[n] \subseteq Reference
  BY <1>1, IndexFacts DEF Roots
<1>5. HereRefs \subseteq Reference /\ BelowAll(ix.others) \subseteq Reference
  BY <1>3, <1>4 DEF BelowAll, Roots
<1>6. Elements(best) \subseteq {Placeholder} /\ Placeholder \notin Reference
  <2>1. Placeholder \notin Reference
    BY KnnAssumption DEF Placeholder, Reference
  <2> QED BY <1>1, <2>1 DEF Elements
<1>7. Disjoint(HereRefs, BelowAll(ix.others))
  <2>1. ix.home # NoNode => \A m \in ix.others : Disjoint(ix.below[ix.home], ix.below[m])
    BY <1>1, SearchesAssumption DEF Search, Roots, Disjoint
  <2> QED BY <1>3, <2>1 DEF Disjoint, BelowAll
<1>8. HereRefs \subseteq Scorable /\ BelowAll(ix.others) \subseteq Scorable
  BY <1>3 DEF Scorable, References, BelowAll, Roots
<1>9. Apart(Scorable, Elements(best), HereRefs, BelowAll(Elements(stack)),
            BelowAll(Elements(pending)), BelowAll(RootsLeft))
  BY <1>2, <1>5, <1>6, <1>7, <1>8 DEF Apart, Disjoint, Scorable
<1>10. OneByOne(stack) /\ OneByOne(pending) /\ NoneTwice(lanes) /\ NoReferenceTwice
  BY <1>1 DEF OneByOne, NoneTwice, NoReferenceTwice
<1> QED BY <1>9, <1>10 DEF OnceInv

LEMMA StutterOnce == OnceInv /\ UNCHANGED vars => OnceInv'
BY SameScorable DEF OnceInv, vars, treeVars, deferVars, partVars, HereRefs, RootsLeft, BelowAll, OneByOne,
  NoneTwice, NoReferenceTwice, Placeholder

(* What is kept and what is still to be visited have no reference in       *)
(* common, at any point of the search.                                     *)
THEOREM OnceInvariant == Spec => []OnceInv
<1>1. IInv /\ OnceInv /\ [Next]_vars => OnceInv'
  BY LeavingOnce, EnterLeafOnce, ScanLaneOnce, DescendOnce, ReplayingOnce, PartitionsOnce,
    StutterOnce DEF Next
<1> QED BY InductiveInvariant, InitOnce, <1>1, PTL DEF Spec

(* A reference takes one of the K places at most, although a deferred      *)
(* subtree is left and come back to by replay_pending_if_needed.           *)
THEOREM ScoredOnce == Spec => []NoReferenceTwice
<1>1. OnceInv => NoReferenceTwice
  BY DEF OnceInv
<1> QED BY OnceInvariant, <1>1, PTL

-----------------------------------------------------------------------------
(* The answer.                                                             *)

Settled == pending = << >> \/ Consensus(deferLabel)

(* What is still deferred when no partition is being searched cannot       *)
(* change the count, and no partition is left that could.                  *)
AnswerInv ==
  /\ pc \in {"collect", "next"} => Settled
  /\ pc = "done" => \/ Worst < ix.earlyExit
                    \/ Settled /\ collected /\ \A n \in todo : ~(ix.bound[n] < Worst)

LEMMA DoneAnswer ==
  ASSUME PartitionDone, UNCHANGED <<ix, best, pending>>,
         pending = << >> \/ (deferLabel' = deferLabel /\ Consensus(deferLabel))
  PROVE  AnswerInv'
<1>1. (pc' = "done" /\ Worst < ix.earlyExit) \/ pc' \in {"next", "collect"}
  BY DEF PartitionDone
<1>2. Settled'
  BY DEF Settled, Consensus, Worst
<1> QED BY <1>1, <1>2 DEF AnswerInv, Worst

(* Among the roots left, one is the nearest.                               *)
LEMMA NearestExists ==
  ASSUME IInv, todo # {}
  PROVE  \E n \in todo : Nearest(n)
<1> DEFINE T == {ix.bound[n] : n \in todo}
<1>1. \A n \in todo : ix.bound[n] \in Nat
  BY IndexFacts, NodeFacts DEF IInv, TypeOK
<1>2. T \subseteq Nat /\ T # {}
  BY <1>1
<1>3. PICK m \in T : \A k \in T : m <= k
  <2> HIDE DEF T
  <2> QED BY <1>2, LeastElement
<1> QED BY <1>3 DEF Nearest

LEMMA StepAnswer == IInv /\ AnswerInv /\ [Next]_vars => AnswerInv'
<1> SUFFICES ASSUME IInv, AnswerInv, [Next]_vars PROVE AnswerInv'
  OBVIOUS
<1>1. CASE Prune \/ Defer \/ LeaveLeaf \/ SkipChildren
  <2>1. pc' \notin {"collect", "next", "done"}
    BY <1>1 DEF Prune, Defer, LeaveLeaf, SkipChildren, Backtrack
  <2> QED BY <2>1 DEF AnswerInv
<1>2. CASE EnterLeaf \/ ScanLane \/ Descend \/ StartReplay \/ Replay \/ SearchPartition
  <2>1. pc' \notin {"collect", "next", "done"}
    BY <1>2 DEF EnterLeaf, ScanLane, Descend, StartReplay, Replay, SearchPartition
  <2> QED BY <2>1 DEF AnswerInv
<1>3. CASE EndReplay
  BY <1>3, DoneAnswer DEF EndReplay
<1>4. CASE NoReplay
  BY <1>4, DoneAnswer DEF NoReplay, ShouldReplay, deferVars
<1>5. CASE Collect
  <2>1. pc = "collect" /\ pc' = "next" /\ UNCHANGED <<best, pending, deferLabel>>
    BY <1>5 DEF Collect, deferVars
  <2> QED BY <2>1 DEF AnswerInv, Settled, Consensus, Worst
<1>6. CASE Finish
  <2>1. /\ pc = "next" /\ pc' = "done"
        /\ UNCHANGED <<ix, best, pending, deferLabel, collected, todo>>
        /\ \A n \in todo : Nearest(n) => ix.bound[n] >= Worst
    BY <1>6 DEF Finish, deferVars, partVars
  <2>2. collected /\ Settled'
    BY <2>1 DEF IInv, PhaseOK, AnswerInv, Settled, Consensus, Worst
  <2>3. \A n \in todo : ~(ix.bound[n] < Worst)
    <3>1. SUFFICES ASSUME NEW n \in todo PROVE ~(ix.bound[n] < Worst)
      OBVIOUS
    <3>2. PICK m \in todo : Nearest(m)
      BY NearestExists
    <3>3. ix.bound[m] >= Worst /\ ix.bound[m] <= ix.bound[n]
      BY <2>1, <3>1, <3>2 DEF Nearest
    <3>4. ix.bound[m] \in Nat /\ ix.bound[n] \in Nat /\ Worst \in Nat
      BY <3>1, <3>2, IndexFacts, NodeFacts, WorstFacts DEF IInv, TypeOK
    <3> QED BY <3>3, <3>4
  <2> QED BY <2>1, <2>2, <2>3 DEF AnswerInv, Worst
<1>7. CASE UNCHANGED vars
  BY <1>7 DEF vars, treeVars, deferVars, partVars, AnswerInv, Settled, Consensus, Worst
<1> QED BY <1>1, <1>2, <1>3, <1>4, <1>5, <1>6, <1>7 DEF Next

LEMMA InitAnswer == Init => AnswerInv
BY DEF Init, AnswerInv, Settled

(* Finite sets.                                                            *)

LEMMA CountOfImage ==
  ASSUME NEW I, IsFiniteSet(I), NEW f, \A i, j \in I : i # j => f[i] # f[j]
  PROVE  /\ IsFiniteSet({f[i] : i \in I})
         /\ Cardinality({f[i] : i \in I}) = Cardinality(I)
<1> DEFINE T == {f[i] : i \in I}
           g == [i \in I |-> f[i]]
<1>1. g \in Bijection(I, T)
  BY DEF Bijection, Injection, Surjection, IsInjective
<1>2. ExistsBijection(I, T)
  BY <1>1 DEF ExistsBijection
<1> HIDE DEF T
<1>3. IsFiniteSet(T) /\ Cardinality(T) = Cardinality(I)
  BY <1>2, FS_Bijection
<1> QED BY <1>3 DEF T

(* k elements none of which is farther than one left out.                  *)
LEMMA NearestSubset ==
  ASSUME NEW T, IsFiniteSet(T), \A r \in T : r.dist \in Nat,
         NEW k \in Nat, k <= Cardinality(T)
  PROVE  \E S \in SUBSET T : /\ Cardinality(S) = k
                             /\ \A r \in S, q \in T \ S : r.dist <= q.dist
<1> DEFINE Good(m) == \E S \in SUBSET T : /\ Cardinality(S) = m
                                          /\ \A r \in S, q \in T \ S : r.dist <= q.dist
           Bad == {m \in Nat : m <= Cardinality(T) /\ ~Good(m)}
<1>1. SUFFICES Bad = {}
  BY <1>1
<1>2. SUFFICES ASSUME Bad # {} PROVE FALSE
  OBVIOUS
<1>3. PICK m \in Bad : \A n \in Bad : m <= n
  <2>1. Bad \subseteq Nat
    OBVIOUS
  <2> HIDE DEF Bad
  <2> QED BY <1>2, <2>1, LeastElement
<1>4. m \in Nat /\ m <= Cardinality(T) /\ ~Good(m)
  BY <1>3
<1>5. Good(0)
  BY FS_EmptySet
<1>6. Cardinality(T) \in Nat
  BY FS_CardinalityType
<1>7. m # 0
  BY <1>4, <1>5
<1>8. m - 1 \in Nat /\ m - 1 <= Cardinality(T) /\ ~(m <= m - 1)
  BY <1>4, <1>6, <1>7
<1>9. Good(m - 1)
  <2>1. m - 1 \notin Bad
    BY <1>3, <1>8
  <2> QED BY <1>8, <2>1
<1>10. PICK S \in SUBSET T : /\ Cardinality(S) = m - 1
                             /\ \A r \in S, q \in T \ S : r.dist <= q.dist
  BY <1>9
<1>11. IsFiniteSet(S) /\ T \ S # {}
  <2>1. IsFiniteSet(S)
    BY FS_Subset
  <2>2. S # T
    BY <1>4, <1>6, <1>10
  <2> QED BY <2>1, <2>2
<1> DEFINE D == {q.dist : q \in T \ S}
<1>12. PICK d \in D : \A e \in D : d <= e
  <2>1. D \subseteq Nat /\ D # {}
    BY <1>11
  <2> HIDE DEF D
  <2> QED BY <2>1, LeastElement
<1>13. PICK x \in T \ S : d = x.dist
  BY <1>12
<1>14. \A q \in T \ S : x.dist <= q.dist
  BY <1>12, <1>13
<1>15. Cardinality(S \union {x}) = m
  <2>1. Cardinality(S \union {x}) = (m - 1) + 1
    BY <1>10, <1>11, <1>13, FS_AddElement
  <2> QED BY <1>4, <2>1
<1>16. \A r \in S \union {x}, q \in T \ (S \union {x}) : r.dist <= q.dist
  BY <1>10, <1>14
<1>17. Good(m)
  BY <1>13, <1>15, <1>16
<1> QED BY <1>4, <1>17

(* An index has finitely many references: one has its own idx.             *)
LEMMA FiniteReferences ==
  ASSUME ix \in Searches
  PROVE  /\ IsFiniteSet(References(ix))
         /\ References(ix) \subseteq Reference
<1> DEFINE R == References(ix)
           f == [r \in R |-> r.idx]
<1>1. R \subseteq Reference
  <2>1. \A n \in Roots(ix) : ix.below[n] \subseteq Reference
    BY IndexFacts DEF Roots
  <2> QED BY <2>1 DEF References
<1>2. \A q, r \in R : q.idx = r.idx => q = r
  BY SearchesAssumption DEF Search
<1>3. \A r \in R : r.idx \in 0..(NoIndex - 1)
  BY <1>1 DEF Reference
<1> HIDE DEF R
<1>4. f \in Injection(R, 0..(NoIndex - 1))
  BY <1>2, <1>3 DEF Injection, IsInjective
<1>5. IsFiniteSet(0..(NoIndex - 1))
  BY KnnAssumption, FS_Interval
<1> HIDE DEF f
<1>6. IsFiniteSet(R)
  BY <1>4, <1>5, FS_Injection
<1> QED BY <1>1, <1>6 DEF R

(* What is known at the end, unless the search left early.                 *)
LEMMA AtTheEnd ==
  ASSUME IInv, OnceInv, AnswerInv, pc = "done", ~(Worst < ix.earlyExit)
  PROVE  /\ Settled
         /\ \A i \in 1..K : best[i] \in References(ix) \/ best[i] = Placeholder
         /\ \A r \in References(ix) : r.dist < Worst =>
              \/ r \in Elements(best)
              \/ \E n \in Elements(pending) : r \in ix.below[n]
<1>1. Settled /\ collected /\ \A n \in todo : ~(ix.bound[n] < Worst)
  BY DEF AnswerInv
<1>2. stack = << >> /\ lanes = << >> /\ best \in [1..K -> Entry] /\ todo \subseteq ix.nodes
  BY IndexFacts DEF IInv, PhaseOK, TypeOK
<1>3. Elements(stack) = {} /\ Elements(lanes) = {}
  BY <1>2, NothingThere
<1>4. \A i \in 1..K : best[i] \in References(ix) \/ best[i] = Placeholder
  <2>1. \A i \in 1..K : best[i] \in Elements(best)
    BY <1>2 DEF Elements
  <2> QED BY <2>1 DEF OnceInv, Apart, Scorable
<1>5. ASSUME NEW r \in References(ix), r.dist < Worst, r \notin Elements(best)
      PROVE  \E n \in Elements(pending) : r \in ix.below[n]
  <2>1. r \in Unseen
    BY <1>5 DEF IInv, NothingForgotten
  <2>2. PICK n \in Outstanding : r \in ix.below[n]
    BY <1>3, <2>1 DEF Unseen
  <2>3. n \in Elements(pending) \/ n \in todo
    BY <1>1, <1>3, <2>2 DEF Outstanding
  <2>4. n \notin todo
    BY <1>1, <1>2, <1>5, <2>2, TooFar DEF IInv
  <2> QED BY <2>2, <2>3, <2>4
<1> QED BY <1>1, <1>4, <1>5

(* The neighbours among the K best, and the frauds among them, counted.    *)
LEMMA CountOfBest ==
  ASSUME IInv, NoReferenceTwice, NEW I, I \subseteq 1..K, \A i \in I : best[i] # Placeholder
  PROVE  /\ IsFiniteSet(I)
         /\ IsFiniteSet({best[i] : i \in I})
         /\ Cardinality({best[i] : i \in I}) = Cardinality(I)
<1>1. K \in Nat /\ 1 \in Int
  BY KnnAssumption
<1>2. IsFiniteSet(1..K)
  BY <1>1, FS_Interval
<1>3. IsFiniteSet(I)
  BY <1>2, FS_Subset
<1>4. \A i, j \in I : i # j => best[i] # best[j]
  BY DEF NoReferenceTwice
<1> QED BY <1>3, <1>4, CountOfImage

LEMMA FraudsOfBest ==
  ASSUME IInv, NoReferenceTwice, NEW S,
         S = {best[i] : i \in {j \in 1..K : best[j] # Placeholder}}
  PROVE  FraudCount = Cardinality({r \in S : r.label = 1})
<1> DEFINE I == {i \in 1..K : best[i].label = 1}
<1>1. \A i \in I : best[i] # Placeholder
  BY DEF Placeholder
<1>2. {r \in S : r.label = 1} = {best[i] : i \in I}
  BY <1>1
<1>3. Cardinality({best[i] : i \in I}) = Cardinality(I)
  <2>1. I \subseteq 1..K
    OBVIOUS
  <2> HIDE DEF I
  <2> QED BY <1>1, <2>1, CountOfBest
<1> QED BY <1>2, <1>3 DEF FraudCount

(* Fewer than K references are found: they are all there are.              *)
LEMMA AllAreBest ==
  ASSUME IInv, OnceInv, AnswerInv, pc = "done", ~(Worst < ix.earlyExit), Worst = Infinity
  PROVE  \E S \in SUBSET References(ix) :
           NearestSet(S) /\ FraudCount = Cardinality({r \in S : r.label = 1})
<1> DEFINE R == References(ix)
           I == {i \in 1..K : best[i] # Placeholder}
<1>1. /\ Settled
      /\ \A i \in 1..K : best[i] \in R \/ best[i] = Placeholder
      /\ \A r \in R : r.dist < Worst =>
           r \in Elements(best) \/ \E n \in Elements(pending) : r \in ix.below[n]
  BY AtTheEnd
<1>2. pending = << >>
  BY <1>1 DEF Settled, Consensus
<1>3. IsFiniteSet(R) /\ R \subseteq Reference
  BY FiniteReferences DEF IInv
<1>4. \A r \in R : r.dist \in Nat /\ r.dist < Infinity /\ r # Placeholder
  BY <1>3, KnnAssumption DEF Reference, Placeholder
<1>5. R = {best[i] : i \in I}
  <2>1. \A r \in R : r \in Elements(best)
    BY <1>1, <1>2, <1>4, NothingThere
  <2>2. \A r \in R : \E i \in I : r = best[i]
    BY <2>1, <1>4 DEF Elements, IInv, TypeOK
  <2> QED BY <1>1, <2>2
<1>6. I \subseteq 1..K /\ K \notin I /\ K \in Nat \ {0}
  <2>1. K \in Nat \ {0} /\ K \in 1..K
    BY KnnAssumption
  <2>2. best[K] \notin R
    BY <1>4 DEF Worst
  <2> QED BY <1>1, <2>1, <2>2
<1>7. Cardinality(R) = Cardinality(I) /\ IsFiniteSet(I)
  <2> HIDE DEF R
  <2>1. \A i \in I : best[i] # Placeholder
    OBVIOUS
  <2> HIDE DEF I
  <2> QED BY <1>5, <1>6, <2>1, CountOfBest DEF OnceInv
<1>8. Cardinality(R) < K
  <2>1. IsFiniteSet(1..K) /\ Cardinality(1..K) = K
    BY <1>6, FS_Interval
  <2>2. Cardinality(I) <= K /\ Cardinality(I) # K
    <3> HIDE DEF I
    <3>1. K \in 1..K
      BY <1>6
    <3> QED BY <1>6, <2>1, <3>1, FS_Subset
  <2>3. Cardinality(I) \in Nat
    BY <1>7, FS_CardinalityType
  <2> QED BY <1>6, <1>7, <2>2, <2>3
<1>9. NearestSet(R)
  BY <1>8 DEF NearestSet
<1>10. FraudCount = Cardinality({r \in R : r.label = 1})
  BY <1>5, FraudsOfBest DEF OnceInv
<1> QED BY <1>9, <1>10

(* K references are found, and nothing is deferred: they are the nearest.  *)
LEMMA TheBestAreNearest ==
  ASSUME IInv, OnceInv, AnswerInv, pc = "done", ~(Worst < ix.earlyExit), Worst # Infinity
  PROVE  /\ Elements(best) \subseteq References(ix)
         /\ Elements(best) = {best[i] : i \in {j \in 1..K : best[j] # Placeholder}}
         /\ Cardinality(Elements(best)) = K
         /\ Cardinality(References(ix)) \in Nat /\ K <= Cardinality(References(ix))
         /\ \A r \in Elements(best) : r.dist <= Worst
<1>1. K \in Nat \ {0} /\ K \in 1..K
  BY KnnAssumption
<1>2. best \in [1..K -> Entry] /\ Worst \in Nat
  BY WorstFacts DEF IInv, TypeOK
<1>3. \A i \in 1..K : best[i].dist <= Worst /\ best[i].dist \in Nat
  <2>1. SUFFICES ASSUME NEW i \in 1..K PROVE best[i].dist <= Worst /\ best[i].dist \in Nat
    OBVIOUS
  <2>2. best[i] \in Entry /\ best[K] \in Entry
    BY <1>1, <1>2
  <2>3. CASE i = K
    BY <2>2, <2>3, EntryFacts DEF Worst
  <2>4. CASE i # K
    <3>1. ~CandidateBefore(best[K], best[i])
      BY <1>1, <2>4 DEF IInv, BestInOrder
    <3> QED BY <2>2, <3>1, OrderOfEntries, EntryFacts DEF Worst
  <2> QED BY <2>3, <2>4
<1>4. \A i \in 1..K : best[i] # Placeholder
  <2>1. best[K] \in Entry
    BY <1>1, <1>2
  <2>2. Worst < Infinity
    BY <1>2, <2>1, EntryFacts, KnnAssumption DEF Worst
  <2>3. Placeholder.dist = Infinity /\ Infinity \in Nat
    BY KnnAssumption DEF Placeholder
  <2> QED BY <1>2, <1>3, <2>2, <2>3
<1>5. Elements(best) = {best[i] : i \in 1..K}
  BY <1>2 DEF Elements
<1>6. Elements(best) \subseteq References(ix)
  BY <1>4, <1>5, AtTheEnd
<1>7. Elements(best) = {best[i] : i \in {j \in 1..K : best[j] # Placeholder}}
  BY <1>4, <1>5
<1>8. Cardinality(1..K) = K
  BY <1>1, FS_Interval
<1>9. Cardinality(Elements(best)) = K
  BY <1>4, <1>5, <1>8, CountOfBest DEF OnceInv
<1>10. IsFiniteSet(References(ix))
  BY FiniteReferences DEF IInv
<1>11. Cardinality(References(ix)) \in Nat /\ K <= Cardinality(References(ix))
  BY <1>6, <1>9, <1>10, FS_CardinalityType, FS_Subset
<1> QED BY <1>3, <1>5, <1>6, <1>7, <1>9, <1>11

(* Whatever is nearer than the worst has the label all K agree on.         *)
LEMMA DeferredAgree ==
  ASSUME IInv, OnceInv, AnswerInv, pc = "done", ~(Worst < ix.earlyExit), pending # << >>
  PROVE  /\ Consensus(deferLabel)
         /\ \A r \in References(ix) : r.dist < Worst => r.label = deferLabel
<1>1. Consensus(deferLabel)
  BY AtTheEnd DEF Settled
<1>2. ASSUME NEW r \in References(ix), r.dist < Worst PROVE r.label = deferLabel
  <2>1. CASE r \in Elements(best)
    <3>1. DOMAIN best = 1..K
      BY DEF IInv, TypeOK
    <3> QED BY <1>1, <2>1, <3>1 DEF Consensus, Elements
  <2>2. CASE r \notin Elements(best)
    <3>1. PICK n \in Elements(pending) : r \in ix.below[n]
      BY <1>2, <2>2, AtTheEnd
    <3>2. ix.classes[n] = {deferLabel}
      BY <3>1 DEF IInv, DeferredHaveOneLabel
    <3>3. n \in ix.nodes
      BY <3>1 DEF IInv, TypeOK, Elements
    <3>4. ix.classes[n] = {q.label : q \in ix.below[n]}
      BY <3>3, IndexFacts DEF IInv, Sound
    <3> QED BY <3>1, <3>2, <3>4
  <2> QED BY <2>1, <2>2
<1> QED BY <1>1, <1>2

(* K references are found and subtrees are still deferred: there may be    *)
(* nearer ones, but K nearest ones all have the label of the consensus.    *)
LEMMA DeferredDoNotCount ==
  ASSUME IInv, OnceInv, AnswerInv, pc = "done", ~(Worst < ix.earlyExit), Worst # Infinity,
         pending # << >>
  PROVE  \E S \in SUBSET References(ix) :
           NearestSet(S) /\ FraudCount = Cardinality({r \in S : r.label = 1})
<1> DEFINE R == References(ix)
           l == deferLabel
           T == {r \in R : r.dist <= Worst /\ r.label = l}
<1>1. /\ Elements(best) \subseteq R /\ Cardinality(Elements(best)) = K
      /\ Cardinality(R) \in Nat /\ K <= Cardinality(R)
      /\ \A r \in Elements(best) : r.dist <= Worst
  BY TheBestAreNearest
<1>2. Consensus(l) /\ \A r \in R : r.dist < Worst => r.label = l
  BY DeferredAgree
<1>3. IsFiniteSet(R) /\ \A r \in R : r.dist \in Nat
  BY FiniteReferences, EntryFacts DEF IInv
<1>4. K \in Nat /\ Worst \in Nat /\ DOMAIN best = 1..K
  BY KnnAssumption, WorstFacts DEF IInv, TypeOK
<1>5. IsFiniteSet(T) /\ K <= Cardinality(T)
  <2>1. Elements(best) \subseteq T
    BY <1>1, <1>2, <1>4 DEF Consensus, Elements
  <2>2. IsFiniteSet(T)
    BY <1>3, FS_Subset
  <2> HIDE DEF T
  <2>3. Cardinality(Elements(best)) <= Cardinality(T)
    BY <2>1, <2>2, FS_Subset
  <2> QED BY <1>1, <2>2, <2>3
<1>6. PICK S \in SUBSET T : Cardinality(S) = K /\ \A r \in S, q \in T \ S : r.dist <= q.dist
  <2>1. \A r \in T : r.dist \in Nat
    BY <1>3
  <2> HIDE DEF T
  <2> QED BY <1>4, <1>5, <2>1, NearestSubset
<1>7. \A r \in S, q \in R \ S : r.dist <= q.dist
  <2>1. SUFFICES ASSUME NEW r \in S, NEW q \in R \ S PROVE r.dist <= q.dist
    OBVIOUS
  <2>2. CASE q \in T
    BY <1>6, <2>1, <2>2
  <2>3. CASE q \notin T
    <3>1. ~(q.dist < Worst)
      BY <1>2, <1>3, <1>4, <2>1, <2>3
    <3>2. r.dist <= Worst /\ r.dist \in Nat /\ q.dist \in Nat
      BY <1>3, <1>6, <2>1
    <3> QED BY <1>4, <3>1, <3>2
  <2> QED BY <2>2, <2>3
<1>8. NearestSet(S)
  <2>1. K = IF Cardinality(R) < K THEN Cardinality(R) ELSE K
    <3> HIDE DEF R
    <3> QED BY <1>1, <1>4
  <2> QED BY <1>6, <1>7, <2>1 DEF NearestSet
<1>9. FraudCount = Cardinality({r \in S : r.label = 1})
  <2>1. CASE l = 1
    <3>1. {i \in 1..K : best[i].label = 1} = 1..K /\ {r \in S : r.label = 1} = S
      BY <1>2, <2>1 DEF Consensus
    <3>2. Cardinality(1..K) = K
      BY KnnAssumption, FS_Interval
    <3> QED BY <1>6, <3>1, <3>2 DEF FraudCount
  <2>2. CASE l # 1
    <3>1. {i \in 1..K : best[i].label = 1} = {} /\ {r \in S : r.label = 1} = {}
      BY <1>2, <2>2 DEF Consensus
    <3> QED BY <3>1 DEF FraudCount
  <2> QED BY <2>1, <2>2
<1> QED BY <1>6, <1>8, <1>9

LEMMA ExactAtTheEnd == IInv /\ OnceInv /\ AnswerInv => CountIsExact
<1> SUFFICES ASSUME IInv, OnceInv, AnswerInv, pc = "done", ~(Worst < ix.earlyExit)
             PROVE  \E S \in SUBSET References(ix) :
                      NearestSet(S) /\ FraudCount = Cardinality({r \in S : r.label = 1})
  BY DEF CountIsExact
<1>1. CASE Worst = Infinity
  BY <1>1, AllAreBest
<1>2. CASE Worst # Infinity /\ pending # << >>
  BY <1>2, DeferredDoNotCount
<1>3. CASE Worst # Infinity /\ pending = << >>
  <2> DEFINE S == Elements(best)
             R == References(ix)
  <2>1. /\ S \subseteq R /\ S = {best[i] : i \in {j \in 1..K : best[j] # Placeholder}}
        /\ Cardinality(S) = K /\ Cardinality(R) \in Nat /\ K <= Cardinality(R)
        /\ \A r \in S : r.dist <= Worst
    BY <1>3, TheBestAreNearest
  <2>2. \A q \in R \ S : ~(q.dist < Worst)
    BY <1>3, AtTheEnd, NothingThere
  <2>3. (\A r \in R : r.dist \in Nat) /\ Worst \in Nat /\ K \in Nat
    BY FiniteReferences, EntryFacts, WorstFacts, KnnAssumption DEF IInv, TypeOK
  <2>4. FraudCount = Cardinality({r \in S : r.label = 1})
    BY <2>1, FraudsOfBest DEF OnceInv
  <2> HIDE DEF S, R
  <2>5. \A r \in S, q \in R \ S : r.dist <= q.dist
    BY <2>1, <2>2, <2>3
  <2>6. Cardinality(S) = IF Cardinality(R) < K THEN Cardinality(R) ELSE K
    BY <2>1, <2>3
  <2>7. NearestSet(S)
    BY <2>5, <2>6 DEF NearestSet, R
  <2> QED BY <2>1, <2>4, <2>7 DEF R
<1> QED BY <1>1, <1>2, <1>3

(* The answer of predict_fraud_count: unless the search left early, it is  *)
(* the number of frauds among K nearest references of the whole index,     *)
(* whatever was pruned, deferred or skipped, for every index, K and        *)
(* capacity of the stacks, and with and without the deferral.              *)
THEOREM ExactAnswer == Spec => []CountIsExact
<1>1. Spec => []AnswerInv
  BY InductiveInvariant, InitAnswer, StepAnswer, PTL DEF Spec
<1> QED BY InductiveInvariant, OnceInvariant, <1>1, ExactAtTheEnd, PTL

-----------------------------------------------------------------------------
(* Distances in 32 bits.                                                   *)

(* A lane holds a number of its range as it is.                            *)
LEMMA SignedExact ==
  ASSUME NEW half \in Nat, NEW x \in Int, -half <= x, x < half
  PROVE  Signed(x, half) = x
<1> DEFINE y == x + half
           m == 2 * half
<1>1. y \in Nat /\ m \in Nat /\ y < m
  OBVIOUS
<1>2. y % m = y
  <2> HIDE DEF y, m
  <2> QED BY <1>1
<1> QED BY <1>2 DEF Signed

(* What the other proofs need of the two halves.                           *)
LEMMA HalvesAreNat == Half16 \in Nat /\ Half32 \in Nat
BY SMT DEF Half16, Half32

(* The square of a number is at most that of a bound on its size.          *)
LEMMA SquareBound ==
  ASSUME NEW s \in Nat, NEW x \in -s .. s
  PROVE  Square(x) \in 0 .. s * s
<1>1. CASE x >= 0
  <2>1. x * x <= x * s
    BY <1>1
  <2>2. x * s <= s * s
    BY <1>1
  <2>3. x * x >= 0
    BY <1>1
  <2> QED BY <2>1, <2>2, <2>3 DEF Square
<1>2. CASE x < 0
  <2> DEFINE y == -x
  <2>1. y \in Nat /\ y <= s
    BY <1>2
  <2>2. y * y <= y * s /\ y * s <= s * s /\ y * y >= 0
    BY <2>1
  <2>3. x * x = y * y
    OBVIOUS
  <2> HIDE DEF y
  <2> QED BY <2>1, <2>2, <2>3 DEF Square
<1> QED BY <1>1, <1>2

(* The difference of a feature fits in 16 bits, and its square is bounded. *)
LEMMA DiffExact ==
  ASSUME NEW scale \in Nat, DifferencesFit(scale),
         NEW q \in Vectors(scale), NEW v \in Vectors(scale), NEW d \in Features
  PROVE  /\ Diff(q, v, d) = q[d] - v[d]
         /\ Square(q[d] - v[d]) \in
              0 .. (IF d \in SignedFeatures THEN 4 * (scale * scale) ELSE scale * scale)
<1> DEFINE x == q[d] - v[d]
<1>1. q[d] \in FeatureRange(scale, d) /\ v[d] \in FeatureRange(scale, d)
  BY DEF Vectors
<1>2. FeatureRange(scale, d) \subseteq -scale .. scale
  BY DEF FeatureRange
<1>3. x \in -(2 * scale) .. 2 * scale
  BY <1>1, <1>2
<1>4. Diff(q, v, d) = x
  BY <1>3, SignedExact, HalvesAreNat DEF Diff, Signed16, DifferencesFit
<1>5. CASE d \in SignedFeatures
  <2>1. Square(x) \in 0 .. (2 * scale) * (2 * scale)
    BY <1>3, SquareBound
  <2>2. (2 * scale) * (2 * scale) = 4 * (scale * scale)
    OBVIOUS
  <2> QED BY <1>4, <1>5, <2>1, <2>2
<1>6. CASE d \notin SignedFeatures
  <2>1. x \in -scale .. scale
    BY <1>1, <1>6 DEF FeatureRange
  <2>2. Square(x) \in 0 .. scale * scale
    BY <2>1, SquareBound
  <2> QED BY <1>4, <1>6, <2>2
<1> QED BY <1>5, <1>6

(* No sum wraps: for every scale up to 10362, among them the default of    *)
(* 10000, the lane holds the squared distance (search.rs:209-214).         *)
THEOREM ScanIsExact ==
  ASSUME NEW scale \in Nat, DifferencesFit(scale), FitsIn32(scale),
         NEW q \in Vectors(scale), NEW v \in Vectors(scale)
  PROVE  Scan(q, v) = SquaredDistance(q, v)
<1> DEFINE sq == scale * scale
           D(p) == PairDistance(q, v, p)
<1>1. sq \in Nat /\ 20 * sq < Half32 /\ Half32 \in Nat
  <2>1. scale * scale \in Nat
    OBVIOUS
  <2> QED BY <2>1, HalvesAreNat DEF FitsIn32
<1>2. ASSUME NEW p \in 0 .. 6
      PROVE  /\ Madd(q, v, p) = D(p)
             /\ D(p) \in 0 .. (IF p \in {2, 3} THEN 5 * sq ELSE 2 * sq)
  <2> DEFINE a == Square(q[2 * p] - v[2 * p])
             b == Square(q[2 * p + 1] - v[2 * p + 1])
  <2>1. 2 * p \in Features /\ 2 * p + 1 \in Features
    BY DEF Features
  <2>2. /\ Diff(q, v, 2 * p) = q[2 * p] - v[2 * p]
        /\ a \in 0 .. (IF 2 * p \in SignedFeatures THEN 4 * sq ELSE sq)
    BY <2>1, DiffExact
  <2>3. /\ Diff(q, v, 2 * p + 1) = q[2 * p + 1] - v[2 * p + 1]
        /\ b \in 0 .. (IF 2 * p + 1 \in SignedFeatures THEN 4 * sq ELSE sq)
    BY <2>1, DiffExact
  <2> HIDE DEF sq
  <2>4. a + b \in 0 .. (IF p \in {2, 3} THEN 5 * sq ELSE 2 * sq)
    BY <1>1, <2>2, <2>3 DEF SignedFeatures
  <2>5. a + b \in Int /\ -Half32 <= a + b /\ a + b < Half32
    <3> HIDE DEF a, b
    <3> QED BY <1>1, <2>4
  <2>6. Signed32(a + b) = a + b
    BY <1>1, <2>5, SignedExact DEF Signed32
  <2> QED BY <2>2, <2>3, <2>4, <2>6 DEF Madd, PairDistance
<1> HIDE DEF sq, D
<1>3. /\ D(0) \in 0 .. 2 * sq /\ D(1) \in 0 .. 2 * sq /\ D(2) \in 0 .. 5 * sq
      /\ D(3) \in 0 .. 5 * sq /\ D(4) \in 0 .. 2 * sq /\ D(5) \in 0 .. 2 * sq
      /\ D(6) \in 0 .. 2 * sq
  BY <1>2
<1>4. ASSUME NEW x \in 0 .. 20 * sq
      PROVE  Signed32(x) = x
  BY <1>1, SignedExact DEF Signed32
<1>5. Add(D(0), D(1)) = D(0) + D(1)
  BY <1>1, <1>3, <1>4 DEF Add
<1>6. Add(D(0) + D(1), D(2)) = D(0) + D(1) + D(2)
  BY <1>1, <1>3, <1>4 DEF Add
<1>7. Add(D(0) + D(1) + D(2), D(3)) = D(0) + D(1) + D(2) + D(3)
  BY <1>1, <1>3, <1>4 DEF Add
<1>8. Add(D(0) + D(1) + D(2) + D(3), D(4)) = D(0) + D(1) + D(2) + D(3) + D(4)
  BY <1>1, <1>3, <1>4 DEF Add
<1>9. Add(D(0) + D(1) + D(2) + D(3) + D(4), D(5)) = D(0) + D(1) + D(2) + D(3) + D(4) + D(5)
  BY <1>1, <1>3, <1>4 DEF Add
<1>10. Add(D(0) + D(1) + D(2) + D(3) + D(4) + D(5), D(6))
         = D(0) + D(1) + D(2) + D(3) + D(4) + D(5) + D(6)
  BY <1>1, <1>3, <1>4 DEF Add
<1>11. Scan(q, v) = Add(Add(Add(Add(Add(Add(D(0), D(1)), D(2)), D(3)), D(4)), D(5)), D(6))
  BY <1>2 DEF Scan
<1>12. SquaredDistance(q, v) = D(0) + D(1) + D(2) + D(3) + D(4) + D(5) + D(6)
  BY DEF SquaredDistance, D
<1> QED BY <1>5, <1>6, <1>7, <1>8, <1>9, <1>10, <1>11, <1>12

(* The scale that src/build.rs:12 falls back to is one of those.           *)
THEOREM DefaultScaleIsExact ==
  ASSUME NEW q \in Vectors(10000), NEW v \in Vectors(10000)
  PROVE  Scan(q, v) = SquaredDistance(q, v)
<1>1. 10000 \in Nat /\ DifferencesFit(10000) /\ FitsIn32(10000)
  BY SMT DEF DifferencesFit, FitsIn32, Half16, Half32
<1>2. \A scale \in Nat : DifferencesFit(scale) /\ FitsIn32(scale) =>
        \A x, y \in Vectors(scale) : Scan(x, y) = SquaredDistance(x, y)
  BY ScanIsExact
<1> QED BY ONLY <1>1, <1>2, q \in Vectors(10000), v \in Vectors(10000)

(* They are vectors that the program can meet.                             *)
LEMMA CornersAreVectors ==
  ASSUME NEW scale \in Nat
  PROVE  LowestVector(scale) \in Vectors(scale) /\ HighestVector(scale) \in Vectors(scale)
<1>1. LowestVector(scale) \in [Features -> Int] /\ HighestVector(scale) \in [Features -> Int]
  BY DEF LowestVector, HighestVector
<1>2. \A d \in Features : LowestVector(scale)[d] \in FeatureRange(scale, d) /\ HighestVector(scale)[d] \in FeatureRange(scale, d)
  BY DEF LowestVector, HighestVector, FeatureRange
<1> QED BY <1>1, <1>2 DEF Vectors

(* The largest scale that src/build.rs:14 accepts is not: the two most     *)
(* distant vectors come out at a negative distance, before all others.     *)
THEOREM LargestScaleWraps ==
  /\ LowestVector(11000) \in Vectors(11000) /\ HighestVector(11000) \in Vectors(11000)
  /\ Scan(LowestVector(11000), HighestVector(11000)) < 0
  /\ SquaredDistance(LowestVector(11000), HighestVector(11000)) > 0
<1> DEFINE q == LowestVector(11000)
           v == HighestVector(11000)
<1>1. q \in Vectors(11000) /\ v \in Vectors(11000)
  BY SMT, CornersAreVectors
<1>2. \A d \in Features : q[d] - v[d] = IF d \in SignedFeatures THEN -22000 ELSE -11000
  BY SMT DEF LowestVector, HighestVector, Features, SignedFeatures
<1>3. Signed16(-11000) = -11000 /\ Signed16(-22000) = -22000
  BY SMT DEF Signed16, Signed, Half16
<1>4. \A d \in Features :
        /\ Square(q[d] - v[d]) = IF d \in SignedFeatures THEN 484000000 ELSE 121000000
        /\ Square(Diff(q, v, d)) = IF d \in SignedFeatures THEN 484000000 ELSE 121000000
  <2>1. Square(-11000) = 121000000 /\ Square(-22000) = 484000000
    BY SMT DEF Square
  <2> QED BY SMT, <1>2, <1>3, <2>1 DEF Diff
<1>5. \A p \in 0 .. 6 :
        /\ PairDistance(q, v, p) = IF p \in {2, 3} THEN 605000000 ELSE 242000000
        /\ Madd(q, v, p) = IF p \in {2, 3} THEN 605000000 ELSE 242000000
  <2>1. Signed32(605000000) = 605000000 /\ Signed32(242000000) = 242000000
    BY SMT DEF Signed32, Signed, Half32
  <2>2. \A p \in 0 .. 6 :
          /\ 2 * p \in Features /\ 2 * p + 1 \in Features
          /\ 2 * p \in SignedFeatures <=> p = 3
          /\ 2 * p + 1 \in SignedFeatures <=> p = 2
    BY SMT DEF Features, SignedFeatures
  <2> QED BY SMT, <1>4, <2>1, <2>2 DEF PairDistance, Madd
<1>6. SquaredDistance(q, v) = 2420000000
  BY SMT, <1>5 DEF SquaredDistance
<1>7. Scan(q, v) = -1874967296
  <2>1. /\ Add(242000000, 242000000) = 484000000 /\ Add(484000000, 605000000) = 1089000000
        /\ Add(1089000000, 605000000) = 1694000000 /\ Add(1694000000, 242000000) = 1936000000
        /\ Add(1936000000, 242000000) = -2116967296
        /\ Add(-2116967296, 242000000) = -1874967296
    BY SMT DEF Add, Signed32, Signed, Half32
  <2> QED BY SMT, <1>5, <2>1 DEF Scan
<1> QED BY SMT, <1>1, <1>6, <1>7

(* Nor is the default scale, once other features are negative.             *)
THEOREM NegativeFeaturesWrap ==
  /\ HighestVector(10000) \in Vectors(10000)
  /\ Negative(10000) \in Queries(10000)
  /\ Scan(Negative(10000), HighestVector(10000)) < 0
  /\ SquaredDistance(Negative(10000), HighestVector(10000)) > 0
<1> DEFINE q == Negative(10000)
           v == HighestVector(10000)
           pair(p) == IF p \in {0, 3} THEN 800000000 ELSE IF p = 5 THEN 200000000 ELSE 500000000
<1>1. HighestVector(10000) \in Vectors(10000)
  BY SMT, CornersAreVectors
<1>2. Negative(10000) \in Queries(10000)
  BY SMT DEF Negative, Queries
<1>3. \A d \in Features : q[d] - v[d] = IF d \in NegativeFeatures THEN -20000 ELSE -10000
  BY SMT DEF Negative, HighestVector, Features, NegativeFeatures
<1>4. Signed16(-10000) = -10000 /\ Signed16(-20000) = -20000
  BY SMT DEF Signed16, Signed, Half16
<1>5. \A d \in Features :
        /\ Square(q[d] - v[d]) = IF d \in NegativeFeatures THEN 400000000 ELSE 100000000
        /\ Square(Diff(q, v, d)) = IF d \in NegativeFeatures THEN 400000000 ELSE 100000000
  <2>1. Square(-10000) = 100000000 /\ Square(-20000) = 400000000
    BY SMT DEF Square
  <2> QED BY SMT, <1>3, <1>4, <2>1 DEF Diff
<1>6. \A p \in 0 .. 6 : PairDistance(q, v, p) = pair(p) /\ Madd(q, v, p) = pair(p)
  <2>1. /\ Signed32(800000000) = 800000000 /\ Signed32(500000000) = 500000000
        /\ Signed32(200000000) = 200000000
    BY SMT DEF Signed32, Signed, Half32
  <2>2. \A p \in 0 .. 6 :
          /\ 2 * p \in Features /\ 2 * p + 1 \in Features
          /\ 2 * p \in NegativeFeatures <=> p \in {0, 1, 3, 4}
          /\ 2 * p + 1 \in NegativeFeatures <=> p \in {0, 2, 3, 6}
    BY SMT DEF Features, NegativeFeatures
  <2> QED BY SMT, <1>5, <2>1, <2>2 DEF PairDistance, Madd
<1>7. SquaredDistance(q, v) = 3800000000
  BY SMT, <1>6 DEF SquaredDistance
<1>8. Scan(q, v) = -494967296
  <2>1. /\ Add(800000000, 500000000) = 1300000000 /\ Add(1300000000, 500000000) = 1800000000
        /\ Add(1800000000, 800000000) = -1694967296
        /\ Add(-1694967296, 500000000) = -1194967296
        /\ Add(-1194967296, 200000000) = -994967296
        /\ Add(-994967296, 500000000) = -494967296
    BY SMT DEF Add, Signed32, Signed, Half32
  <2> QED BY SMT, <1>6, <2>1 DEF Scan
<1>9. Scan(q, v) < 0 /\ SquaredDistance(q, v) > 0
  <2> HIDE DEF q, v
  <2> QED BY SMT, <1>7, <1>8
<1> QED BY <1>1, <1>2, <1>9

-----------------------------------------------------------------------------
(* The search of the tools (InstrumentedSearch).                           *)

LEMMA AllNumbers ==
  ASSUME NEW T, 0 \in T, \A n \in Nat : n \in T => n + 1 \in T
  PROVE  \A n \in Nat : n \in T
<1> DEFINE U == {n \in Nat : n \notin T}
<1>1. SUFFICES ASSUME U # {} PROVE FALSE
  OBVIOUS
<1>2. PICK m \in U : \A n \in U : m <= n
  BY <1>1, LeastElement
<1>3. m # 0 /\ m - 1 \in Nat /\ m - 1 \notin U
  BY <1>2
<1> QED BY <1>2, <1>3

(* A reference with the key of its partition, and what a place of the K    *)
(* best may hold.                                                          *)
TrackedReference ==
  [dist : 0..(Infinity - 1), label : Labels, idx : 0..(NoIndex - 1), key : 0..(NoKey - 1)]

TrackedEntry == [dist : 0..Infinity, label : Labels, idx : 0..NoIndex, key : 0..NoKey]

Hole == [dist |-> Infinity, label |-> 0, idx |-> NoIndex, key |-> NoKey]

(* b holds the K best of X, by distance and then by index.                 *)
KBestOf(b, X) ==
  /\ b \in Bests
  /\ \A i \in 1..K : b[i] \in X \union {Hole}
  /\ \A i, j \in 1..K : i < j => ~CandidateBefore(b[j], b[i])
  /\ \A i, j \in 1..K : i # j /\ b[i] = b[j] => b[i] = Hole
  /\ \A x \in X : CandidateBefore(x, b[K]) => \E i \in 1..K : b[i] = x

LEMMA KeyFacts ==
  /\ K \in Nat \ {0} /\ K \in 1..K /\ 1 \in 1..K
  /\ NoKey \in Nat /\ NoIndex \in Nat /\ Infinity \in Nat
  /\ TrackedReference \subseteq TrackedEntry
  /\ Hole \in TrackedEntry /\ Hole \notin TrackedReference
  /\ Bests = [1..K -> TrackedEntry]
  /\ Blank \in Bests /\ \A i \in 1..K : Blank[i] = Hole
<1>1. /\ K \in Nat \ {0} /\ NoKey \in Nat /\ NoIndex \in Nat /\ Infinity \in Nat \ {0}
  BY KnnAssumption, KeysAssumption
<1>2. /\ TrackedReference \subseteq TrackedEntry
      /\ Hole \in TrackedEntry /\ Hole \notin TrackedReference
  BY <1>1 DEF TrackedReference, TrackedEntry, Hole, Labels
<1>3. Bests = [1..K -> TrackedEntry]
  BY DEF Bests, TrackedEntry
<1>4. Blank = [i \in 1..K |-> Hole]
  BY DEF Blank, Hole
<1> QED BY <1>1, <1>2, <1>3, <1>4

LEMMA TrackedOrder ==
  ASSUME NEW p \in TrackedEntry, NEW q \in TrackedEntry, NEW r \in TrackedEntry
  PROVE  /\ CandidateBefore(p, q) => ~CandidateBefore(q, p) /\ p.dist <= q.dist
         /\ CandidateBefore(p, q) /\ ~CandidateBefore(r, q) => CandidateBefore(p, r)
         /\ CandidateBefore(p, q) /\ CandidateBefore(q, r) => CandidateBefore(p, r)
         /\ ~CandidateBefore(p, q) => q.dist <= p.dist
         /\ ~CandidateBefore(p, q) /\ ~CandidateBefore(q, p) =>
              p.dist = q.dist /\ p.idx = q.idx
         /\ ~CandidateBefore(p, p)
         /\ p.dist \in Nat /\ q.dist \in Nat
<1>1. /\ p.dist \in Nat /\ q.dist \in Nat /\ r.dist \in Nat
      /\ p.idx \in Nat /\ q.idx \in Nat /\ r.idx \in Nat
  BY KeyFacts DEF TrackedEntry
<1> QED BY <1>1 DEF CandidateBefore

LEMMA HoleIsLast ==
  ASSUME NEW p \in TrackedEntry
  PROVE  /\ ~CandidateBefore(Hole, p)
         /\ p \in TrackedReference => CandidateBefore(p, Hole)
<1>1. /\ p.dist \in Nat /\ p.dist <= Infinity /\ p.idx \in Nat /\ p.idx <= NoIndex
      /\ p \in TrackedReference => p.dist < Infinity
  BY KeyFacts DEF TrackedEntry, TrackedReference
<1>2. Hole.dist = Infinity /\ Hole.idx = NoIndex
  BY DEF Hole
<1> QED BY <1>1, <1>2, KeyFacts DEF CandidateBefore

LEMMA TrackedFacts ==
  ASSUME NEW r \in Reference, NEW key \in 0..(NoKey - 1)
  PROVE  /\ Tracked(r, key) \in TrackedReference
         /\ Tracked(r, key).dist = r.dist /\ Tracked(r, key).idx = r.idx
         /\ Tracked(r, key).key = key
         /\ \A e : CandidateBefore(Tracked(r, key), e) <=> CandidateBefore(r, e)
         /\ \A q \in Reference : Tracked(q, key) = Tracked(r, key) => q = r
BY DEF Tracked, TrackedReference, Reference, CandidateBefore

LEMMA BlankIsBest == KBestOf(Blank, {})
<1>1. \A i \in 1..K : Blank[i] = Hole
  BY KeyFacts
<1>2. ~CandidateBefore(Hole, Hole)
  BY KeyFacts, HoleIsLast
<1> QED BY <1>1, <1>2, KeyFacts DEF KBestOf

LEMMA InsertedIsBest ==
  ASSUME NEW X, X \subseteq TrackedReference, NEW b, KBestOf(b, X),
         NEW r \in Reference, NEW key \in 0..(NoKey - 1), Tracked(r, key) \notin X
  PROVE  KBestOf(InsertTracked(b, r, key), X \union {Tracked(r, key)})
<1> DEFINE x == Tracked(r, key)
           c == InsertTracked(b, r, key)
           Before(i) == CandidateBefore(r, b[i])
<1>1. K \in Nat \ {0} /\ K \in 1..K
  BY KeyFacts
<1>2. \A i \in 1..K : i # 1 => i - 1 \in 1..K
  BY <1>1
<1>3. /\ x \in TrackedEntry /\ x \in TrackedReference /\ x # Hole
      /\ \A e : CandidateBefore(x, e) <=> CandidateBefore(r, e)
  BY TrackedFacts, KeyFacts
<1>4. /\ b \in [1..K -> TrackedEntry]
      /\ \A i \in 1..K : b[i] \in TrackedEntry /\ b[i] \in X \union {Hole}
      /\ \A i, j \in 1..K : i < j => ~CandidateBefore(b[j], b[i])
      /\ \A i, j \in 1..K : i # j /\ b[i] = b[j] => b[i] = Hole
      /\ \A y \in X : CandidateBefore(y, b[K]) => \E i \in 1..K : b[i] = y
      /\ \A i \in 1..K : b[i] # x
  <2>1. KBestOf(b, X)
    OBVIOUS
  <2>2. b \in [1..K -> TrackedEntry]
    BY <2>1, KeyFacts DEF KBestOf
  <2>3. \A i \in 1..K : b[i] # x
    BY <2>1, <1>3 DEF KBestOf
  <2> QED BY <2>1, <2>2, <2>3 DEF KBestOf
<1>5. \A i \in 1..K :
        \/ ~Before(i) /\ c[i] = b[i]
        \/ Before(i) /\ (i = 1 \/ ~Before(i - 1)) /\ c[i] = x
        \/ Before(i) /\ i # 1 /\ Before(i - 1) /\ c[i] = b[i - 1]
  BY <1>1 DEF InsertTracked
<1>6. c = [i \in 1..K |-> c[i]]
  BY DEF InsertTracked
<1>7. \A y \in X : y \in TrackedEntry
  BY KeyFacts
<1> HIDE DEF x, c
<1>8. \A i, j \in 1..K : i < j /\ Before(i) => Before(j)
  <2>1. SUFFICES ASSUME NEW i \in 1..K, NEW j \in 1..K, i < j, Before(i) PROVE Before(j)
    OBVIOUS
  <2>2. ~CandidateBefore(b[j], b[i]) /\ CandidateBefore(x, b[i])
    BY <2>1, <1>3, <1>4
  <2>3. CandidateBefore(x, b[j])
    BY <1>3, <1>4, <2>2, TrackedOrder
  <2> QED BY <1>3, <2>3
<1>9. \A i \in 1..K : c[i] \in TrackedEntry /\ c[i] \in (X \union {x}) \union {Hole}
  BY <1>2, <1>3, <1>4, <1>5
<1>10. c \in Bests
  BY <1>6, <1>9, KeyFacts
<1>11. \A i, j \in 1..K : i < j => ~CandidateBefore(c[j], c[i]) /\ (c[i] = c[j] => c[i] = Hole)
  <2>1. SUFFICES ASSUME NEW i \in 1..K, NEW j \in 1..K, i < j
                 PROVE  ~CandidateBefore(c[j], c[i]) /\ (c[i] = c[j] => c[i] = Hole)
    OBVIOUS
  <2>2. j # 1 /\ j - 1 \in 1..K /\ (i = j - 1 \/ i < j - 1)
    BY <2>1, <1>1
  <2>3. i # 1 => i - 1 \in 1..K /\ i - 1 < j - 1 /\ i - 1 # j - 1
    BY <2>1, <1>2
  <2>4. CASE ~Before(i)
    <3>1. c[i] = b[i]
      BY <1>5, <2>4
    <3>2. CASE c[j] = b[j]
      BY <2>1, <3>1, <3>2, <1>4
    <3>3. CASE c[j] = x
      BY <2>4, <3>1, <3>3, <1>3, <1>4
    <3>4. CASE Before(j - 1) /\ c[j] = b[j - 1]
      <4>1. i < j - 1 /\ i # j - 1
        BY <2>1, <2>2, <2>4, <3>4
      <4> QED BY <2>2, <3>1, <3>4, <4>1, <1>4
    <3> QED BY <1>5, <3>2, <3>3, <3>4
  <2>5. CASE Before(i)
    <3>1. Before(j - 1) /\ Before(j)
      BY <1>8, <2>1, <2>2, <2>5
    <3>2. c[j] = b[j - 1]
      BY <1>5, <2>2, <3>1
    <3>3. CASE c[i] = x
      <4>1. ~CandidateBefore(b[j - 1], x)
        BY <1>3, <1>4, <2>2, <3>1, TrackedOrder
      <4>2. b[j - 1] # x
        BY <1>4, <2>2
      <4> QED BY <3>2, <3>3, <4>1, <4>2
    <3>4. CASE i # 1 /\ c[i] = b[i - 1]
      BY <2>2, <2>3, <3>2, <3>4, <1>4
    <3> QED BY <1>5, <2>5, <3>3, <3>4
  <2> QED BY <2>4, <2>5
<1>12. \A i, j \in 1..K : i # j /\ c[i] = c[j] => c[i] = Hole
  <2>1. \A i, j \in 1..K : i # j => i < j \/ j < i
    BY <1>1
  <2> QED BY <2>1, <1>11
<1>13. ~CandidateBefore(b[K], c[K])
  <2>1. CASE c[K] = b[K]
    BY <1>1, <1>4, <2>1, TrackedOrder
  <2>2. CASE Before(K) /\ c[K] = x
    BY <1>1, <1>3, <1>4, <2>2, TrackedOrder
  <2>3. CASE K # 1 /\ c[K] = b[K - 1]
    <3>1. K - 1 \in 1..K /\ K - 1 < K
      BY <1>1, <2>3
    <3> QED BY <1>1, <1>4, <2>3, <3>1
  <2> QED BY <1>1, <1>5, <2>1, <2>2, <2>3
<1>14. ASSUME CandidateBefore(x, c[K]) PROVE \E i \in 1..K : c[i] = x
  <2>1. Before(K)
    BY <1>1, <1>3, <1>5, <1>14
  <2> DEFINE T == {i \in 1..K : Before(i)}
  <2>2. T \subseteq Nat /\ T # {}
    BY <1>1, <2>1
  <2>3. PICK i \in T : \A j \in T : i <= j
    <3> HIDE DEF T
    <3> QED BY <2>2, LeastElement
  <2>4. i = 1 \/ ~Before(i - 1)
    <3>1. i # 1 => i - 1 \in 1..K /\ ~(i <= i - 1)
      BY <1>1
    <3> QED BY <2>3, <3>1
  <2>5. i \in 1..K /\ Before(i)
    OBVIOUS
  <2> QED BY <1>5, <2>4, <2>5
<1>15. ASSUME NEW y \in X, CandidateBefore(y, c[K]) PROVE \E i \in 1..K : c[i] = y
  <2>1. CandidateBefore(y, b[K])
    BY <1>1, <1>4, <1>7, <1>9, <1>13, <1>15, TrackedOrder
  <2>2. PICK i \in 1..K : b[i] = y
    BY <1>4, <2>1
  <2>3. CASE ~Before(i)
    BY <1>5, <2>2, <2>3
  <2>4. CASE Before(i)
    <3>1. i # K
      BY <1>13, <1>15, <2>2
    <3>2. i + 1 \in 1..K /\ i < i + 1 /\ i + 1 # 1 /\ (i + 1) - 1 = i
      BY <1>1, <3>1
    <3>3. Before(i + 1)
      BY <1>8, <2>4, <3>2
    <3>4. c[i + 1] = b[i]
      BY <1>5, <2>4, <3>2, <3>3
    <3> QED BY <2>2, <3>2, <3>4
  <2> QED BY <2>3, <2>4
<1>16. KBestOf(c, X \union {x})
  BY <1>9, <1>10, <1>11, <1>12, <1>14, <1>15 DEF KBestOf
<1> QED BY <1>16 DEF x, c

(* What is farther than the worst of the K best does not change them.      *)
LEMMA PrunedIsBest ==
  ASSUME NEW X, NEW Y, Y \subseteq TrackedReference, NEW b, KBestOf(b, X),
         \A y \in Y : WorstOf(b) < y.dist
  PROVE  KBestOf(b, X \union Y)
<1>1. b[K] \in TrackedEntry
  BY KeyFacts DEF KBestOf
<1>2. \A y \in Y : ~CandidateBefore(y, b[K])
  <2> TAKE y \in Y
  <2>1. y \in TrackedEntry /\ b[K].dist < y.dist
    BY KeyFacts DEF WorstOf
  <2>2. y.dist \in Nat /\ b[K].dist \in Nat
    BY <1>1, <2>1, TrackedOrder
  <2> QED BY <2>1, <2>2 DEF CandidateBefore
<1> QED BY <1>2 DEF KBestOf

(* No two references have one index.                                       *)
OneIndexEach(X) == \A x, y \in X : x.idx = y.idx => x = y

LEMMA NoEarlierOne ==
  ASSUME NEW X, X \subseteq TrackedReference, NEW b, KBestOf(b, X), NEW c, KBestOf(c, X),
         NEW i \in 1..K, \A j \in 1..K : j < i => b[j] = c[j],
         CandidateBefore(b[i], c[i])
  PROVE  FALSE
<1>1. \A j \in 1..K : b[j] \in TrackedEntry /\ c[j] \in TrackedEntry
  BY KeyFacts DEF KBestOf
<1>2. b[i] # Hole /\ b[i] \in X
  BY <1>1, HoleIsLast DEF KBestOf
<1>3. K \in Nat \ {0} /\ K \in 1..K
  BY KeyFacts
<1>4. CandidateBefore(b[i], c[K])
  <2>1. CASE i = K
    BY <2>1
  <2>2. CASE i < K
    <3>1. ~CandidateBefore(c[K], c[i])
      BY <1>3, <2>2 DEF KBestOf
    <3> QED BY <1>1, <1>3, <3>1, TrackedOrder
  <2> QED BY <1>3, <2>1, <2>2
<1>5. PICK j \in 1..K : c[j] = b[i]
  BY <1>2, <1>4 DEF KBestOf
<1>6. CASE j < i
  <2>1. b[j] = b[i] /\ j # i
    BY <1>5, <1>6
  <2> QED BY <1>2, <2>1 DEF KBestOf
<1>7. CASE j = i
  BY <1>1, <1>5, <1>7, TrackedOrder
<1>8. CASE i < j
  BY <1>5, <1>8 DEF KBestOf
<1> QED BY <1>3, <1>6, <1>7, <1>8

(* The K best are a function of the references they are taken from.        *)
LEMMA SameBest ==
  ASSUME NEW X, X \subseteq TrackedReference, OneIndexEach(X),
         NEW b, KBestOf(b, X), NEW c, KBestOf(c, X)
  PROVE  b = c
<1>1. b \in [1..K -> TrackedEntry] /\ c \in [1..K -> TrackedEntry]
  BY KeyFacts DEF KBestOf
<1>2. SUFFICES ASSUME b # c PROVE FALSE
  OBVIOUS
<1> DEFINE T == {i \in 1..K : b[i] # c[i]}
<1>3. T \subseteq Nat /\ T # {}
  BY <1>1, <1>2, KeyFacts
<1>4. PICK i \in T : \A j \in T : i <= j
  <2> HIDE DEF T
  <2> QED BY <1>3, LeastElement
<1>5. i \in 1..K /\ b[i] # c[i]
  OBVIOUS
<1>6. \A j \in 1..K : j < i => b[j] = c[j]
  BY <1>4, KeyFacts
<1> HIDE DEF T
<1>7. ~CandidateBefore(b[i], c[i])
  BY <1>5, <1>6, NoEarlierOne
<1>8. ~CandidateBefore(c[i], b[i])
  <2>1. \A j \in 1..K : j < i => c[j] = b[j]
    BY <1>6
  <2> QED BY <1>5, <2>1, NoEarlierOne
<1>9. b[i] \in TrackedEntry /\ c[i] \in TrackedEntry
  BY <1>1, <1>5
<1>10. b[i].idx = c[i].idx
  BY <1>7, <1>8, <1>9, TrackedOrder
<1>11. b[i] \in X \union {Hole} /\ c[i] \in X \union {Hole}
  BY <1>5 DEF KBestOf
<1>12. CASE b[i] \in X /\ c[i] \in X
  BY <1>5, <1>10, <1>12 DEF OneIndexEach
<1>13. CASE b[i] = Hole \/ c[i] = Hole
  <2>1. b[i] \in TrackedReference \/ c[i] \in TrackedReference
    BY <1>5, <1>11, <1>13
  <2> QED BY <1>7, <1>8, <1>9, <1>13, <2>1, HoleIsLast
<1> QED BY <1>11, <1>12, <1>13

(* The worst of the K best of more references is no farther.               *)
LEMMA WorstShrinks ==
  ASSUME NEW X, NEW Y, X \subseteq Y, Y \subseteq TrackedReference,
         NEW b, KBestOf(b, X), NEW c, KBestOf(c, Y)
  PROVE  WorstOf(c) \in Nat /\ WorstOf(b) \in Nat /\ WorstOf(c) <= WorstOf(b)
<1>1. \A j \in 1..K : b[j] \in TrackedEntry /\ c[j] \in TrackedEntry
  BY KeyFacts DEF KBestOf
<1>2. K \in Nat \ {0} /\ K \in 1..K
  BY KeyFacts
<1>3. WorstOf(c) \in Nat /\ WorstOf(b) \in Nat
  BY <1>1, <1>2, TrackedOrder DEF WorstOf
<1>4. SUFFICES ASSUME WorstOf(b) < WorstOf(c) PROVE FALSE
  BY <1>3
<1>5. \A i \in 1..K : b[i] # Hole /\ \E j \in 1..(K - 1) : c[j] = b[i]
  <2> TAKE i \in 1..K
  <2>1. b[i].dist \in Nat /\ b[i].dist <= WorstOf(b)
    <3>1. CASE i = K
      BY <1>3, <3>1 DEF WorstOf
    <3>2. CASE i < K
      <4>1. ~CandidateBefore(b[K], b[i])
        BY <1>2, <3>2 DEF KBestOf
      <4> QED BY <1>1, <1>2, <4>1, TrackedOrder DEF WorstOf
    <3> QED BY <1>2, <3>1, <3>2
  <2>2. b[i].dist < c[K].dist
    BY <1>3, <1>4, <2>1 DEF WorstOf
  <2>3. CandidateBefore(b[i], c[K])
    BY <2>2 DEF CandidateBefore
  <2>4. b[i] # Hole /\ b[i] \in Y
    BY <1>1, <1>2, <2>3, HoleIsLast DEF KBestOf
  <2>5. PICK j \in 1..K : c[j] = b[i]
    BY <2>3, <2>4 DEF KBestOf
  <2>6. j # K
    BY <1>1, <1>2, <2>3, <2>5, TrackedOrder
  <2>7. j \in 1..(K - 1)
    BY <1>2, <2>6
  <2> QED BY <2>4, <2>5, <2>7
<1> DEFINE f == [i \in 1..K |-> CHOOSE j \in 1..(K - 1) : c[j] = b[i]]
<1>6. \A i \in 1..K : f[i] \in 1..(K - 1) /\ c[f[i]] = b[i]
  BY <1>5
<1>7. f \in [1..K -> 1..(K - 1)]
  BY <1>6
<1>8. /\ IsFiniteSet(1..K) /\ IsFiniteSet(1..(K - 1))
      /\ Cardinality(1..(K - 1)) < Cardinality(1..K)
  <2>1. Cardinality(1..K) = K /\ Cardinality(1..(K - 1)) = K - 1
    BY <1>2, FS_Interval
  <2> QED BY <1>2, <2>1, FS_Interval
<1> HIDE DEF f
<1>9. PICK m, n \in 1..K : m # n /\ f[m] = f[n]
  BY <1>7, <1>8, FS_PigeonHole
<1>10. b[m] = b[n]
  BY <1>6, <1>9
<1> QED BY <1>5, <1>9, <1>10 DEF KBestOf

(* The references below a node, with the key of the partition.             *)
Under(s, root, n) == {Tracked(r, s.key[root]) : r \in s.below[n]}

LEMMA TreeFacts ==
  ASSUME NEW s \in Searches, NEW n \in s.nodes
  PROVE  /\ s.bound[n] \in Nat
         /\ s.below[n] \subseteq Reference
         /\ \A r \in s.below[n] : s.bound[n] <= r.dist
         /\ s.height[n] \in 0..TreeStack
<1>1. Search(s)
  BY SearchesAssumption
<1>2. Sound(s, n) /\ s.below[n] \subseteq Reference
  BY <1>1 DEF Search
<1>3. s.bound[n] \in 0..(Infinity - 1)
  BY <1>2 DEF Sound
<1>4. s.bound[n] \in Nat
  BY <1>3, KnnAssumption
<1> QED BY <1>2, <1>4 DEF Sound

LEMMA TreeLeafFacts ==
  ASSUME NEW s \in Searches, NEW n \in s.nodes, IsLeaf(s, n)
  PROVE  /\ s.refs[n] \in Seq(Reference)
         /\ s.below[n] = {s.refs[n][i] : i \in DOMAIN s.refs[n]}
         /\ \A i, j \in DOMAIN s.refs[n] : i # j => s.refs[n][i] # s.refs[n][j]
<1>1. Search(s)
  BY SearchesAssumption
<1>2. Sound(s, n)
  BY <1>1 DEF Search
<1> QED BY <1>2 DEF Sound

LEMMA TreeInnerFacts ==
  ASSUME NEW s \in Searches, NEW n \in s.nodes, ~IsLeaf(s, n)
  PROVE  /\ NearOf(s, n) \in s.nodes /\ FarOf(s, n) \in s.nodes
         /\ s.height[NearOf(s, n)] < s.height[n] /\ s.height[FarOf(s, n)] < s.height[n]
         /\ s.below[n] = s.below[NearOf(s, n)] \union s.below[FarOf(s, n)]
         /\ s.below[NearOf(s, n)] \intersect s.below[FarOf(s, n)] = {}
<1>1. Search(s)
  BY SearchesAssumption
<1>2. Sound(s, n)
  BY <1>1 DEF Search
<1>3. /\ s.left[n] \in s.nodes /\ s.right[n] \in s.nodes
      /\ s.height[s.left[n]] < s.height[n] /\ s.height[s.right[n]] < s.height[n]
      /\ s.below[n] = s.below[s.left[n]] \union s.below[s.right[n]]
      /\ s.below[s.left[n]] \intersect s.below[s.right[n]] = {}
  BY <1>2 DEF Sound, IsLeaf
<1>4. \/ NearOf(s, n) = s.left[n] /\ FarOf(s, n) = s.right[n]
      \/ NearOf(s, n) = s.right[n] /\ FarOf(s, n) = s.left[n]
  BY DEF NearOf, FarOf
<1> QED BY <1>3, <1>4

-----------------------------------------------------------------------------
(* scan_leaf.                                                              *)

ScansTo(f, refs, key, b, d) ==
  f = [i \in 0..d |-> IF i = 0 THEN b ELSE InsertTracked(f[i - 1], refs[i], key)]

LEMMA ScanExists ==
  ASSUME NEW refs, NEW key, NEW b
  PROVE  \A d \in Nat : \E f : ScansTo(f, refs, key, b, d)
<1> DEFINE T == {d \in Nat : \E f : ScansTo(f, refs, key, b, d)}
           Step(c, i) == InsertTracked(c, refs[i], key)
<1>1. 0 \in T
  <2> DEFINE g == [k \in 0..0 |-> b]
  <2>1. ScansTo(g, refs, key, b, 0)
    BY DEF ScansTo
  <2> QED BY <2>1
<1>2. ASSUME NEW d \in Nat, d \in T PROVE d + 1 \in T
  <2>1. PICK f : ScansTo(f, refs, key, b, d)
    BY <1>2
  <2> DEFINE g == [k \in 0..(d + 1) |-> IF k = d + 1 THEN Step(f[d], d + 1) ELSE f[k]]
  <2>2. \A k \in 0..d : f[k] = IF k = 0 THEN b ELSE Step(f[k - 1], k)
    BY <2>1 DEF ScansTo
  <2> HIDE DEF Step
  <2>3. \A k \in 0..(d + 1) : g[k] = IF k = 0 THEN b ELSE Step(g[k - 1], k)
    <3> TAKE k \in 0..(d + 1)
    <3>1. CASE k = d + 1
      <4>1. k # 0 /\ k - 1 = d /\ d \in 0..(d + 1) /\ d # d + 1
        BY <3>1
      <4>2. g[d] = f[d] /\ g[k] = Step(f[d], k)
        BY <3>1, <4>1
      <4> QED BY <4>1, <4>2
    <3>2. CASE k # d + 1
      <4>1. k \in 0..d /\ g[k] = f[k]
        BY <3>2
      <4>2. CASE k = 0
        BY <2>2, <4>1, <4>2
      <4>3. CASE k # 0
        <5>1. k - 1 \in 0..(d + 1) /\ k - 1 # d + 1
          BY <4>1, <4>3
        <5>2. g[k - 1] = f[k - 1]
          BY <5>1
        <5> QED BY <2>2, <4>1, <4>3, <5>2
      <4> QED BY <4>2, <4>3
    <3> QED BY <3>1, <3>2
  <2>4. g = [k \in 0..(d + 1) |-> IF k = 0 THEN b ELSE Step(g[k - 1], k)]
    <3>1. g = [k \in 0..(d + 1) |-> g[k]]
      OBVIOUS
    <3> HIDE DEF g
    <3> QED BY <2>3, <3>1
  <2>5. ScansTo(g, refs, key, b, d + 1)
    BY <2>4 DEF ScansTo, Step
  <2> QED BY <2>5
<1> HIDE DEF T
<1>3. \A d \in Nat : d \in T
  BY <1>1, <1>2, AllNumbers
<1> QED BY <1>3 DEF T

LEMMA ScanIsBest ==
  ASSUME NEW refs \in Seq(Reference), NEW key \in 0..(NoKey - 1),
         \A i, j \in DOMAIN refs : i # j => refs[i] # refs[j],
         NEW X, X \subseteq TrackedReference, NEW b, KBestOf(b, X),
         \A i \in DOMAIN refs : Tracked(refs[i], key) \notin X
  PROVE  KBestOf(ScanLeaf(refs, key, b), X \union {Tracked(refs[i], key) : i \in DOMAIN refs})
<1>1. Len(refs) \in Nat /\ DOMAIN refs = 1..Len(refs) /\ \A i \in DOMAIN refs : refs[i] \in Reference
  OBVIOUS
<1> DEFINE f == CHOOSE f : ScansTo(f, refs, key, b, Len(refs))
<1>2. ScanLeaf(refs, key, b) = f[Len(refs)]
  BY Zenon DEF ScanLeaf, ScansTo
<1>3. ScansTo(f, refs, key, b, Len(refs))
  BY <1>1, ScanExists
<1> HIDE DEF f
<1>4. \A i \in 0..Len(refs) :
        f[i] = IF i = 0 THEN b ELSE InsertTracked(f[i - 1], refs[i], key)
  BY <1>3 DEF ScansTo
<1> DEFINE Seen(i) == X \union {Tracked(refs[j], key) : j \in 1..i}
           T == {i \in Nat : i <= Len(refs) => KBestOf(f[i], Seen(i))}
<1>5. 0 \in T
  <2>1. Seen(0) = X /\ f[0] = b
    BY <1>1, <1>4
  <2> HIDE DEF Seen
  <2> QED BY <2>1
<1>6. ASSUME NEW i \in Nat, i \in T PROVE i + 1 \in T
  <2>1. SUFFICES ASSUME i + 1 <= Len(refs) PROVE KBestOf(f[i + 1], Seen(i + 1))
    OBVIOUS
  <2>2. i + 1 \in 1..Len(refs) /\ i + 1 \in 0..Len(refs) /\ i + 1 # 0 /\ (i + 1) - 1 = i
    BY <1>1, <2>1
  <2>3. f[i + 1] = InsertTracked(f[i], refs[i + 1], key)
    BY <1>4, <2>2
  <2>4. KBestOf(f[i], Seen(i))
    BY <1>1, <1>6, <2>1
  <2>5. Seen(i) \subseteq TrackedReference
    <3>1. \A j \in 1..i : refs[j] \in Reference
      BY <1>1, <2>2
    <3> QED BY <3>1, TrackedFacts
  <2>6. Tracked(refs[i + 1], key) \notin Seen(i)
    <3>1. \A j \in 1..i : j \in DOMAIN refs /\ j # i + 1
      BY <1>1, <2>2
    <3>2. \A j \in 1..i : Tracked(refs[j], key) # Tracked(refs[i + 1], key)
      BY <1>1, <2>2, <3>1, TrackedFacts
    <3> QED BY <1>1, <2>2, <3>2
  <2>7. Seen(i + 1) = Seen(i) \union {Tracked(refs[i + 1], key)}
    <3>1. 1..(i + 1) = 1..i \union {i + 1}
      OBVIOUS
    <3> QED BY <3>1
  <2> HIDE DEF Seen
  <2> QED BY <1>1, <2>2, <2>3, <2>4, <2>5, <2>6, <2>7, InsertedIsBest
<1> HIDE DEF T
<1>7. Len(refs) \in T
  BY <1>1, <1>5, <1>6, AllNumbers
<1> QED BY <1>1, <1>2, <1>7 DEF T

-----------------------------------------------------------------------------
(* search_node_iterative.                                                  *)

VisitOf(s, root, f, n, c) ==
  IF s.bound[n] > WorstOf(c) THEN c
  ELSE IF IsLeaf(s, n) THEN ScanLeaf(s.refs[n], s.key[root], c)
  ELSE IF s.bound[FarOf(s, n)] <= WorstOf(c)
  THEN f[FarOf(s, n)][f[NearOf(s, n)][c]]
  ELSE f[NearOf(s, n)][c]

(* f searches the trees of the set N.                                      *)
SearchesTrees(f, s, root, N) == f = [n \in N |-> [c \in Bests |-> VisitOf(s, root, f, n, c)]]

LowerThan(s, h) == {n \in s.nodes : s.height[n] < h}

LEMMA VisitExists ==
  ASSUME NEW s \in Searches, NEW root
  PROVE  \A h \in Nat : \E f : SearchesTrees(f, s, root, LowerThan(s, h))
<1> DEFINE T == {h \in Nat : \E f : SearchesTrees(f, s, root, LowerThan(s, h))}
<1>0. \A n \in s.nodes : s.height[n] \in Nat
  BY TreeFacts, KnnAssumption
<1>1. 0 \in T
  <2>1. LowerThan(s, 0) = {}
    BY <1>0 DEF LowerThan
  <2> DEFINE g == [n \in {} |-> n]
  <2>2. SearchesTrees(g, s, root, {})
    BY DEF SearchesTrees
  <2> QED BY <2>1, <2>2
<1>2. ASSUME NEW h \in Nat, h \in T PROVE h + 1 \in T
  <2>1. PICK f : SearchesTrees(f, s, root, LowerThan(s, h))
    BY <1>2
  <2> DEFINE g == [n \in LowerThan(s, h + 1) |-> [c \in Bests |-> VisitOf(s, root, f, n, c)]]
  <2>2. \A n \in LowerThan(s, h) : n \in LowerThan(s, h + 1)
    BY <1>0 DEF LowerThan
  <2>3. \A n \in LowerThan(s, h) : f[n] = [c \in Bests |-> VisitOf(s, root, f, n, c)]
    BY <2>1 DEF SearchesTrees
  <2>4. \A n \in LowerThan(s, h) : g[n] = f[n]
    BY <2>2, <2>3
  <2>5. \A n \in LowerThan(s, h + 1) : \A c \in Bests :
          VisitOf(s, root, f, n, c) = VisitOf(s, root, g, n, c)
    <3> TAKE n \in LowerThan(s, h + 1)
    <3> TAKE c \in Bests
    <3> HIDE DEF g
    <3>1. CASE IsLeaf(s, n)
      BY <3>1 DEF VisitOf
    <3>2. CASE ~IsLeaf(s, n)
      <4>1. n \in s.nodes /\ s.height[n] < h + 1
        BY DEF LowerThan
      <4>2. /\ NearOf(s, n) \in s.nodes /\ FarOf(s, n) \in s.nodes
            /\ s.height[NearOf(s, n)] < s.height[n] /\ s.height[FarOf(s, n)] < s.height[n]
        BY <3>2, <4>1, TreeInnerFacts
      <4>3. NearOf(s, n) \in LowerThan(s, h) /\ FarOf(s, n) \in LowerThan(s, h)
        <5>1. /\ s.height[n] \in Nat /\ s.height[NearOf(s, n)] \in Nat
              /\ s.height[FarOf(s, n)] \in Nat
          BY <1>0, <4>1, <4>2
        <5> QED BY <4>1, <4>2, <5>1 DEF LowerThan
      <4>4. g[NearOf(s, n)] = f[NearOf(s, n)] /\ g[FarOf(s, n)] = f[FarOf(s, n)]
        BY <2>4, <4>3
      <4> QED BY <4>4 DEF VisitOf
    <3> QED BY <3>1, <3>2
  <2>6. \A n \in LowerThan(s, h + 1) : g[n] = [c \in Bests |-> VisitOf(s, root, g, n, c)]
    <3> TAKE n \in LowerThan(s, h + 1)
    <3>1. g[n] = [c \in Bests |-> VisitOf(s, root, f, n, c)]
      OBVIOUS
    <3> HIDE DEF g
    <3> QED BY <2>5, <3>1
  <2>7. g = [n \in LowerThan(s, h + 1) |-> [c \in Bests |-> VisitOf(s, root, g, n, c)]]
    <3>1. g = [n \in LowerThan(s, h + 1) |-> g[n]]
      OBVIOUS
    <3> HIDE DEF g
    <3> QED BY <2>6, <3>1
  <2>8. SearchesTrees(g, s, root, LowerThan(s, h + 1))
    <3> HIDE DEF g
    <3> QED BY <2>7 DEF SearchesTrees
  <2> QED BY <2>8
<1> HIDE DEF T
<1>3. \A h \in Nat : h \in T
  BY <1>1, <1>2, AllNumbers
<1> QED BY <1>3 DEF T

(* From the K best of X, the search of the tree below n goes on to the K   *)
(* best of X and what is below n.                                          *)
SearchedFrom(X, s, root, n, f) ==
  X \intersect Under(s, root, n) = {} =>
    \A b : KBestOf(b, X) => KBestOf(f[n][b], X \union Under(s, root, n))

BestBelow(s, root, f, n) == \A X \in SUBSET TrackedReference : SearchedFrom(X, s, root, n, f)

LEMMA UnderFacts ==
  ASSUME NEW s \in Searches, NEW root, s.key[root] \in 0..(NoKey - 1), NEW n \in s.nodes
  PROVE  /\ Under(s, root, n) \subseteq TrackedReference
         /\ \A x \in Under(s, root, n) : s.bound[n] <= x.dist
BY TreeFacts, TrackedFacts DEF Under

LEMMA NodeIsBest ==
  ASSUME NEW s \in Searches, NEW root, s.key[root] \in 0..(NoKey - 1),
         NEW f, SearchesTrees(f, s, root, s.nodes), NEW n \in s.nodes,
         ~IsLeaf(s, n) => BestBelow(s, root, f, NearOf(s, n)) /\ BestBelow(s, root, f, FarOf(s, n))
  PROVE  BestBelow(s, root, f, n)
<1> SUFFICES ASSUME NEW X, X \subseteq TrackedReference, X \intersect Under(s, root, n) = {},
                    NEW b, KBestOf(b, X)
             PROVE  KBestOf(f[n][b], X \union Under(s, root, n))
  BY DEF BestBelow, SearchedFrom
<1> DEFINE near == NearOf(s, n)
           far == FarOf(s, n)
           key == s.key[root]
<1>1. b \in Bests /\ b[K] \in TrackedEntry /\ WorstOf(b) \in Nat
  <2>1. b \in Bests /\ b[K] \in TrackedEntry
    BY KeyFacts DEF KBestOf
  <2> QED BY <2>1, TrackedOrder DEF WorstOf
<1>2. f[n][b] = VisitOf(s, root, f, n, b)
  <2>1. f[n] = [c \in Bests |-> VisitOf(s, root, f, n, c)]
    BY DEF SearchesTrees
  <2> QED BY <1>1, <2>1
<1>3. \A m \in s.nodes : /\ Under(s, root, m) \subseteq TrackedReference
                         /\ s.bound[m] \in Nat
                         /\ \A x \in Under(s, root, m) : s.bound[m] <= x.dist /\ x.dist \in Nat
  <2> TAKE m \in s.nodes
  <2>1. /\ Under(s, root, m) \subseteq TrackedReference
        /\ \A x \in Under(s, root, m) : s.bound[m] <= x.dist
    BY UnderFacts
  <2>2. \A x \in TrackedReference : x.dist \in Nat
    BY KeyFacts, TrackedOrder
  <2> QED BY <2>1, <2>2, TreeFacts
<1>4. \A m \in s.nodes : WorstOf(b) < s.bound[m] =>
        \A x \in Under(s, root, m) : WorstOf(b) < x.dist
  BY <1>1, <1>3
<1>5. CASE s.bound[n] > WorstOf(b)
  <2>1. f[n][b] = b
    BY <1>2, <1>5 DEF VisitOf
  <2>2. \A x \in Under(s, root, n) : WorstOf(b) < x.dist
    BY <1>1, <1>3, <1>4, <1>5
  <2> QED BY <1>3, <2>1, <2>2, PrunedIsBest
<1>6. CASE s.bound[n] <= WorstOf(b) /\ IsLeaf(s, n)
  <2>1. f[n][b] = ScanLeaf(s.refs[n], key, b)
    BY <1>1, <1>2, <1>3, <1>6 DEF VisitOf
  <2> DEFINE refs == s.refs[n]
  <2>2. /\ refs \in Seq(Reference)
        /\ s.below[n] = {refs[i] : i \in DOMAIN refs}
        /\ \A i, j \in DOMAIN refs : i # j => refs[i] # refs[j]
    BY <1>6, TreeLeafFacts
  <2> HIDE DEF refs
  <2>3. Under(s, root, n) = {Tracked(refs[i], key) : i \in DOMAIN refs}
    BY <2>2 DEF Under
  <2>4. \A i \in DOMAIN refs : Tracked(refs[i], key) \notin X
    BY <2>3
  <2>5. key \in 0..(NoKey - 1)
    OBVIOUS
  <2> HIDE DEF key
  <2>6. KBestOf(ScanLeaf(refs, key, b), X \union {Tracked(refs[i], key) : i \in DOMAIN refs})
    BY <2>2, <2>4, <2>5, ScanIsBest
  <2> QED BY <2>1, <2>3, <2>6 DEF refs
<1>7. CASE s.bound[n] <= WorstOf(b) /\ ~IsLeaf(s, n)
  <2>1. /\ near \in s.nodes /\ far \in s.nodes
        /\ s.below[n] = s.below[near] \union s.below[far]
        /\ s.below[near] \intersect s.below[far] = {}
    BY <1>7, TreeInnerFacts
  <2>2. BestBelow(s, root, f, near) /\ BestBelow(s, root, f, far)
    BY <1>7
  <2>3. f[n][b] = IF s.bound[far] <= WorstOf(b) THEN f[far][f[near][b]] ELSE f[near][b]
    BY <1>1, <1>2, <1>3, <1>7 DEF VisitOf
  <2> HIDE DEF near, far
  <2> DEFINE A == Under(s, root, near)
             B == Under(s, root, far)
  <2>4. /\ Under(s, root, n) = A \union B
        /\ A \intersect B = {}
        /\ A \subseteq TrackedReference /\ B \subseteq TrackedReference
    <3>1. Under(s, root, n) = A \union B
      BY <2>1 DEF Under
    <3>2. \A x \in s.below[near], y \in s.below[far] : Tracked(x, key) # Tracked(y, key)
      <4>1. s.below[near] \subseteq Reference /\ s.below[far] \subseteq Reference
        BY <2>1, TreeFacts
      <4>2. \A x \in s.below[near], y \in s.below[far] : x # y
        BY <2>1
      <4> QED BY <4>1, <4>2, TrackedFacts
    <3>3. A \intersect B = {}
      BY <3>2 DEF Under
    <3> QED BY <1>3, <2>1, <3>1, <3>3
  <2>5. X \intersect A = {} /\ X \intersect B = {}
    BY <2>4
  <2>6. CASE s.bound[far] <= WorstOf(b)
    <3>1. KBestOf(f[near][b], X \union A)
      BY <2>2, <2>5 DEF BestBelow, SearchedFrom
    <3>2. (X \union A) \intersect B = {} /\ (X \union A) \subseteq TrackedReference
      BY <2>4, <2>5
    <3>3. KBestOf(f[far][f[near][b]], (X \union A) \union B)
      BY <2>2, <3>1, <3>2 DEF BestBelow, SearchedFrom
    <3>4. (X \union A) \union B = X \union Under(s, root, n)
      BY <2>4
    <3> QED BY <2>3, <2>6, <3>3, <3>4
  <2>7. CASE ~(s.bound[far] <= WorstOf(b))
    <3>1. KBestOf(b, X \union B)
      <4>1. \A x \in B : WorstOf(b) < x.dist
        BY <1>1, <1>3, <1>4, <2>1, <2>7
      <4> QED BY <2>4, <4>1, PrunedIsBest
    <3>2. (X \union B) \intersect A = {} /\ (X \union B) \subseteq TrackedReference
      BY <2>4, <2>5
    <3>3. KBestOf(f[near][b], (X \union B) \union A)
      BY <2>2, <3>1, <3>2 DEF BestBelow, SearchedFrom
    <3>4. (X \union B) \union A = X \union Under(s, root, n)
      BY <2>4
    <3> QED BY <2>3, <2>7, <3>3, <3>4
  <2> QED BY <2>6, <2>7
<1> QED BY <1>1, <1>3, <1>5, <1>6, <1>7

(* The search of a partition adds it to the references of the K best.      *)
LEMMA SearchedIsBest ==
  ASSUME NEW s \in Searches, NEW root \in s.nodes, s.key[root] \in 0..(NoKey - 1),
         NEW X, X \subseteq TrackedReference, X \intersect Under(s, root, root) = {},
         NEW b, KBestOf(b, X)
  PROVE  KBestOf(SearchTree(s, root, b), X \union Under(s, root, root))
<1> DEFINE f == CHOOSE f : SearchesTrees(f, s, root, s.nodes)
<1>1. SearchTree(s, root, b) = f[root][b]
  BY Zenon DEF SearchTree, SearchesTrees, VisitOf
<1>2. \A n \in s.nodes : s.height[n] \in Nat /\ s.height[n] < TreeStack + 1
  BY TreeFacts, KnnAssumption
<1>3. SearchesTrees(f, s, root, s.nodes)
  <2>1. TreeStack + 1 \in Nat /\ LowerThan(s, TreeStack + 1) = s.nodes
    BY <1>2, KnnAssumption DEF LowerThan
  <2> QED BY <2>1, VisitExists
<1> HIDE DEF f
<1> DEFINE T == {h \in Nat : \A n \in s.nodes : s.height[n] < h => BestBelow(s, root, f, n)}
<1>4. 0 \in T
  BY <1>2
<1>5. ASSUME NEW h \in Nat, h \in T PROVE h + 1 \in T
  <2>1. SUFFICES ASSUME NEW n \in s.nodes, s.height[n] < h + 1 PROVE BestBelow(s, root, f, n)
    OBVIOUS
  <2>2. ASSUME ~IsLeaf(s, n)
        PROVE  BestBelow(s, root, f, NearOf(s, n)) /\ BestBelow(s, root, f, FarOf(s, n))
    <3>1. /\ NearOf(s, n) \in s.nodes /\ FarOf(s, n) \in s.nodes
          /\ s.height[NearOf(s, n)] < s.height[n] /\ s.height[FarOf(s, n)] < s.height[n]
      BY <2>2, TreeInnerFacts
    <3>2. s.height[NearOf(s, n)] < h /\ s.height[FarOf(s, n)] < h
      BY <1>2, <2>1, <3>1
    <3> QED BY <1>5, <3>1, <3>2
  <2> QED BY <1>3, <2>2, NodeIsBest
<1> HIDE DEF T
<1>6. TreeStack + 1 \in T
  BY <1>4, <1>5, AllNumbers, KnnAssumption
<1>7. BestBelow(s, root, f, root)
  BY <1>2, <1>6 DEF T
<1> QED BY <1>1, <1>7 DEF BestBelow, SearchedFrom

-----------------------------------------------------------------------------
(* The partitions.                                                         *)

(* What the partitions with the roots N hold.                              *)
HeldBy(s, N) == UNION {Under(s, n, n) : n \in N}

LEMMA RootFacts ==
  ASSUME NEW s \in Searches
  PROVE  /\ Roots(s) \subseteq s.nodes
         /\ s.others \subseteq Roots(s)
         /\ s.home # NoNode => s.home \in Roots(s)
         /\ s.home \notin s.others
         /\ \A n \in Roots(s) : s.key[n] \in 0..(NoKey - 1)
         /\ \A m, n \in Roots(s) : s.key[m] = s.key[n] => m = n
BY SearchesAssumption, KeysAssumption DEF Search, Roots

LEMMA HeldFacts ==
  ASSUME NEW s \in Searches, NEW N, N \subseteq Roots(s)
  PROVE  /\ HeldBy(s, N) \subseteq TrackedReference
         /\ OneIndexEach(HeldBy(s, N))
         /\ \A x \in HeldBy(s, N) : \E n \in N : x \in Under(s, n, n) /\ x.key = s.key[n]
<1>1. \A n \in N : /\ n \in s.nodes /\ n \in Roots(s) /\ s.key[n] \in 0..(NoKey - 1)
                   /\ s.below[n] \subseteq Reference
  BY RootFacts, TreeFacts
<1>2. HeldBy(s, N) \subseteq TrackedReference
  BY <1>1, UnderFacts DEF HeldBy
<1>3. \A n \in N : \A x \in Under(s, n, n) : x.key = s.key[n]
  BY <1>1, TrackedFacts DEF Under
<1>4. ASSUME NEW x \in HeldBy(s, N), NEW y \in HeldBy(s, N), x.idx = y.idx PROVE x = y
  <2>1. PICK m \in N, n \in N : x \in Under(s, m, m) /\ y \in Under(s, n, n)
    BY DEF HeldBy
  <2>2. PICK q \in s.below[m], r \in s.below[n] :
          x = Tracked(q, s.key[m]) /\ y = Tracked(r, s.key[n])
    BY <2>1 DEF Under
  <2>3. q.idx = r.idx
    BY <1>1, <1>4, <2>2, TrackedFacts
  <2>4. Search(s)
    BY SearchesAssumption
  <2>5. q \in References(s) /\ r \in References(s)
    BY <1>1 DEF References
  <2>6. q = r
    BY <2>3, <2>4, <2>5 DEF Search
  <2>7. m = n
    <3>1. s.below[m] \intersect s.below[n] # {}
      BY <2>6
    <3> QED BY <1>1, <2>4, <3>1 DEF Search
  <2> QED BY <2>2, <2>6, <2>7
<1> QED BY <1>2, <1>3, <1>4 DEF HeldBy, OneIndexEach

(* Another partition is searched.                                          *)
LEMMA PartitionAdded ==
  ASSUME NEW s \in Searches, NEW N, N \subseteq Roots(s), NEW n \in Roots(s), n \notin N,
         NEW b, KBestOf(b, HeldBy(s, N))
  PROVE  KBestOf(SearchTree(s, n, b), HeldBy(s, N \union {n}))
<1>1. n \in s.nodes /\ s.key[n] \in 0..(NoKey - 1)
  BY RootFacts
<1>2. HeldBy(s, N) \intersect Under(s, n, n) = {}
  <2>1. SUFFICES ASSUME NEW x \in HeldBy(s, N), x \in Under(s, n, n) PROVE FALSE
    OBVIOUS
  <2>2. PICK m \in N : x.key = s.key[m]
    BY HeldFacts
  <2>3. x \in HeldBy(s, {n})
    BY <2>1 DEF HeldBy
  <2>4. x.key = s.key[n]
    BY <2>3, HeldFacts
  <2> QED BY <2>2, <2>4, RootFacts
<1>3. HeldBy(s, N \union {n}) = HeldBy(s, N) \union Under(s, n, n)
  BY DEF HeldBy
<1>4. HeldBy(s, N) \subseteq TrackedReference
  BY HeldFacts
<1> QED BY <1>1, <1>2, <1>3, <1>4, SearchedIsBest

-----------------------------------------------------------------------------
(* The loop over the partitions.                                           *)

EntryStep(s, n, threshold, c) == IF Leaves(s, n, threshold, c) THEN c ELSE SearchTree(s, n, c)

LoopsTo(f, s, e, threshold, b, d) ==
  f = [i \in 0..d |-> IF i = 0 THEN b ELSE EntryStep(s, e[i], threshold, f[i - 1])]

LEMMA LoopExists ==
  ASSUME NEW s, NEW e, NEW threshold, NEW b
  PROVE  \A d \in Nat : \E f : LoopsTo(f, s, e, threshold, b, d)
<1> DEFINE T == {d \in Nat : \E f : LoopsTo(f, s, e, threshold, b, d)}
           Step(c, i) == EntryStep(s, e[i], threshold, c)
<1>1. 0 \in T
  <2> DEFINE g == [k \in 0..0 |-> b]
  <2>1. LoopsTo(g, s, e, threshold, b, 0)
    BY DEF LoopsTo
  <2> QED BY <2>1
<1>2. ASSUME NEW d \in Nat, d \in T PROVE d + 1 \in T
  <2>1. PICK f : LoopsTo(f, s, e, threshold, b, d)
    BY <1>2
  <2> DEFINE g == [k \in 0..(d + 1) |-> IF k = d + 1 THEN Step(f[d], d + 1) ELSE f[k]]
  <2>2. \A k \in 0..d : f[k] = IF k = 0 THEN b ELSE Step(f[k - 1], k)
    BY <2>1 DEF LoopsTo
  <2> HIDE DEF Step
  <2>3. \A k \in 0..(d + 1) : g[k] = IF k = 0 THEN b ELSE Step(g[k - 1], k)
    <3> TAKE k \in 0..(d + 1)
    <3>1. CASE k = d + 1
      <4>1. k # 0 /\ k - 1 = d /\ d \in 0..(d + 1) /\ d # d + 1
        BY <3>1
      <4>2. g[d] = f[d] /\ g[k] = Step(f[d], k)
        BY <3>1, <4>1
      <4> QED BY <4>1, <4>2
    <3>2. CASE k # d + 1
      <4>1. k \in 0..d /\ g[k] = f[k]
        BY <3>2
      <4>2. CASE k = 0
        BY <2>2, <4>1, <4>2
      <4>3. CASE k # 0
        <5>1. k - 1 \in 0..(d + 1) /\ k - 1 # d + 1
          BY <4>1, <4>3
        <5>2. g[k - 1] = f[k - 1]
          BY <5>1
        <5> QED BY <2>2, <4>1, <4>3, <5>2
      <4> QED BY <4>2, <4>3
    <3> QED BY <3>1, <3>2
  <2>4. g = [k \in 0..(d + 1) |-> IF k = 0 THEN b ELSE Step(g[k - 1], k)]
    <3>1. g = [k \in 0..(d + 1) |-> g[k]]
      OBVIOUS
    <3> HIDE DEF g
    <3> QED BY <2>3, <3>1
  <2>5. LoopsTo(g, s, e, threshold, b, d + 1)
    BY <2>4 DEF LoopsTo, Step
  <2> QED BY <2>5
<1> HIDE DEF T
<1>3. \A d \in Nat : d \in T
  BY <1>1, <1>2, AllNumbers
<1> QED BY <1>3 DEF T

(* The partitions searched by the time of the i-th entry, after those of N. *)
SearchedBy(s, e, threshold, f, N, i) ==
  N \union {e[j] : j \in {k \in 1..i : ~Leaves(s, e[k], threshold, f[k - 1])}}

LEMMA LoopIsBest ==
  ASSUME NEW s \in Searches, NEW N, N \subseteq Roots(s), NEW d \in Nat,
         NEW e \in [1..d -> Roots(s) \ N], \A i, j \in 1..d : i # j => e[i] # e[j],
         NEW threshold, NEW b, KBestOf(b, HeldBy(s, N)),
         NEW f, LoopsTo(f, s, e, threshold, b, d)
  PROVE  \A i \in 0..d : KBestOf(f[i], HeldBy(s, SearchedBy(s, e, threshold, f, N, i)))
<1> DEFINE On(i) == SearchedBy(s, e, threshold, f, N, i)
           T == {i \in Nat : i <= d => KBestOf(f[i], HeldBy(s, On(i)))}
<1>1. \A i \in 0..d : f[i] = IF i = 0 THEN b ELSE EntryStep(s, e[i], threshold, f[i - 1])
  BY DEF LoopsTo
<1>2. 0 \in T
  <2>1. On(0) = N /\ f[0] = b
    BY <1>1 DEF SearchedBy
  <2> QED BY <2>1
<1>3. ASSUME NEW i \in Nat, i \in T PROVE i + 1 \in T
  <2>1. SUFFICES ASSUME i + 1 <= d PROVE KBestOf(f[i + 1], HeldBy(s, On(i + 1)))
    OBVIOUS
  <2>2. i + 1 \in 1..d /\ i + 1 \in 0..d /\ i + 1 # 0 /\ (i + 1) - 1 = i /\ i \in 0..d
    BY <2>1
  <2>3. f[i + 1] = EntryStep(s, e[i + 1], threshold, f[i])
    BY <1>1, <2>2
  <2>4. KBestOf(f[i], HeldBy(s, On(i)))
    BY <1>3, <2>1
  <2>5. \A k \in 1..i : k \in 1..d /\ k # i + 1
    BY <2>2
  <2>6. e[i + 1] \in Roots(s) /\ e[i + 1] \notin On(i) /\ On(i) \subseteq Roots(s)
    BY <2>2, <2>5 DEF SearchedBy
  <2>7. 1..(i + 1) = 1..i \union {i + 1}
    OBVIOUS
  <2>8. CASE Leaves(s, e[i + 1], threshold, f[i])
    <3>1. f[i + 1] = f[i]
      BY <2>3, <2>8 DEF EntryStep
    <3>2. On(i + 1) = On(i)
      BY <2>2, <2>7, <2>8 DEF SearchedBy
    <3> QED BY <2>4, <3>1, <3>2
  <2>9. CASE ~Leaves(s, e[i + 1], threshold, f[i])
    <3>1. f[i + 1] = SearchTree(s, e[i + 1], f[i])
      BY <2>3, <2>9 DEF EntryStep
    <3>2. On(i + 1) = On(i) \union {e[i + 1]}
      BY <2>2, <2>7, <2>9 DEF SearchedBy
    <3> HIDE DEF On
    <3> QED BY <2>4, <2>6, <3>1, <3>2, PartitionAdded
  <2> QED BY <2>8, <2>9
<1> HIDE DEF T
<1>4. \A i \in Nat : i \in T
  BY <1>2, <1>3, AllNumbers
<1> QED BY <1>4 DEF T

-----------------------------------------------------------------------------
(* The order of the partitions.                                            *)

(* There is one way to sort them: the sort is stable for as many, or no    *)
(* two have the same bound.                                                *)
OneOrder(s) ==
  /\ IsFiniteSet(s.others)
  /\ \/ Cardinality(s.others) <= InsertionSortMax
     \/ \A m, n \in s.others : s.bound[m] = s.bound[n] => m = n

Precedes(s, m, n) ==
  s.bound[m] < s.bound[n] \/ (s.bound[m] = s.bound[n] /\ s.key[m] < s.key[n])

Sorted(s, S) ==
  {e \in SetToSeqs(S) : \A i, j \in DOMAIN e : i < j => Precedes(s, e[i], e[j])}

LEMMA OrderFacts ==
  ASSUME NEW s \in Searches, NEW m \in Roots(s), NEW n \in Roots(s), Precedes(s, m, n)
  PROVE  ~Precedes(s, n, m) /\ m # n
<1>1. /\ s.bound[m] \in Nat /\ s.bound[n] \in Nat
      /\ s.key[m] \in Nat /\ s.key[n] \in Nat
  BY RootFacts, TreeFacts, KeyFacts
<1> QED BY <1>1 DEF Precedes

LEMMA SeqFacts ==
  ASSUME NEW S, NEW e \in SetToSeqs(S)
  PROVE  /\ e \in [1..Cardinality(S) -> S]
         /\ DOMAIN e = 1..Cardinality(S)
         /\ \A i, j \in 1..Cardinality(S) : i # j => e[i] # e[j]
BY DEF SetToSeqs

LEMMA LengthOf ==
  ASSUME NEW S, IsFiniteSet(S), NEW e \in SetToSeqs(S)
  PROVE  Len(e) = Cardinality(S) /\ Cardinality(S) \in Nat
<1>1. Cardinality(S) \in Nat
  BY FS_CardinalityType
<1>2. e \in Seq(S) /\ DOMAIN e = 1..Cardinality(S)
  BY <1>1, SeqFacts
<1> QED BY <1>1, <1>2

(* All of a finite set is in the sequence.                                 *)
LEMMA AllListed ==
  ASSUME NEW S, IsFiniteSet(S), NEW e \in SetToSeqs(S)
  PROVE  \A n \in S : \E i \in 1..Cardinality(S) : e[i] = n
<1>1. e \in [1..Cardinality(S) -> S] /\ \A i, j \in 1..Cardinality(S) : i # j => e[i] # e[j]
  BY SeqFacts
<1>2. Cardinality(S) \in Nat
  BY FS_CardinalityType
<1>3. Cardinality(1..Cardinality(S)) = Cardinality(S)
  BY <1>2, FS_Interval
<1>4. e \in Injection(1..Cardinality(S), S)
  BY <1>1 DEF Injection, IsInjective
<1>5. e \in Surjection(1..Cardinality(S), S)
  BY <1>3, <1>4, FS_Injection
<1> QED BY <1>5 DEF Surjection

LEMMA OrdersAreSorted ==
  ASSUME NEW s \in Searches, OneOrder(s), NEW S, S \subseteq s.others
  PROVE  /\ Orders(s, S) = Sorted(s, S)
         /\ IsFiniteSet(S)
<1>1. IsFiniteSet(S) /\ Cardinality(S) <= Cardinality(s.others)
  BY FS_Subset DEF OneOrder
<1>2. Cardinality(S) \in Nat /\ Cardinality(s.others) \in Nat /\ InsertionSortMax \in Nat
  BY <1>1, FS_CardinalityType, KeysAssumption DEF OneOrder
<1>3. ASSUME NEW e \in SetToSeqs(S), NEW i \in DOMAIN e, NEW j \in DOMAIN e, i < j
      PROVE  Precedes(s, e[i], e[j]) <=>
               \/ s.bound[e[i]] < s.bound[e[j]]
               \/ /\ s.bound[e[i]] = s.bound[e[j]]
                  /\ Cardinality(S) <= InsertionSortMax => s.key[e[i]] < s.key[e[j]]
  <2>1. e[i] \in s.others /\ e[j] \in s.others /\ e[i] # e[j]
    <3>1. i \in 1..Cardinality(S) /\ j \in 1..Cardinality(S) /\ i # j
      BY <1>2, <1>3, SeqFacts
    <3> QED BY <3>1, SeqFacts
  <2>2. CASE Cardinality(s.others) <= InsertionSortMax
    <3>1. Cardinality(S) <= InsertionSortMax
      BY <1>1, <1>2, <2>2
    <3> QED BY <3>1 DEF Precedes
  <2>3. CASE \A m, n \in s.others : s.bound[m] = s.bound[n] => m = n
    BY <2>1, <2>3 DEF Precedes
  <2> QED BY <2>2, <2>3 DEF OneOrder
<1> QED BY <1>1, <1>3 DEF Orders, Sorted

(* What is sorted stays so when some of it is left out.                    *)
LEMMA PartIsSorted ==
  ASSUME NEW s \in Searches, NEW S, IsFiniteSet(S), NEW e \in Sorted(s, S),
         NEW P, P \subseteq S
  PROVE  \E q : q \in Sorted(s, P)
<1>1. /\ e \in SetToSeqs(S) /\ e \in [1..Cardinality(S) -> S] /\ DOMAIN e = 1..Cardinality(S)
      /\ Cardinality(S) \in Nat
      /\ \A i, j \in 1..Cardinality(S) : i # j => e[i] # e[j]
      /\ \A i, j \in 1..Cardinality(S) : i < j => Precedes(s, e[i], e[j])
  BY SeqFacts, FS_CardinalityType DEF Sorted
<1> DEFINE d == Cardinality(S)
           First(i) == P \intersect {e[j] : j \in 1..i}
           T == {i \in Nat : i <= d => \E q : q \in Sorted(s, First(i))}
<1>2. 0 \in T
  <2>1. First(0) = {} /\ Cardinality({}) = 0
    BY FS_EmptySet
  <2> DEFINE q == [i \in {} |-> i]
  <2>2. q \in SetToSeqs({})
    BY <2>1 DEF SetToSeqs
  <2>3. q \in Sorted(s, {})
    BY <2>2 DEF Sorted
  <2> HIDE DEF q
  <2> QED BY <2>1, <2>3
<1>3. ASSUME NEW i \in Nat, i \in T PROVE i + 1 \in T
  <2>1. SUFFICES ASSUME i + 1 <= d PROVE \E q : q \in Sorted(s, First(i + 1))
    OBVIOUS
  <2>2. i + 1 \in 1..d /\ \A j \in 1..i : j \in 1..d /\ j < i + 1 /\ j # i + 1
    BY <2>1, <1>1
  <2>3. PICK q : q \in Sorted(s, First(i))
    <3>1. i <= d
      BY <1>1, <2>1
    <3> HIDE DEF First, d
    <3> QED BY <1>3, <3>1
  <2>4. 1..(i + 1) = 1..i \union {i + 1}
    OBVIOUS
  <2>5. CASE e[i + 1] \notin P
    <3>1. First(i + 1) = First(i)
      BY <2>4, <2>5
    <3> QED BY <2>3, <3>1
  <2>6. CASE e[i + 1] \in P
    <3> DEFINE N == First(i)
               x == e[i + 1]
    <3>1. First(i + 1) = N \union {x} /\ x \notin N /\ \A n \in N : Precedes(s, n, x)
      <4>1. First(i + 1) = N \union {x}
        BY <2>4, <2>6
      <4>2. x \notin N
        BY <1>1, <2>2
      <4>3. \A n \in N : Precedes(s, n, x)
        BY <1>1, <2>2
      <4> QED BY <4>1, <4>2, <4>3
    <3>2. N \subseteq S
      OBVIOUS
    <3> HIDE DEF N, x, First
    <3>3. IsFiniteSet(N) /\ Cardinality(N) \in Nat
      BY <3>2, FS_Subset, FS_CardinalityType
    <3>4. Cardinality(N \union {x}) = Cardinality(N) + 1
      BY <3>1, <3>3, FS_AddElement
    <3>5. /\ q \in [1..Cardinality(N) -> N] /\ DOMAIN q = 1..Cardinality(N)
          /\ \A k, l \in 1..Cardinality(N) : k # l => q[k] # q[l]
          /\ \A k, l \in 1..Cardinality(N) : k < l => Precedes(s, q[k], q[l])
      <4>1. q \in SetToSeqs(N) /\ \A k, l \in DOMAIN q : k < l => Precedes(s, q[k], q[l])
        BY <2>3 DEF Sorted, N
      <4> QED BY <4>1, SeqFacts
    <3> DEFINE c == Cardinality(N)
               g == [k \in 1..(c + 1) |-> IF k = c + 1 THEN x ELSE q[k]]
    <3> HIDE DEF c
    <3>6. /\ c \in Nat
          /\ \A k \in 1..(c + 1) : k = c + 1 \/ k \in 1..c
          /\ g[c + 1] = x
          /\ \A k \in 1..c : k \in 1..(c + 1) /\ k # c + 1 /\ g[k] = q[k] /\ q[k] \in N
      BY <3>3, <3>5 DEF c
    <3>7. g \in [1..(c + 1) -> N \union {x}]
      BY <3>6
    <3>8. \A k, l \in 1..(c + 1) : k # l => g[k] # g[l]
      <4> TAKE k, l \in 1..(c + 1)
      <4> HIDE DEF g
      <4>1. CASE k \in 1..c /\ l \in 1..c
        BY <3>5, <3>6, <4>1 DEF c
      <4>2. CASE k = c + 1 \/ l = c + 1
        BY <3>1, <3>6, <4>2
      <4> QED BY <3>6, <4>1, <4>2
    <3>9. \A k, l \in 1..(c + 1) : k < l => Precedes(s, g[k], g[l])
      <4> SUFFICES ASSUME NEW k \in 1..(c + 1), NEW l \in 1..(c + 1), k < l
                   PROVE  Precedes(s, g[k], g[l])
        OBVIOUS
      <4> HIDE DEF g
      <4>1. k \in 1..c
        BY <3>6
      <4>2. CASE l \in 1..c
        BY <3>5, <3>6, <4>1, <4>2 DEF c
      <4>3. CASE l = c + 1
        BY <3>1, <3>6, <4>1, <4>3
      <4> QED BY <3>6, <4>2, <4>3
    <3>10. g \in SetToSeqs(N \union {x})
      <4>1. Cardinality(N \union {x}) = c + 1
        BY <3>4 DEF c
      <4> HIDE DEF g
      <4> QED BY <3>7, <3>8, <4>1 DEF SetToSeqs
    <3>11. DOMAIN g = 1..(c + 1)
      OBVIOUS
    <3>12. g \in Sorted(s, N \union {x})
      <4> HIDE DEF g
      <4> QED BY <3>9, <3>10, <3>11 DEF Sorted
    <3> QED BY <3>1, <3>12
  <2> QED BY <2>5, <2>6
<1> HIDE DEF T
<1>4. \E q : q \in Sorted(s, First(d))
  <2>1. d \in T
    BY <1>1, <1>2, <1>3, AllNumbers
  <2>2. d <= d
    BY <1>1
  <2> HIDE DEF First, d
  <2> QED BY <2>1, <2>2 DEF T
<1>5. First(d) = P
  <2>1. \A n \in P : \E j \in 1..d : e[j] = n
    BY <1>1, AllListed
  <2> QED BY <2>1
<1> QED BY <1>4, <1>5

-----------------------------------------------------------------------------
(* predict_fraud_count_inner.                                              *)

(* The partition of the query, if it is searched.                          *)
Homes(s, allowed) == {n \in {s.home} \ {NoNode} : Admits(s, allowed, n)}

(* The other partitions that may still matter after the search of that one. *)
Entries(s, allowed, b) == {n \in s.others : Admits(s, allowed, n) /\ s.bound[n] < WorstOf(b)}

LEMMA HomeIsBest ==
  ASSUME NEW s \in Searches, NEW allowed
  PROVE  /\ KBestOf(SearchHome(s, allowed), HeldBy(s, Homes(s, allowed)))
         /\ Homes(s, allowed) \subseteq Roots(s)
<1>1. CASE s.home = NoNode \/ ~Admits(s, allowed, s.home)
  <2>1. Homes(s, allowed) = {} /\ SearchHome(s, allowed) = Blank
    BY <1>1 DEF Homes, SearchHome
  <2>2. HeldBy(s, {}) = {}
    BY DEF HeldBy
  <2> QED BY <2>1, <2>2, BlankIsBest
<1>2. CASE s.home # NoNode /\ Admits(s, allowed, s.home)
  <2>1. /\ Homes(s, allowed) = {} \union {s.home}
        /\ SearchHome(s, allowed) = SearchTree(s, s.home, Blank)
    BY <1>2 DEF Homes, SearchHome
  <2>2. HeldBy(s, {}) = {} /\ s.home \in Roots(s)
    BY <1>2, RootFacts DEF HeldBy
  <2>3. KBestOf(SearchTree(s, s.home, Blank), HeldBy(s, {} \union {s.home}))
    BY <2>2, BlankIsBest, PartitionAdded
  <2> QED BY <2>1, <2>2, <2>3
<1> QED BY <1>1, <1>2

(* The loop over sorted entries, from the K best after the home partition.  *)
EndsWith(s, allowed, threshold, e, f) ==
  LoopsTo(f, s, e, threshold, SearchHome(s, allowed),
          Cardinality(Entries(s, allowed, SearchHome(s, allowed))))

LEMMA EntriesFacts ==
  ASSUME NEW s \in Searches, NEW allowed, OneOrder(s), NEW threshold,
         NEW e \in Orders(s, Entries(s, allowed, SearchHome(s, allowed)))
  PROVE  \E f : /\ EndsWith(s, allowed, threshold, e, f)
                /\ SearchEntries(s, e, threshold, SearchHome(s, allowed)) =
                     f[Cardinality(Entries(s, allowed, SearchHome(s, allowed)))]
<1> DEFINE b == SearchHome(s, allowed)
           S == Entries(s, allowed, b)
           f == CHOOSE f : LoopsTo(f, s, e, threshold, b, Len(e))
<1>1. S \subseteq s.others
  BY DEF Entries
<1>2. IsFiniteSet(S) /\ e \in SetToSeqs(S)
  <2>1. Orders(s, S) = Sorted(s, S) /\ IsFiniteSet(S)
    BY <1>1, OrdersAreSorted
  <2> QED BY <2>1 DEF Sorted
<1>3. Len(e) = Cardinality(S) /\ Len(e) \in Nat
  BY <1>2, LengthOf
<1>4. SearchEntries(s, e, threshold, b) = f[Len(e)]
  BY Zenon DEF SearchEntries, LoopsTo, EntryStep
<1>5. LoopsTo(f, s, e, threshold, b, Len(e))
  BY <1>3, LoopExists
<1> HIDE DEF f
<1>6. EndsWith(s, allowed, threshold, e, f)
  BY <1>3, <1>5 DEF EndsWith
<1> QED BY <1>3, <1>4, <1>6

LEMMA InnerFactsOf ==
  ASSUME NEW s \in Searches, NEW allowed, OneOrder(s), NEW b
  PROVE  b \in Inner(s, allowed) <=>
           \E e \in Orders(s, Entries(s, allowed, SearchHome(s, allowed))) :
             b = SearchEntries(s, e, IF allowed = Unrestricted THEN s.earlyExit ELSE 0,
                               SearchHome(s, allowed))
BY DEF Inner, Entries

(* The K best after the i-th entry are those of the partitions searched    *)
(* until then.                                                             *)
LEMMA EntriesAreBest ==
  ASSUME NEW s \in Searches, NEW allowed, OneOrder(s), NEW threshold,
         NEW e \in Orders(s, Entries(s, allowed, SearchHome(s, allowed))),
         NEW f, EndsWith(s, allowed, threshold, e, f)
  PROVE  \A i \in 0..Cardinality(Entries(s, allowed, SearchHome(s, allowed))) :
           /\ SearchedBy(s, e, threshold, f, Homes(s, allowed), i) \subseteq Roots(s)
           /\ KBestOf(f[i], HeldBy(s, SearchedBy(s, e, threshold, f, Homes(s, allowed), i)))
<1> DEFINE b == SearchHome(s, allowed)
           S == Entries(s, allowed, b)
           N == Homes(s, allowed)
<1>1. S \subseteq s.others
  BY DEF Entries
<1>2. /\ IsFiniteSet(S) /\ e \in SetToSeqs(S) /\ Cardinality(S) \in Nat
      /\ e \in [1..Cardinality(S) -> S]
      /\ \A i, j \in 1..Cardinality(S) : i # j => e[i] # e[j]
  <2>1. Orders(s, S) = Sorted(s, S) /\ IsFiniteSet(S)
    BY <1>1, OrdersAreSorted
  <2>2. e \in SetToSeqs(S)
    BY <2>1 DEF Sorted
  <2> QED BY <2>1, <2>2, SeqFacts, FS_CardinalityType
<1>3. S \subseteq Roots(s) \ N
  BY <1>1, RootFacts DEF Homes
<1>4. e \in [1..Cardinality(S) -> Roots(s) \ N]
  BY <1>2, <1>3
<1>5. KBestOf(b, HeldBy(s, N)) /\ N \subseteq Roots(s)
  BY HomeIsBest
<1>6. LoopsTo(f, s, e, threshold, b, Cardinality(S))
  BY DEF EndsWith
<1>7. \A i \in 0..Cardinality(S) : SearchedBy(s, e, threshold, f, N, i) \subseteq Roots(s)
  <2> TAKE i \in 0..Cardinality(S)
  <2>1. \A k \in 1..i : k \in 1..Cardinality(S)
    BY <1>2
  <2> HIDE DEF N, S
  <2> QED BY <1>4, <1>5, <2>1 DEF SearchedBy
<1> HIDE DEF N, S, b
<1>8. \A i \in 0..Cardinality(S) :
        KBestOf(f[i], HeldBy(s, SearchedBy(s, e, threshold, f, N, i)))
  BY <1>2, <1>4, <1>5, <1>6, LoopIsBest
<1> QED BY <1>7, <1>8 DEF N, S, b

(* Among the K best of what N holds, what is not a hole is from a          *)
(* partition of N with its key.                                            *)
LEMMA KeysOfBest ==
  ASSUME NEW s \in Searches, NEW N, N \subseteq Roots(s), NEW b, KBestOf(b, HeldBy(s, N))
  PROVE  /\ \A n \in Roots(s) : s.key[n] \in TopKeys(b) => n \in N
         /\ KBestOf(b, HeldBy(s, {n \in N : s.key[n] \in TopKeys(b)}))
<1> DEFINE A == {n \in N : s.key[n] \in TopKeys(b)}
<1>1. \A i \in 1..K : b[i] = Hole \/
        \E n \in N : b[i] \in Under(s, n, n) /\ b[i].key = s.key[n]
  <2> TAKE i \in 1..K
  <2>1. b[i] = Hole \/ b[i] \in HeldBy(s, N)
    BY DEF KBestOf
  <2> QED BY <2>1, HeldFacts
<1>2. Hole.key = NoKey /\ \A n \in Roots(s) : s.key[n] # NoKey
  <2>1. \A n \in Roots(s) : s.key[n] \in 0..(NoKey - 1)
    BY RootFacts
  <2> QED BY <2>1, KeyFacts DEF Hole
<1>3. ASSUME NEW n \in Roots(s), s.key[n] \in TopKeys(b) PROVE n \in N
  <2>1. PICK i \in 1..K : b[i].key = s.key[n]
    BY <1>3 DEF TopKeys
  <2>2. PICK m \in N : b[i].key = s.key[m]
    BY <1>1, <1>2, <2>1
  <2> QED BY <2>1, <2>2, RootFacts
<1>4. \A i \in 1..K : b[i] \in HeldBy(s, A) \union {Hole}
  <2> TAKE i \in 1..K
  <2>1. CASE b[i] = Hole
    BY <2>1
  <2>2. CASE b[i] # Hole
    <3>1. PICK n \in N : b[i] \in Under(s, n, n) /\ b[i].key = s.key[n]
      BY <1>1, <2>2
    <3>2. s.key[n] \in TopKeys(b)
      BY <1>2, <3>1 DEF TopKeys
    <3> QED BY <3>1, <3>2 DEF HeldBy
  <2> QED BY <2>1, <2>2
<1>5. HeldBy(s, A) \subseteq HeldBy(s, N)
  BY DEF HeldBy
<1>6. KBestOf(b, HeldBy(s, A))
  <2> HIDE DEF A
  <2> QED BY <1>4, <1>5 DEF KBestOf
<1> QED BY <1>3, <1>6

LEMMA SortedEntries ==
  ASSUME NEW s \in Searches, NEW allowed, OneOrder(s), NEW b,
         NEW e \in Orders(s, Entries(s, allowed, b))
  PROVE  LET S == Entries(s, allowed, b)
         IN  /\ Cardinality(S) \in Nat
             /\ S \subseteq s.others /\ S \subseteq Roots(s)
             /\ e \in [1..Cardinality(S) -> S]
             /\ \A n \in S : \E i \in 1..Cardinality(S) : e[i] = n
             /\ \A i, j \in 1..Cardinality(S) : i < j => Precedes(s, e[i], e[j])
<1> DEFINE S == Entries(s, allowed, b)
<1>1. S \subseteq s.others /\ S \subseteq Roots(s)
  BY RootFacts DEF Entries
<1>2. IsFiniteSet(S) /\ e \in Sorted(s, S)
  BY <1>1, OrdersAreSorted
<1>3. e \in SetToSeqs(S) /\ \A i, j \in DOMAIN e : i < j => Precedes(s, e[i], e[j])
  BY <1>2 DEF Sorted
<1> HIDE DEF S
<1>4. Cardinality(S) \in Nat /\ e \in [1..Cardinality(S) -> S]
  BY <1>2, <1>3, SeqFacts, FS_CardinalityType
<1>5. \A n \in S : \E i \in 1..Cardinality(S) : e[i] = n
  BY <1>2, <1>3, AllListed
<1> QED BY <1>1, <1>3, <1>4, <1>5 DEF S

(* A search restricted to the partitions of the K best finds them again.   *)
LEMMA FindsThemAgain ==
  ASSUME NEW s \in Searches, OneOrder(s), NEW b \in Inner(s, Unrestricted)
  PROVE  Inner(s, TopKeys(b)) = {b}
<1> DEFINE allowed == TopKeys(b)
           start == SearchHome(s, Unrestricted)
           S == Entries(s, Unrestricted, start)
           d == Cardinality(S)
           N == Homes(s, Unrestricted)
           again == SearchHome(s, allowed)
           P == Entries(s, allowed, again)
           M == Homes(s, allowed)
<1>1. PICK e \in Orders(s, S) : b = SearchEntries(s, e, s.earlyExit, start)
  BY InnerFactsOf
<1>2. PICK f : EndsWith(s, Unrestricted, s.earlyExit, e, f) /\ b = f[d]
  BY <1>1, EntriesFacts
<1> DEFINE On(i) == SearchedBy(s, e, s.earlyExit, f, N, i)
           A == {n \in On(d) : s.key[n] \in allowed}
<1>3. /\ d \in Nat /\ S \subseteq s.others /\ S \subseteq Roots(s)
      /\ e \in [1..d -> S]
      /\ \A i, j \in 1..d : i < j => Precedes(s, e[i], e[j])
  BY <1>1, SortedEntries
<1>4. /\ KBestOf(start, HeldBy(s, N)) /\ N \subseteq Roots(s)
      /\ KBestOf(again, HeldBy(s, M)) /\ M \subseteq Roots(s)
  BY HomeIsBest
<1>5. \A i \in 0..d : On(i) \subseteq Roots(s) /\ KBestOf(f[i], HeldBy(s, On(i)))
  BY <1>1, <1>2, EntriesAreBest
<1>6. /\ \A n \in Roots(s) : s.key[n] \in allowed => n \in On(d)
      /\ KBestOf(b, HeldBy(s, A)) /\ A \subseteq Roots(s)
  <2>1. d \in 0..d
    BY <1>3
  <2>2. On(d) \subseteq Roots(s) /\ KBestOf(b, HeldBy(s, On(d)))
    BY <1>2, <1>5, <2>1
  <2> HIDE DEF On
  <2> QED BY <2>2, KeysOfBest
<1>7. allowed # Unrestricted
  <2>1. b \in Bests
    BY <1>6 DEF KBestOf
  <2>2. \A i \in 1..K : b[i].key \in 0..NoKey
    BY <2>1, KeyFacts DEF TrackedEntry
  <2> QED BY <2>2, KeysAssumption DEF TopKeys
<1>8. \A n : Admits(s, Unrestricted, n) /\ (Admits(s, allowed, n) <=> s.key[n] \in allowed)
  BY <1>7 DEF Admits
<1>9. \A n \in On(d) : n \in N \/ \E j \in 1..d :
        n = e[j] /\ ~Leaves(s, e[j], s.earlyExit, f[j - 1])
  BY DEF SearchedBy
<1>10. M \subseteq N /\ M = {n \in A : n \notin s.others}
  <2>1. N = {s.home} \ {NoNode} /\ M = {n \in N : s.key[n] \in allowed}
    BY <1>8 DEF Homes
  <2>2. N \subseteq On(d) /\ \A n \in On(d) : n \in N \/ n \in s.others
    BY <1>3, <1>9 DEF SearchedBy
  <2>3. \A n \in N : n \notin s.others
    BY <2>1, RootFacts
  <2> QED BY <2>1, <2>2, <2>3
<1>11. ASSUME NEW X, X \subseteq Roots(s), NEW Y, Y \subseteq X,
              NEW x, KBestOf(x, HeldBy(s, X)), NEW y, KBestOf(y, HeldBy(s, Y))
       PROVE  WorstOf(x) \in Nat /\ WorstOf(y) \in Nat /\ WorstOf(x) <= WorstOf(y)
  <2>1. HeldBy(s, Y) \subseteq HeldBy(s, X) /\ HeldBy(s, X) \subseteq TrackedReference
    BY <1>11, HeldFacts DEF HeldBy
  <2> QED BY <1>11, <2>1, WorstShrinks
<1>12. \A n \in Roots(s) : s.bound[n] \in Nat
  BY RootFacts, TreeFacts
<1>13. P = {n \in A : n \in s.others} /\ P \subseteq S
  <2>1. WorstOf(start) \in Nat /\ WorstOf(again) \in Nat /\ WorstOf(start) <= WorstOf(again)
    BY <1>4, <1>10, <1>11
  <2>2. ASSUME NEW n \in A, n \in s.others PROVE n \in P /\ n \in S
    <3>1. n \notin N /\ n \in Roots(s)
      BY <2>2, <1>6, RootFacts DEF Homes
    <3>2. n \in S
      BY <1>3, <1>9, <3>1
    <3>3. s.bound[n] < WorstOf(start)
      BY <3>2 DEF Entries
    <3>4. s.bound[n] < WorstOf(again)
      BY <1>12, <2>1, <3>1, <3>3
    <3> QED BY <1>8, <2>2, <3>2, <3>4 DEF Entries
  <2>3. \A n \in P : n \in A /\ n \in s.others
    BY <1>6, <1>8, RootFacts DEF Entries
  <2> QED BY <2>2, <2>3
<1> HIDE DEF allowed, start, S, d, N, again, P, M, On, A
<1>14. ASSUME NEW q \in Orders(s, P) PROVE SearchEntries(s, q, 0, again) = b
  <2> DEFINE c == Cardinality(P)
  <2>1. PICK g : EndsWith(s, allowed, 0, q, g) /\ SearchEntries(s, q, 0, again) = g[c]
    BY <1>14, EntriesFacts DEF P, again
  <2>2. /\ c \in Nat /\ P \subseteq s.others /\ q \in [1..c -> P]
        /\ \A n \in P : \E i \in 1..c : q[i] = n
        /\ \A i, j \in 1..c : i < j => Precedes(s, q[i], q[j])
    <3>1. P = Entries(s, allowed, again)
      BY DEF P
    <3>2. q \in Orders(s, Entries(s, allowed, again))
      BY <1>14, <3>1
    <3>3. LET T == Entries(s, allowed, again)
          IN  /\ Cardinality(T) \in Nat
              /\ T \subseteq s.others /\ T \subseteq Roots(s)
              /\ q \in [1..Cardinality(T) -> T]
              /\ \A n \in T : \E i \in 1..Cardinality(T) : q[i] = n
              /\ \A i, j \in 1..Cardinality(T) : i < j => Precedes(s, q[i], q[j])
      BY <3>2, SortedEntries
    <3> QED BY <3>1, <3>3
  <2> DEFINE Also(i) == SearchedBy(s, q, 0, g, M, i)
  <2>3. \A i \in 0..c : Also(i) \subseteq Roots(s) /\ KBestOf(g[i], HeldBy(s, Also(i)))
    BY <1>14, <2>1, EntriesAreBest DEF P, again, M
  <2>4. \A i \in 1..c : \E j \in 1..d : q[i] = e[j] /\ ~Leaves(s, e[j], s.earlyExit, f[j - 1])
    <3> TAKE i \in 1..c
    <3>1. q[i] \in P /\ q[i] \in A /\ q[i] \in s.others
      BY <1>13, <2>2
    <3>2. q[i] \notin N
      BY <3>1, RootFacts DEF N, Homes
    <3>3. q[i] \in On(d)
      BY <3>1 DEF A
    <3> QED BY <1>9, <3>2, <3>3
  <2>5. \A i \in 1..c : ~Leaves(s, q[i], 0, g[i - 1])
    <3> TAKE i \in 1..c
    <3>1. PICK j \in 1..d : q[i] = e[j] /\ ~Leaves(s, e[j], s.earlyExit, f[j - 1])
      BY <2>4
    <3>2. i - 1 \in 0..c /\ j - 1 \in 0..d /\ \A k \in 1..(i - 1) : k \in 1..c /\ k < i
      BY <1>3, <2>2
    <3>3. \A n \in Also(i - 1) : n \in M \/ \E k \in 1..(i - 1) : n = q[k]
      BY DEF SearchedBy
    <3>4. \A k \in 1..(i - 1) : q[k] \in On(j - 1)
      <4> TAKE k \in 1..(i - 1)
      <4>1. PICK l \in 1..d : q[k] = e[l] /\ ~Leaves(s, e[l], s.earlyExit, f[l - 1])
        BY <2>4, <3>2
      <4>2. Precedes(s, e[l], e[j]) /\ e[l] \in Roots(s) /\ e[j] \in Roots(s)
        <5>1. Precedes(s, q[k], q[i])
          BY <2>2, <3>2
        <5>2. e[l] \in S /\ e[j] \in S
          BY <1>3
        <5> QED BY <1>3, <3>1, <4>1, <5>1, <5>2
      <4>3. ~Precedes(s, e[j], e[l]) /\ e[l] # e[j]
        BY <4>2, OrderFacts
      <4>4. l \in 1..(j - 1)
        <5>1. ~(j < l) /\ l # j
          BY <1>3, <4>3
        <5> QED BY <1>3, <5>1
      <4> QED BY <4>1, <4>4 DEF On, SearchedBy
    <3>5. Also(i - 1) \subseteq On(j - 1)
      <4>1. N \subseteq On(j - 1)
        BY DEF On, SearchedBy
      <4> QED BY <1>10, <3>3, <3>4, <4>1
    <3>6. /\ WorstOf(f[j - 1]) \in Nat /\ WorstOf(g[i - 1]) \in Nat
          /\ WorstOf(f[j - 1]) <= WorstOf(g[i - 1])
      <4>1. /\ On(j - 1) \subseteq Roots(s) /\ KBestOf(f[j - 1], HeldBy(s, On(j - 1)))
            /\ KBestOf(g[i - 1], HeldBy(s, Also(i - 1)))
        BY <1>5, <2>3, <3>2
      <4> HIDE DEF Also
      <4> QED BY <1>11, <3>5, <4>1
    <3>7. ~(s.bound[q[i]] >= WorstOf(f[j - 1])) /\ s.bound[q[i]] \in Nat
      <4>1. q[i] \in P /\ q[i] \in Roots(s)
        BY <2>2, RootFacts
      <4> QED BY <1>12, <3>1, <4>1 DEF Leaves
    <3>8. ~(s.bound[q[i]] >= WorstOf(g[i - 1]))
      BY <3>6, <3>7
    <3> QED BY <3>8 DEF Leaves
  <2>6. Also(c) = A
    <3>1. Also(c) = M \union {q[j] : j \in 1..c}
      BY <2>5 DEF SearchedBy
    <3>2. {q[j] : j \in 1..c} = P
      BY <2>2
    <3> QED BY <1>10, <1>13, <3>1, <3>2
  <2>7. KBestOf(g[c], HeldBy(s, A))
    <3>1. c \in 0..c
      BY <2>2
    <3> HIDE DEF Also, c
    <3> QED BY <2>3, <2>6, <3>1
  <2>8. HeldBy(s, A) \subseteq TrackedReference /\ OneIndexEach(HeldBy(s, A))
    BY <1>6, HeldFacts
  <2>9. g[c] = b
    <3> HIDE DEF c, Also
    <3> QED BY <1>6, <2>7, <2>8, SameBest
  <2> QED BY <2>1, <2>9
<1>15. \E q : q \in Orders(s, P)
  <2>1. e \in Sorted(s, S) /\ IsFiniteSet(S)
    BY <1>1, <1>3, OrdersAreSorted
  <2>2. \E q : q \in Sorted(s, P)
    BY <1>13, <2>1, PartIsSorted
  <2> QED BY <1>3, <1>13, <2>2, OrdersAreSorted
<1>16. \A x : x \in Inner(s, allowed) <=>
               \E q \in Orders(s, P) : x = SearchEntries(s, q, 0, again)
  BY <1>7, InnerFactsOf DEF P, again
<1>17. Inner(s, allowed) = {b}
  BY <1>14, <1>15, <1>16
<1> QED BY <1>17 DEF allowed

(* A search of the tools restricted to the partitions that a search named  *)
(* finds the same K best, in every index whose partitions the sort orders  *)
(* in one way: dump_knn_labels writes labels that a search of those         *)
(* partitions reproduces.                                                  *)
THEOREM RestrictedFindsTheSame ==
  ASSUME \A s \in Searches : OneOrder(s)
  PROVE  Spec => []RestrictedAgrees
<1>1. IInv => RestrictedAgrees
  BY FindsThemAgain DEF IInv, RestrictedAgrees
<1> QED BY <1>1, InductiveInvariant, PTL
=============================================================================
