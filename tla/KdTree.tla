------------------------------- MODULE KdTree -------------------------------
(***************************************************************************)
(* The index that src/src/index/build.rs (build_node) builds over a        *)
(* sequence of references and that the search descends, with the           *)
(* partition keys of src/src/index/partition_scheme.rs and the bounds of   *)
(* src/src/index/search.rs.                                                *)
(*                                                                         *)
(* A node is the set of the positions of the references below it.          *)
(***************************************************************************)
EXTENDS Integers, Sequences, FiniteSets, FiniteSetsExt

CONSTANTS
  Dims,         (* DIMS.                                                   *)
  ByVariance,   (* RINHA_KD_SPLIT_STRATEGY = "variance".                   *)
  TreeDepth,    (* tree_depth.                                             *)
  LEARNED_TREE_MAX_DEPTH

ASSUME KdTreeAssumption ==
  /\ Dims \in Nat \ {0}
  /\ ByVariance \in BOOLEAN
  /\ TreeDepth \in Nat /\ LEARNED_TREE_MAX_DEPTH \in Nat

Sum(f(_)) == MapThenSumSet(f, 1..Dims)

Square(x) == x * x

-----------------------------------------------------------------------------
(* build_node.                                                             *)

Values(refs, S, d) == {refs[i].vector[d] : i \in S}
Lowest(refs, S, d) == Min(Values(refs, S, d))
Highest(refs, S, d) == Max(Values(refs, S, d))

(* The first of the dimensions D with the highest score.                   *)
FirstHighest(D, score(_)) ==
  CHOOSE d \in D : \A e \in D : score(e) < score(d) \/ (score(e) = score(d) /\ d <= e)

WidestDimension(refs, S) ==
  LET width(d) == Highest(refs, S, d) - Lowest(refs, S, d)
  IN  FirstHighest(1..Dims, width)

VarianceDimension(refs, S) ==
  LET spread == {d \in 1..Dims : Lowest(refs, S, d) # Highest(refs, S, d)}
      sum(d) == MapThenSumSet(LAMBDA i : refs[i].vector[d], S)
      squares(d) == MapThenSumSet(LAMBDA i : Square(refs[i].vector[d]), S)
      score(d) == Cardinality(S) * squares(d) - Square(sum(d))
  IN  IF spread = {} THEN WidestDimension(refs, S) ELSE FirstHighest(spread, score)

SplitDimension(refs, S) ==
  IF ByVariance THEN VarianceDimension(refs, S) ELSE WidestDimension(refs, S)

(* The first half in the order of the split dimension. The sort is         *)
(* unstable: of equal values, the lower position stands first here.        *)
LeftHalf(refs, S) ==
  LET d == SplitDimension(refs, S)
      before(i) == {j \in S : \/ refs[j].vector[d] < refs[i].vector[d]
                              \/ refs[j].vector[d] = refs[i].vector[d] /\ j < i}
  IN  {i \in S : Cardinality(before(i)) < Cardinality(S) \div 2}

(* A node of more than a leaf is split.                                   *)
Splits(S, leafSize) == Cardinality(S) > leafSize

(* The nodes of the tree over S.                                           *)
Nodes(refs, S, leafSize) ==
  LET tree[T \in SUBSET S] ==
        IF ~Splits(T, leafSize) THEN {T}
        ELSE {T} \union tree[LeftHalf(refs, T)] \union tree[T \ LeftHalf(refs, T)]
  IN  tree[S]

(* The height of a tree over n references.                                 *)
Height(n, leafSize) ==
  LET height[k \in 0..n] == IF k <= leafSize THEN 0 ELSE 1 + height[(k + 1) \div 2]
  IN  height[n]

ClassBits(refs, S) == {refs[i].label : i \in S}

-----------------------------------------------------------------------------
(* compute_tree_key, under predicates [dim, threshold, enabled] in heap    *)
(* order from 0: the descent, and the side taken at each level as a bit.   *)

(* Fault: the depth is not capped.                                         *)
KeyBitsUncapped == TreeDepth

KeyBits == Min({TreeDepth, LEARNED_TREE_MAX_DEPTH})

Side(predicates, v, node) ==
  /\ node \in DOMAIN predicates
  /\ predicates[node].enabled
  /\ v[predicates[node].dim] > predicates[node].threshold

(* The heap node the descent is at after depth steps.                      *)
NodeAt(predicates, v, depth) ==
  LET node[k \in 0..depth] ==
        IF k = 0 THEN 0
        ELSE 2 * node[k - 1] + (IF Side(predicates, v, node[k - 1]) THEN 2 ELSE 1)
  IN  node[depth]

(* The nodes of a level, one for each value of the bits.                   *)
LevelSize(depth) ==
  LET size[k \in 0..depth] == IF k = 0 THEN 1 ELSE 2 * size[k - 1]
  IN  size[depth]

(* A level is numbered after those above it, in the order of the bits.     *)
Key(predicates, v) == NodeAt(predicates, v, KeyBits) - (LevelSize(KeyBits) - 1)

(* build_index: one tree over the references of each key.                  *)
Partition(refs, predicates, key) ==
  {i \in DOMAIN refs : Key(predicates, refs[i].vector) = key}

Keys(refs, predicates) == {Key(predicates, refs[i].vector) : i \in DOMAIN refs}

-----------------------------------------------------------------------------
(* scan_block_pair_avx2_bounded and lower_bound_box_avx2, in integers wide *)
(* enough.                                                                 *)

Distance(q, v) == Sum(LAMBDA d : Square(q[d] - v[d]))

LowerBound(refs, q, S) ==
  LET outside(d) == Max({Lowest(refs, S, d) - q[d], 0, q[d] - Highest(refs, S, d)})
  IN  Sum(LAMBDA d : Square(outside(d)))
=============================================================================
