---------------------------- MODULE MCKnnSearch ----------------------------
(* KnnSearch on the trees that KdTree builds over a few layouts of points, *)
(* under every labelling, for a few queries, with and without early exit.  *)
EXTENDS InstrumentedSearch, KdTree

MCPredicates == [n \in 0..2 |-> [dim |-> IF n = 0 THEN 1 ELSE 2, threshold |-> 2, enabled |-> n # 1]]

(* Points with common coordinates, equal points, a sentinel value, and a   *)
(* partition whose box is near although its points are far, partitions     *)
(* with equal bounds.                                                      *)
Layouts == {
  << <<0, 0>>, <<1, 1>>, <<2, 4>>, <<0, 3>>, <<3, 2>>, <<4, 4>>, <<3, 0>> >>,
  << <<2, 2>>, <<2, 2>>, <<1, 2>>, <<3, 2>>, <<3, 3>>, <<2, 0>> >>,
  << <<-4, 1>>, <<0, 1>>, <<4, 1>>, <<4, 3>>, <<0, 3>>, <<2, 1>> >>,
  << <<2, 0>>, <<1, 1>>, <<0, 2>>, <<3, -4>>, <<9, 2>>, <<3, 3>>, <<5, 4>> >>,
  << <<3, 4>>, <<3, 0>>, <<3, 4>>, <<-3, 2>> >> }

Queries == {<<2, 2>>, <<3, 1>>, <<0, 4>>, <<4, 3>>}

(* References in a leaf, and early_exit_threshold.                         *)
LeafSizes == {1, 2}
Thresholds == {0, 4}

(* f as a table, for TLC to evaluate it once.                              *)
Tabulate(f) == FoldSet(LAMBDA n, table : (n :> f[n]) @@ table, << >>, DOMAIN f)

(* The trees over the points, which labels have no part in.                *)
Forest(points, leafSize) ==
  LET refs == [i \in DOMAIN points |-> [vector |-> points[i], label |-> 0]]
      roots == {Partition(refs, MCPredicates, k) : k \in Keys(refs, MCPredicates)}
      nodes == UNION {Nodes(refs, S, leafSize) : S \in roots}
  IN  [roots |-> roots,
       nodes |-> nodes,
       left |-> Tabulate([S \in nodes |-> IF Splits(S, leafSize) THEN LeftHalf(refs, S) ELSE NoNode]),
       right |-> Tabulate([S \in nodes |-> IF Splits(S, leafSize) THEN S \ LeftHalf(refs, S) ELSE NoNode]),
       height |-> Tabulate([S \in nodes |-> Height(Cardinality(S), leafSize)])]

(* The index as a search sees it: distances and bounds from the query.     *)
SearchOf(points, forest, labels, q, earlyExit) ==
  LET refs == [i \in DOMAIN points |-> [vector |-> points[i], label |-> labels[i]]]
      nodes == forest.nodes
      ref == Tabulate([i \in DOMAIN points |->
               [dist |-> Distance(q, points[i]), label |-> labels[i], idx |-> i]])
      home == Partition(refs, MCPredicates, Key(MCPredicates, q))
  IN  [earlyExit |-> earlyExit,
       nodes   |-> nodes,
       left    |-> forest.left,
       right   |-> forest.right,
       height  |-> forest.height,
       bound   |-> Tabulate([S \in nodes |-> LowerBound(refs, q, S)]),
       classes |-> Tabulate([S \in nodes |-> ClassBits(refs, S)]),
       refs    |-> Tabulate([S \in nodes |->
                     IF forest.left[S] # NoNode THEN << >> ELSE SetToSeq({ref[i] : i \in S})]),
       key     |-> Tabulate([S \in forest.roots |-> Key(MCPredicates, points[CHOOSE i \in S : TRUE])]),
       below   |-> Tabulate([S \in nodes |-> {ref[i] : i \in S}]),
       home    |-> IF home = {} THEN NoNode ELSE home,
       others  |-> forest.roots \ {home}]

MCSearches ==
  UNION {LET forest == Forest(points, leafSize)
         IN  {SearchOf(points, forest, labels, q, earlyExit) :
                labels \in [DOMAIN points -> Labels], q \in Queries,
                earlyExit \in Thresholds} :
           points \in Layouts, leafSize \in LeafSizes}
=============================================================================
