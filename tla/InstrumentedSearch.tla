------------------------- MODULE InstrumentedSearch -------------------------
(***************************************************************************)
(* The search of the offline tools (predict_fraud_count_inner of            *)
(* src/src/index/mod.rs with search_node_iterative, scan_leaf and           *)
(* insert_best), as functions from the K best before a step to those after  *)
(* it: no label deferral, the partition of each neighbour is kept, and the  *)
(* search may be restricted to a set of partitions.  Its statistics are     *)
(* left out.                                                               *)
(*                                                                         *)
(* The searches are those of KnnSearch with, for each root, the key of its  *)
(* partition.                                                              *)
(***************************************************************************)
EXTENDS KnnSearch, SequencesExt

CONSTANTS
  NoKey,             (* u32::MAX; every key is below it.                    *)
  Unrestricted,      (* allowed is None.                                    *)
  InsertionSortMax   (* Partition entries up to which the sort is stable.   *)

ASSUME KeysAssumption ==
  /\ NoKey \in Nat /\ InsertionSortMax \in Nat
  /\ \A keys \in SUBSET (0..NoKey) : keys # Unrestricted
  /\ \A s \in Searches : \A m, n \in Roots(s) :
       s.key[n] \in 0..(NoKey - 1) /\ (s.key[m] = s.key[n] => m = n)

Blank == [i \in 1..K |-> [dist |-> Infinity, label |-> 0, idx |-> NoIndex, key |-> NoKey]]

Bests == [1..K -> [dist : 0..Infinity, label : Labels, idx : 0..NoIndex, key : 0..NoKey]]

WorstOf(b) == b[K].dist

Tracked(r, key) == [dist |-> r.dist, label |-> r.label, idx |-> r.idx, key |-> key]

(* insert_best.                                                            *)
InsertTracked(b, r, key) ==
  [i \in 1..K |->
     IF ~CandidateBefore(r, b[i]) THEN b[i]
     ELSE IF i = 1 \/ ~CandidateBefore(r, b[i - 1]) THEN Tracked(r, key)
     ELSE b[i - 1]]

NearOf(s, n) == IF s.bound[s.left[n]] <= s.bound[s.right[n]] THEN s.left[n] ELSE s.right[n]
FarOf(s, n)  == IF s.bound[s.left[n]] <= s.bound[s.right[n]] THEN s.right[n] ELSE s.left[n]

(* scan_leaf.                                                              *)
ScanLeaf(refs, key, b) ==
  LET after[i \in 0..Len(refs)] ==
        IF i = 0 THEN b ELSE InsertTracked(after[i - 1], refs[i], key)
  IN  after[Len(refs)]

(* search_node_iterative: the near child first; the far one is pushed if it *)
(* may matter, and visited after it if it still may.                       *)
SearchTree(s, root, b) ==
  LET visit[n \in s.nodes] == [c \in Bests |->
        IF s.bound[n] > WorstOf(c) THEN c
        ELSE IF IsLeaf(s, n) THEN ScanLeaf(s.refs[n], s.key[root], c)
        ELSE IF s.bound[FarOf(s, n)] <= WorstOf(c)
        THEN visit[FarOf(s, n)][visit[NearOf(s, n)][c]]
        ELSE visit[NearOf(s, n)][c]]
  IN  visit[root][b]

Admits(s, allowed, n) == allowed = Unrestricted \/ s.key[n] \in allowed

(* Fault: no order is kept among equal bounds.                             *)
OrdersUnstable(s, S) ==
  {e \in SetToSeqs(S) : \A i, j \in DOMAIN e : i < j => s.bound[e[i]] <= s.bound[e[j]]}

(* sort_partition_entries on entries collected by increasing key: up to    *)
(* InsertionSortMax of them equal bounds keep that order.                  *)
Orders(s, S) ==
  {e \in SetToSeqs(S) : \A i, j \in DOMAIN e : i < j =>
     \/ s.bound[e[i]] < s.bound[e[j]]
     \/ /\ s.bound[e[i]] = s.bound[e[j]]
        /\ Cardinality(S) <= InsertionSortMax => s.key[e[i]] < s.key[e[j]]}

(* The loop over the sorted entries is left at an early exit, or at a bound *)
(* that cannot matter: then neither can those after it.                    *)
Leaves(s, n, threshold, c) ==
  \/ threshold > 0 /\ WorstOf(c) < threshold
  \/ s.bound[n] >= WorstOf(c)

SearchEntries(s, entries, threshold, b) ==
  LET after[i \in 0..Len(entries)] ==
        IF i = 0 THEN b
        ELSE IF Leaves(s, entries[i], threshold, after[i - 1]) THEN after[i - 1]
        ELSE SearchTree(s, entries[i], after[i - 1])
  IN  after[Len(entries)]

(* The query's own partition, if it is allowed.                            *)
SearchHome(s, allowed) ==
  IF s.home = NoNode \/ ~Admits(s, allowed, s.home) THEN Blank
  ELSE SearchTree(s, s.home, Blank)

(* predict_fraud_count_inner: the K best it may end with. A restricted     *)
(* search has no early exit.                                               *)
Inner(s, allowed) ==
  LET threshold == IF allowed = Unrestricted THEN s.earlyExit ELSE 0
      entries(b) == {n \in s.others : Admits(s, allowed, n) /\ s.bound[n] < WorstOf(b)}
  IN  UNION {{SearchEntries(s, e, threshold, b) : e \in Orders(s, entries(b))} :
               b \in {SearchHome(s, allowed)}}

(* PartitionSet::from_top_keys.                                            *)
TopKeys(b) == {b[i].key : i \in 1..K} \ {NoKey}

-----------------------------------------------------------------------------
(* The label that dump_knn_labels writes for a query: a search restricted   *)
(* to the partitions that predict_fraud_count_with_partitions names finds   *)
(* the very neighbours again, although it meets other distances on its way, *)
(* prunes at other moments, may leave out the query's own partition, and    *)
(* has no early exit where the first one may have taken it.                *)
RestrictedAgrees ==
  pc = "done" => \A b \in Inner(ix, Unrestricted) : Inner(ix, TopKeys(b)) = {b}
=============================================================================
