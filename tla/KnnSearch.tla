----------------------------- MODULE KnnSearch -----------------------------
(***************************************************************************)
(* The nearest-neighbour search of src/src/index/mod.rs                    *)
(* (predict_fraud_count, search_node_iterative_fast, scan_leaf_fast) and   *)
(* src/src/index/search.rs (PendingSubtrees, insert_best_fast), one loop   *)
(* iteration per action.                                                   *)
(*                                                                         *)
(* For one query, a reference is its distance, label and index; a node of  *)
(* the index is the lower bound of its box and what lies below it.         *)
(***************************************************************************)
EXTENDS Integers, Sequences, FiniteSets

CONSTANTS
  Searches,       (* A query on an index, see Search.                       *)
  K,              (* Neighbours to find.                                    *)
  Infinity,       (* i64::MAX.                                              *)
  NoIndex,        (* u32::MAX.                                              *)
  NoNode,         (* Not a node.                                            *)
  NoLabel,        (* Option<u8>::None.                                      *)
  LabelDefer,     (* RINHA_LABEL_DEFER.                                     *)
  TreeStack,      (* TREE_STACK_CAPACITY.                                   *)
  DeferStack      (* DEFER_STACK_CAPACITY.                                  *)

Labels == {0, 1}

Reference == [dist : 0..(Infinity - 1), label : Labels, idx : 0..(NoIndex - 1)]

Entry == [dist : 0..Infinity, label : Labels, idx : 0..NoIndex]

IsLeaf(s, n) == s.left[n] = NoNode \/ s.right[n] = NoNode

(* What build_node guarantees: a node's box bounds everything below it, an *)
(* inner node splits what is below it in two, class_bits tell exactly the  *)
(* labels below, and the halving keeps the tree no higher than the stack   *)
(* of the search (128; node indices have 32 bits).                         *)
Sound(s, n) ==
  /\ s.left[n] \in s.nodes \union {NoNode}
  /\ s.right[n] \in s.nodes \union {NoNode}
  /\ s.bound[n] \in 0..(Infinity - 1)
  /\ \A r \in s.below[n] : s.bound[n] <= r.dist
  /\ s.classes[n] = {r.label : r \in s.below[n]}
  /\ s.refs[n] \in Seq(Reference)
  /\ s.height[n] \in 0..TreeStack
  /\ IF IsLeaf(s, n)
     THEN /\ s.below[n] = {s.refs[n][i] : i \in DOMAIN s.refs[n]}
          /\ \A i, j \in DOMAIN s.refs[n] : i # j => s.refs[n][i] # s.refs[n][j]
     ELSE /\ s.height[s.left[n]] < s.height[n] /\ s.height[s.right[n]] < s.height[n]
          /\ s.below[n] = s.below[s.left[n]] \union s.below[s.right[n]]
          /\ s.below[s.left[n]] \intersect s.below[s.right[n]] = {}

(* home is the root of the query's own partition, if there is one; others  *)
(* are the roots of the remaining ones.                                    *)
Roots(s) == s.others \union ({s.home} \ {NoNode})

References(s) == UNION {s.below[n] : n \in Roots(s)}

(* earlyExit is RINHA_EARLY_EXIT_THRESHOLD; 0 disables it.                *)
Search(s) ==
  /\ s.earlyExit \in Nat
  /\ NoNode \notin s.nodes
  /\ Roots(s) \subseteq s.nodes
  /\ s.home \notin s.others
  /\ \A n \in s.nodes : s.below[n] \subseteq Reference /\ Sound(s, n)
  /\ \A m, n \in Roots(s) : m # n => s.below[m] \intersect s.below[n] = {}
  /\ \A q, r \in References(s) : q.idx = r.idx => q = r

ASSUME SearchesAssumption == \A s \in Searches : Search(s)

ASSUME KnnAssumption ==
  /\ K \in Nat \ {0}
  /\ Infinity \in Nat \ {0} /\ NoIndex \in Nat
  /\ NoLabel \notin Labels
  /\ LabelDefer \in BOOLEAN
  /\ TreeStack \in Nat /\ DeferStack \in Nat

VARIABLES
  ix,         (* The index, its early_exit_threshold and the query.         *)
  pc,         (* Where the search is.                                       *)
  best,       (* best_dists, best_labels and best_indices.                  *)
  cur,        (* current.                                                   *)
  stack,      (* stack_nodes[..stack_len].                                  *)
  lanes,      (* What is left of the leaf being scanned.                    *)
  pending,    (* PendingSubtrees.roots[..len].                              *)
  deferLabel, (* PendingSubtrees.label.                                     *)
  replaying,  (* search_fn of replay_pending_if_needed is running.          *)
  collected,  (* partition_entries has been built.                          *)
  todo        (* What is left of partition_entries.                         *)

treeVars == <<cur, stack, lanes>>
deferVars == <<pending, deferLabel, replaying>>
partVars == <<collected, todo>>
vars == <<ix, pc, best, treeVars, deferVars, partVars>>

-----------------------------------------------------------------------------
(* The K best references so far.                                           *)

Placeholder == [dist |-> Infinity, label |-> 0, idx |-> NoIndex]

Worst == best[K].dist

CandidateBefore(r, e) == r.dist < e.dist \/ (r.dist = e.dist /\ r.idx < e.idx)

(* insert_best_fast: shift what r comes before, unless r is not among the  *)
(* K best.                                                                 *)
InsertBest(r) ==
  [i \in 1..K |->
     IF ~CandidateBefore(r, best[i]) THEN best[i]
     ELSE IF i = 1 \/ ~CandidateBefore(r, best[i - 1]) THEN r
     ELSE best[i - 1]]

(* The label all K neighbours have.                                        *)
Consensus(l) == Worst # Infinity /\ \A i \in 1..K : best[i].label = l

(* The sum of the labels.                                                  *)
FraudCount == Cardinality({i \in 1..K : best[i].label = 1})

-----------------------------------------------------------------------------
(* search_node_iterative_fast.                                             *)

Reaches(n) == ix.bound[n] <= Worst

(* The last node pushed, or the end of the search of this tree.            *)
Backtrack ==
  IF stack = << >>
  THEN /\ cur' = NoNode
       /\ pc' = IF replaying THEN "replay" ELSE "searched"
       /\ UNCHANGED stack
  ELSE /\ cur' = stack[Len(stack)]
       /\ stack' = SubSeq(stack, 1, Len(stack) - 1)
       /\ pc' = "visit"

Prune ==
  /\ pc = "visit"
  /\ ~Reaches(cur)
  /\ Backtrack
  /\ UNCHANGED <<ix, best, lanes, deferVars, partVars>>

(* Fault: the class looked for is the consensus, not the other one.        *)
MayDeferOwnClass(l) ==
  /\ Consensus(l)
  /\ ix.classes[cur] # {} /\ l \notin ix.classes[cur]
  /\ deferLabel \in {NoLabel, l}

(* try_defer: all neighbours have label l and nothing below the node has   *)
(* the other one.                                                          *)
MayDefer(l) ==
  /\ Consensus(l)
  /\ ix.classes[cur] # {} /\ 1 - l \notin ix.classes[cur]
  /\ deferLabel \in {NoLabel, l}

Deferrable ==
  /\ LabelDefer /\ ~replaying
  /\ Len(pending) < DeferStack
  /\ \E l \in Labels : MayDefer(l)

Defer ==
  /\ pc = "visit"
  /\ Reaches(cur) /\ Deferrable
  /\ pending' = Append(pending, cur)
  /\ \E l \in Labels : MayDefer(l) /\ deferLabel' = l
  /\ Backtrack
  /\ UNCHANGED <<ix, best, lanes, replaying, partVars>>

(* Fault: the lanes that pad the last block are scanned too.               *)
EnterLeafPadded ==
  /\ pc = "visit"
  /\ Reaches(cur) /\ ~Deferrable
  /\ IsLeaf(ix, cur)
  /\ pc' = "scan"
  /\ lanes' = Append(ix.refs[cur], [dist |-> 0, label |-> 0, idx |-> NoIndex])
  /\ UNCHANGED <<ix, best, cur, stack, deferVars, partVars>>

(* The lanes of a leaf, without those that pad its last block.             *)
EnterLeaf ==
  /\ pc = "visit"
  /\ Reaches(cur) /\ ~Deferrable
  /\ IsLeaf(ix, cur)
  /\ pc' = "scan"
  /\ lanes' = ix.refs[cur]
  /\ UNCHANGED <<ix, best, cur, stack, deferVars, partVars>>

(* One lane of scan_leaf_fast.                                             *)
ScanLane ==
  /\ pc = "scan"
  /\ lanes # << >>
  /\ best' = InsertBest(lanes[1])
  /\ lanes' = SubSeq(lanes, 2, Len(lanes))
  /\ UNCHANGED <<ix, pc, cur, stack, deferVars, partVars>>

LeaveLeaf ==
  /\ pc = "scan"
  /\ lanes = << >>
  /\ Backtrack
  /\ UNCHANGED <<ix, best, lanes, deferVars, partVars>>

Near == IF ix.bound[ix.left[cur]] <= ix.bound[ix.right[cur]]
        THEN ix.left[cur] ELSE ix.right[cur]
Far  == IF ix.bound[ix.left[cur]] <= ix.bound[ix.right[cur]]
        THEN ix.right[cur] ELSE ix.left[cur]

(* Fault: the far child is not kept.                                       *)
KeepFarNever == FALSE

(* The far child is pushed if it may matter and there is room.             *)
KeepFar == Reaches(Far) /\ Len(stack) < TreeStack

(* Into the near child, with the far one pushed.                           *)
Descend ==
  /\ pc = "visit"
  /\ Reaches(cur) /\ ~Deferrable
  /\ ~IsLeaf(ix, cur)
  /\ Reaches(Near)
  /\ stack' = IF KeepFar THEN Append(stack, Far) ELSE stack
  /\ cur' = Near
  /\ UNCHANGED <<ix, pc, best, lanes, deferVars, partVars>>

(* Neither child may matter: the far one is not nearer than the near one.  *)
SkipChildren ==
  /\ pc = "visit"
  /\ Reaches(cur) /\ ~Deferrable
  /\ ~IsLeaf(ix, cur)
  /\ ~Reaches(Near)
  /\ Backtrack
  /\ UNCHANGED <<ix, best, lanes, deferVars, partVars>>

-----------------------------------------------------------------------------
(* replay_pending_if_needed, after every search of a partition.            *)

(* Fault: deferred subtrees are replayed only when no label is left.       *)
ShouldReplayNoConsensus == pending # << >> /\ \A l \in Labels : ~Consensus(l)

ShouldReplay ==
  /\ pending # << >>
  /\ ~(deferLabel # NoLabel /\ Consensus(deferLabel))

StartReplay ==
  /\ pc = "searched"
  /\ ShouldReplay
  /\ pc' = "replay"
  /\ replaying' = TRUE
  /\ UNCHANGED <<ix, best, treeVars, pending, deferLabel, partVars>>

(* Fault: what is searched again is not popped.                            *)
ReplayKept ==
  /\ pc = "replay"
  /\ pending # << >>
  /\ LET root == pending[Len(pending)]
     IN  IF ix.bound[root] > Worst
         THEN UNCHANGED <<pc, cur>>
         ELSE pc' = "visit" /\ cur' = root
  /\ UNCHANGED <<ix, best, stack, lanes, pending, deferLabel, replaying, partVars>>

(* One subtree is popped and searched, without deferring, or skipped.      *)
Replay ==
  /\ pc = "replay"
  /\ pending # << >>
  /\ LET root == pending[Len(pending)]
     IN  IF ix.bound[root] > Worst
         THEN UNCHANGED <<pc, cur>>
         ELSE pc' = "visit" /\ cur' = root
  /\ pending' = SubSeq(pending, 1, Len(pending) - 1)
  /\ UNCHANGED <<ix, best, stack, lanes, deferLabel, replaying, partVars>>

(* The early exit, the scan of the other partitions, or the next of them.  *)
PartitionDone ==
  pc' = IF ix.earlyExit > 0 /\ Worst < ix.earlyExit THEN "done"
        ELSE IF collected THEN "next" ELSE "collect"

EndReplay ==
  /\ pc = "replay"
  /\ pending = << >>
  /\ deferLabel' = NoLabel
  /\ replaying' = FALSE
  /\ PartitionDone
  /\ UNCHANGED <<ix, best, treeVars, pending, partVars>>

NoReplay ==
  /\ pc = "searched"
  /\ ~ShouldReplay
  /\ PartitionDone
  /\ UNCHANGED <<ix, best, treeVars, deferVars, partVars>>

-----------------------------------------------------------------------------
(* predict_fraud_count.                                                    *)

(* Fault: the partition of the query is not left out.                      *)
CollectHome ==
  /\ pc = "collect"
  /\ todo' = {n \in Roots(ix) : ix.bound[n] < Worst}
  /\ collected' = TRUE
  /\ pc' = "next"
  /\ UNCHANGED <<ix, best, treeVars, deferVars>>

(* The other partitions that may still matter.                             *)
Collect ==
  /\ pc = "collect"
  /\ todo' = {n \in ix.others : ix.bound[n] < Worst}
  /\ collected' = TRUE
  /\ pc' = "next"
  /\ UNCHANGED <<ix, best, treeVars, deferVars>>

(* The entries are sorted by their bounds; the order of equal ones is      *)
(* whatever the sort makes of it.                                          *)
Nearest(n) == n \in todo /\ \A m \in todo : ix.bound[n] <= ix.bound[m]

SearchPartition ==
  /\ pc = "next"
  /\ \E n \in todo :
       /\ Nearest(n)
       /\ ix.bound[n] < Worst
       /\ cur' = n
       /\ todo' = todo \ {n}
  /\ pc' = "visit"
  /\ UNCHANGED <<ix, best, stack, lanes, deferVars, collected>>

(* No partition is left, or the nearest one is too far.                    *)
Finish ==
  /\ pc = "next"
  /\ \A n \in todo : Nearest(n) => ix.bound[n] >= Worst
  /\ pc' = "done"
  /\ UNCHANGED <<ix, best, treeVars, deferVars, partVars>>

Init ==
  /\ ix \in Searches
  /\ pc = IF ix.home = NoNode THEN "collect" ELSE "visit"
  /\ cur = ix.home
  /\ best = [i \in 1..K |-> Placeholder]
  /\ stack = << >> /\ lanes = << >>
  /\ pending = << >> /\ deferLabel = NoLabel /\ replaying = FALSE
  /\ collected = FALSE /\ todo = {}

Next ==
  \/ Prune \/ Defer \/ EnterLeaf \/ ScanLane \/ LeaveLeaf \/ Descend \/ SkipChildren
  \/ StartReplay \/ Replay \/ EndReplay \/ NoReplay
  \/ Collect \/ SearchPartition \/ Finish

Spec == Init /\ [][Next]_vars /\ WF_vars(Next)

-----------------------------------------------------------------------------
(* Properties.                                                             *)

Elements(q) == {q[i] : i \in DOMAIN q}

TypeOK ==
  /\ pc \in {"visit", "scan", "searched", "replay", "collect", "next", "done"}
  /\ best \in [1..K -> Entry]
  /\ cur \in ix.nodes \union {NoNode}
  /\ stack \in Seq(ix.nodes)
  /\ lanes \in Seq(Reference)
  /\ pending \in Seq(ix.nodes)
  /\ deferLabel \in Labels \union {NoLabel}
  /\ replaying \in BOOLEAN /\ collected \in BOOLEAN
  /\ todo \subseteq ix.others

(* The nodes still to be searched.                                         *)
Outstanding ==
  (IF pc = "visit" THEN {cur} ELSE {})
    \union Elements(stack) \union Elements(pending)
    \union (IF collected THEN todo ELSE ix.others)

(* The references still to be seen.                                        *)
Unseen == (UNION {ix.below[n] : n \in Outstanding}) \union Elements(lanes)

(* Whatever has been pruned, deferred, skipped or evicted, a reference     *)
(* nearer than the worst of the K best is among them or still to be seen:  *)
(* the searches of the partitions, their stack, the deferred subtrees and  *)
(* the replay never lose one between them.                                 *)
NothingForgotten ==
  \A r \in References(ix) : r.dist < Worst => r \in Elements(best) \/ r \in Unseen

(* A reference takes one of the K places at most, although a deferred      *)
(* subtree is left and come back to: it is not scored twice.               *)
NoReferenceTwice ==
  \A i, j \in 1..K : i # j => best[i] # best[j] \/ best[i] = Placeholder

(* All that is deferred has the label kept in PendingSubtrees.label:       *)
(* while the K best agree on it, the subtrees cannot change the count.     *)
DeferredHaveOneLabel ==
  \A n \in Elements(pending) : ix.classes[n] = {deferLabel}

(* S is a set of K references (of all, if there are fewer) none of which   *)
(* is farther than one that is left out.                                   *)
NearestSet(S) ==
  /\ Cardinality(S) = IF Cardinality(References(ix)) < K THEN Cardinality(References(ix)) ELSE K
  /\ \A r \in S, q \in References(ix) \ S : r.dist <= q.dist

(* The answer: without early exit, the count is that of the frauds among   *)
(* K nearest references of all partitions, whatever was pruned or is still *)
(* deferred; the early exit answers only once K references are nearer than *)
(* its threshold.                                                          *)
CountIsExact ==
  pc = "done" =>
    \/ \E S \in SUBSET References(ix) :
         /\ NearestSet(S)
         /\ FraudCount = Cardinality({r \in S : r.label = 1})
    \/ Worst < ix.earlyExit

(* Every search ends: each node is visited at most twice.                  *)
SearchEnds == <>(pc = "done")
=============================================================================
