----------------------------- MODULE IndexFile -----------------------------
(***************************************************************************)
(* The index file, from the references to the memory a worker searches:    *)
(* src/src/bin/preprocess.rs learns a partition tree                       *)
(* (src/src/index/partition_scheme.rs), builds the partitions and their    *)
(* nodes (build.rs), lays them out (format.rs) and writes the file; a      *)
(* worker maps it, checks it (mod.rs, mmap.rs) and reads it by offsets     *)
(* (layout.rs). Either may stop and start again between any two steps.     *)
(*                                                                         *)
(* A file is a sequence of sections; a section is rows of cells of fixed   *)
(* widths. Readers see offsets and widths only, as the code does: a read   *)
(* that is not exactly a cell yields Garbage. Dimensions and references    *)
(* are numbered from 1, everything in the file from 0.                     *)
(***************************************************************************)
EXTENDS KdTree

CONSTANTS
  Inputs,               (* Inputs[r]: what the r-th run of preprocess may   *)
                        (* be given: [rows, leafSize, scale].               *)
  Unit,                 (* A value v of a row stands for v/Unit.            *)
  WorkerScale,          (* SCALE of the worker's build.                     *)
  PACKED_DIMS, K, LANES,
  KEY_LOOKUP_SIZE,
  SampleQueries,        (* LEARNED_SAMPLE_QUERIES.                          *)
  FewValues,            (* 64: distinct values of which every gap is tried. *)
  Garbage               (* Bytes that are not one cell.                     *)

(* The strides and offsets of layout.rs hold for 16 PACKED_DIMS only.      *)
ASSUME IndexFileAssumption ==
  /\ {Unit, WorkerScale, K, LANES, KEY_LOOKUP_SIZE, SampleQueries, FewValues} \subseteq Nat \ {0}
  /\ LANES <= 2048
  /\ PACKED_DIMS = 16 /\ Dims <= PACKED_DIMS /\ Dims % 2 = 0
  /\ LevelSize(LEARNED_TREE_MAX_DEPTH) <= KEY_LOOKUP_SIZE
  /\ Garbage \in Int

Row == [vector : Seq(Int), label : STRING]

ASSUME InputsAssumption ==
  /\ Inputs # << >>
  /\ Inputs \in Seq(SUBSET [rows : Seq(Row), leafSize : Nat, scale : Nat \ {0}])

Least(a, b) == IF a < b THEN a ELSE b
Greatest(a, b) == IF a < b THEN b ELSE a

VARIABLES
  run,      (* How often preprocess has been started.                       *)
  phase,    (* Where preprocess is.                                         *)
  input,    (* Its references, leaf size and scale.                         *)
  tree,     (* tree_predicates.                                             *)
  work,     (* Calls of train_tree_node still to run: [node, depth, queries]. *)
  built,    (* partition_meta, nodes and all_blocks.                        *)
  file,     (* The file's image, how much of it is on disk, and the         *)
            (* references it was made of (of the model only).               *)
  worker,   (* The worker: "down", "refused" or "serving".                  *)
  index     (* Its SpecialistIndex: where the sections begin, the counts,   *)
            (* the partition scheme and key_to_partition.                   *)

vars == <<run, phase, input, tree, work, built, file, worker, index>>

-----------------------------------------------------------------------------
(* load_references.                                                        *)

(* quantize: the sentinel, zero, one, and what is between.                 *)
Quantize(raw, scale) ==
  IF raw <= -Unit THEN -scale
  ELSE IF raw <= 0 THEN 0
  ELSE IF raw >= Unit THEN scale
  ELSE (2 * raw * scale + Unit) \div (2 * Unit)

ReferenceOf(row, scale) ==
  [vector |-> [d \in 1..PACKED_DIMS |-> IF d <= Dims THEN Quantize(row.vector[d], scale) ELSE 0],
   label  |-> IF row.label = "fraud" THEN 1 ELSE 0]

WellFormed(rows) == \A i \in DOMAIN rows : Len(rows[i].vector) = Dims

ClampLeaf(leafSize) == Least(Greatest(leafSize, LANES), 2048)

-----------------------------------------------------------------------------
(* learn_tree_predicates.                                                  *)

Disabled == [dim |-> 1, threshold |-> 0, enabled |-> FALSE]

(* sample_indices.                                                         *)
Sampled(n) ==
  LET sample == Greatest(Least(n, SampleQueries), 1)
      step == Greatest(n \div sample, 1)
  IN  {1 + step * k : k \in 0..(sample - 1)} \intersect 1..n

(* Fault: the middle is rounded up.                                        *)
MidpointUp(a, b) == (a + b + 1) \div 2

(* midpoint truncates toward zero.                                         *)
Midpoint(a, b) == IF a + b >= 0 THEN (a + b) \div 2 ELSE -((-(a + b)) \div 2)

(* The k-th of the values, from 0.                                         *)
NthOf(V, k) == CHOOSE x \in V : Cardinality({y \in V : y < x}) = k

(* Few values: the middle of every gap. Many: 15 quantiles.                *)
ThresholdsOf(V) ==
  LET n == Cardinality(V)
  IN  IF n <= FewValues
      THEN {Midpoint(NthOf(V, k), NthOf(V, k + 1)) : k \in 0..(n - 2)}
      ELSE {NthOf(V, ((n - 1) * q) \div 16) : q \in 1..15}

(* candidate_predicates.                                                   *)
Candidates(refs) ==
  UNION {{[dim |-> d, threshold |-> t, enabled |-> TRUE] :
            t \in ThresholdsOf(Values(refs, DOMAIN refs, d))} : d \in 1..Dims}

Right(refs, queries, p) == {i \in queries : refs[i].vector[p.dim] > p.threshold}

Left(refs, queries, p) == queries \ Right(refs, queries, p)

(* The candidates with at least 4 queries on either side. Which of them    *)
(* scores best (neighbours kept together, balance, labels apart) is left   *)
(* open.                                                                   *)
Eligible(refs, queries) ==
  {p \in Candidates(refs) : /\ Cardinality(Right(refs, queries, p)) >= 4
                            /\ Cardinality(Left(refs, queries, p)) >= 4}

(* The early return of train_tree_node.                                    *)
Trains(call) ==
  /\ call.depth < KeyBits
  /\ call.node \in DOMAIN tree
  /\ Cardinality(call.queries) >= 8
  /\ Eligible(input.refs, call.queries) # {}

-----------------------------------------------------------------------------
(* build_index: the nodes and the lanes of one partition.                  *)

PADDING == -1          (* u32::MAX, the index of a lane without reference.  *)

PaddingLane == [vector |-> [d \in 1..PACKED_DIMS |-> 0], label |-> 0, index |-> PADDING]

Blocks(n) == (n + LANES - 1) \div LANES

(* S in some order. The code keeps that of the last sort.                  *)
InOrder(S) == [k \in 1..Cardinality(S) |-> NthOf(S, k - 1)]

(* A leaf, padded to whole blocks.                                         *)
LeafLanes(refs, S) ==
  LET order == InOrder(S)
      lane(i) == [vector |-> refs[i].vector, label |-> refs[i].label, index |-> i]
  IN  [l \in 1..(Blocks(Cardinality(S)) * LANES) |->
         IF l > Cardinality(S) THEN PaddingLane ELSE lane(order[l])]

BoxLow(refs, S) == [d \in 1..PACKED_DIMS |-> Lowest(refs, S, d)]
BoxHigh(refs, S) == [d \in 1..PACKED_DIMS |-> Highest(refs, S, d)]

(* class_bits: bit l for label l.                                          *)
Bits(labels) == (IF 0 \in labels THEN 1 ELSE 0) + (IF 1 \in labels THEN 2 ELSE 0)

NodeEntry(refs, S, left, right, start, bits) ==
  [left |-> left, right |-> right, start |-> start, len |-> Cardinality(S),
   min |-> BoxLow(refs, S), max |-> BoxHigh(refs, S), classBits |-> bits]

(* Fault: an inner node takes the class bits of its left child.            *)
InnerBitsLeft(left, right) == left

(* class_bits of an inner node: the bitwise or of its children's.          *)
InnerBits(left, right) ==
  LET labels(bits) == {l \in {0, 1} : bits \in {l + 1, 3}}
  IN  Bits(labels(left) \union labels(right))

LeafTree(refs, S, start) ==
  [nodes |-> <<NodeEntry(refs, S, -1, -1, start, Bits(ClassBits(refs, S)))>>,
   lanes |-> LeafLanes(refs, S)]

InnerTree(refs, S, leftNode, rightNode, left, right) ==
  LET bits == InnerBits(left.nodes[1].classBits, right.nodes[1].classBits)
  IN  [nodes |-> <<NodeEntry(refs, S, leftNode, rightNode, left.nodes[1].start, bits)>>
                   \o left.nodes \o right.nodes,
       lanes |-> left.lanes \o right.lanes]

(* build_node: the nodes in preorder, of which node is the first, and the  *)
(* lanes, of which start is the first.                                     *)
BuildNode(refs, root, leafSize, firstNode, firstLane) ==
  LET build[call \in (SUBSET root) \X Nat \X Nat] ==
        LET S     == call[1]
            node  == call[2]
            start == call[3]
            half  == LeftHalf(refs, S)
            left  == build[<<half, node + 1, start>>]
            next  == node + 1 + Len(left.nodes)
            right == build[<<S \ half, next, start + Len(left.lanes)>>]
        IN  IF Splits(S, leafSize)
            THEN InnerTree(refs, S, node + 1, next, left, right)
            ELSE LeafTree(refs, S, start)
  IN  build[<<root, firstNode, firstLane>>]

NothingBuilt == [roots |-> << >>, nodes |-> << >>, lanes |-> << >>]

-----------------------------------------------------------------------------
(* The file: IndexWriter and the order of its calls in build_index.        *)

MAGIC_V5 == 5
SCHEME_ID_LEARNED_TREE == 2

Total(widths) == LET upto[k \in 0..Len(widths)] == IF k = 0 THEN 0 ELSE upto[k - 1] + widths[k]
                 IN  upto[Len(widths)]

(* Rows of fields of the given widths; at are the fields' offsets.         *)
Section(widths, rows) ==
  [widths |-> widths, rows |-> rows, stride |-> Total(widths),
   at |-> [f \in DOMAIN widths |-> Total([g \in 1..(f - 1) |-> widths[g]])]]

SizeOf(section) == section.stride * Len(section.rows)

(* Each section with its first offset.                                     *)
Place(sections) ==
  LET begin == [n \in 1..Len(sections) |->
                  Total([m \in 1..(n - 1) |-> SizeOf(sections[m])])]
  IN  [n \in 1..Len(sections) |->
         [widths |-> sections[n].widths, rows |-> sections[n].rows,
          stride |-> sections[n].stride, at |-> sections[n].at,
          begin |-> begin[n], end |-> begin[n] + SizeOf(sections[n])]]

(* write_partition_entry, write_node_entry: four numbers and a box.        *)
BoxWidths == <<4, 4, 4, 4>> \o [d \in 1..(2 * PACKED_DIMS) |-> 2]

HeaderWidths == <<8, 4, 4, 4, 4, 4, 4, 2, 2, 2, 2, 2>>

HeaderSection(in, predicates, roots, nodes, blocks) ==
  Section(HeaderWidths,
    << <<MAGIC_V5, in.scale, PACKED_DIMS, Len(in.refs), Len(roots), Len(nodes), blocks,
         SCHEME_ID_LEARNED_TREE, TreeDepth, 0, 0, Cardinality(DOMAIN predicates)>> >>)

PredicateSection(predicates) ==
  Section(<<1, 1, 2>>,
    [n \in 1..Cardinality(DOMAIN predicates) |->
       LET p == predicates[n - 1]
       IN  <<p.dim, IF p.enabled THEN 1 ELSE 0, p.threshold>>])

PartitionSection(roots, nodes) ==
  Section(BoxWidths,
    [k \in 1..Len(roots) |->
       LET n == nodes[roots[k].root + 1]
       IN  <<roots[k].key, roots[k].root, 0, n.len>> \o n.min \o n.max])

NodeSection(nodes) ==
  Section(BoxWidths,
    [k \in 1..Len(nodes) |->
       LET n == nodes[k]
       IN  <<n.left, n.right, n.start \div LANES, n.len>> \o n.min \o n.max])

(* For each block, for each pair of dimensions, the pair of each lane.     *)
VectorSection(lanes, blocks) ==
  Section(<<2, 2>>,
    [k \in 1..(blocks * (Dims \div 2) * LANES) |->
       LET block == (k - 1) \div ((Dims \div 2) * LANES)
           pair  == ((k - 1) \div LANES) % (Dims \div 2)
           v     == lanes[block * LANES + ((k - 1) % LANES) + 1].vector
       IN  <<v[2 * pair + 1], v[2 * pair + 2]>>])

LabelSection(lanes) == Section(<<1>>, [l \in 1..Len(lanes) |-> <<lanes[l].label>>])
IndexSection(lanes) == Section(<<4>>, [l \in 1..Len(lanes) |-> <<lanes[l].index>>])
ClassSection(nodes) == Section(<<1>>, [k \in 1..Len(nodes) |-> <<nodes[k].classBits>>])

(* align_to(4), from the given offset.                                     *)
PaddingSection(end) == Section(<<1>>, [b \in 1..((4 - (end % 4)) % 4) |-> <<0>>])

Image(in, predicates, roots, nodes, lanes) ==
  LET blocks == Len(lanes) \div LANES
      unaligned == <<HeaderSection(in, predicates, roots, nodes, blocks),
                     PredicateSection(predicates), PartitionSection(roots, nodes),
                     NodeSection(nodes), VectorSection(lanes, blocks), LabelSection(lanes)>>
  IN  Place(unaligned \o <<PaddingSection(Place(unaligned)[6].end),
                           IndexSection(lanes), ClassSection(nodes)>>)

ImageSize(image) == IF image = << >> THEN 0 ELSE image[Len(image)].end

-----------------------------------------------------------------------------
(* What a worker makes of the bytes on disk. read_i32, read_i16, read_u8   *)
(* and the raw pointers of layout.rs read by offset and width.             *)

Read(offset, width) ==
  LET here == {n \in DOMAIN file.image :
                 file.image[n].begin <= offset /\ offset < file.image[n].end}
      section == file.image[CHOOSE n \in here : TRUE]
      within == (offset - section.begin) % section.stride
      fields == {f \in DOMAIN section.widths : section.widths[f] = width /\ section.at[f] = within}
      row == (offset - section.begin) \div section.stride + 1
  IN  IF here = {} \/ offset + width > file.size THEN Garbage
      ELSE IF fields = {} THEN Garbage
      ELSE section.rows[row][CHOOSE f \in fields : TRUE]

(* The header.                                                             *)
FileScale      == Read(8, 4)
PackedDims     == Read(12, 4)
PartitionCount == Read(20, 4)
NodeCount      == Read(24, 4)
TotalBlocks    == Read(28, 4)
SchemeId       == Read(32, 2)
LegacyCuts     == Read(36, 2) + Read(38, 2)
PredicateCount == Read(40, 2)

PARTITION_STRIDE == 80
NODE_STRIDE == 80

(* load's cursor at the start of each section.                             *)
PredicatesAt == 42 + 2 * LegacyCuts
PartitionsAt == PredicatesAt + 4 * PredicateCount
NodesAt      == PartitionsAt + PARTITION_STRIDE * PartitionCount
VectorsAt    == NodesAt + NODE_STRIDE * NodeCount
LabelsAt     == VectorsAt + 2 * Dims * LANES * TotalBlocks
LabelsEnd    == LabelsAt + LANES * TotalBlocks

(* align_cursor to a u32.                                                  *)
RefIndicesAt == LabelsEnd + ((4 - (LabelsEnd % 4)) % 4)
ClassBitsAt  == RefIndicesAt + 4 * LANES * TotalBlocks

LoadedTree ==
  [n \in 0..(PredicateCount - 1) |->
     [dim |-> Read(PredicatesAt + 4 * n, 1),
      enabled |-> Read(PredicatesAt + 4 * n + 1, 1) # 0,
      threshold |-> Read(PredicatesAt + 4 * n + 2, 2)]]

Within(end) == end <= file.size

(* Fault: the last section is not measured.                                *)
LoadsUnmeasured ==
  /\ Within(8) /\ Read(0, 8) = MAGIC_V5
  /\ Within(PredicatesAt)
  /\ Within(PartitionsAt)
  /\ FileScale = WorkerScale
  /\ Within(NodesAt) /\ Within(VectorsAt)
  /\ Within(LabelsAt) /\ Within(LabelsEnd) /\ Within(ClassBitsAt)

(* Every check of open and load, in their order; an empty file fails the   *)
(* first.                                                                  *)
Loads ==
  /\ Within(8) /\ Read(0, 8) = MAGIC_V5
  /\ Within(42) /\ Within(PredicatesAt)
  /\ Within(PartitionsAt)
  /\ \A n \in DOMAIN LoadedTree : LoadedTree[n].enabled => LoadedTree[n].dim \in 1..Dims
  /\ SchemeId = SCHEME_ID_LEARNED_TREE
  /\ FileScale = WorkerScale
  /\ PackedDims = PACKED_DIMS
  /\ Within(NodesAt)
  /\ Within(VectorsAt)
  /\ VectorsAt % 2 = 0 /\ Within(LabelsAt)
  /\ Within(LabelsEnd)
  /\ RefIndicesAt % 4 = 0 /\ Within(ClassBitsAt)
  /\ Within(ClassBitsAt + NodeCount)

NotLoaded == [tree |-> << >>]

(* The pointers and counts that load keeps. Of two partitions of a key the *)
(* last one counts; one beyond the table is not found.                     *)
Loaded ==
  LET keyOf(p) == Read(PartitionsAt + p * PARTITION_STRIDE, 4)
      count == PartitionCount
  IN  [tree |-> LoadedTree,
       partitionsBase |-> PartitionsAt, partitionCount |-> count,
       nodesBase |-> NodesAt, nodeCount |-> NodeCount,
       vectors |-> VectorsAt, labels |-> LabelsAt, refIndices |-> RefIndicesAt,
       nodeClassBits |-> ClassBitsAt,
       keyToPartition |-> [key \in 0..(KEY_LOOKUP_SIZE - 1) |->
         LET found == {p \in 0..(count - 1) : keyOf(p) = key}
         IN  IF found = {} THEN -1 ELSE CHOOSE p \in found : \A o \in found : o <= p]]

(* layout.rs: a partition's root and box, and a node's fields.             *)
PartitionRoot(p) == Read(index.partitionsBase + p * PARTITION_STRIDE + 4, 4)
PartitionMin(p)  == [d \in 1..PACKED_DIMS |->
                       Read(index.partitionsBase + p * PARTITION_STRIDE + 16 + 2 * (d - 1), 2)]
PartitionMax(p)  == [d \in 1..PACKED_DIMS |->
                       Read(index.partitionsBase + p * PARTITION_STRIDE + 48 + 2 * (d - 1), 2)]
NodeLeft(n)      == Read(index.nodesBase + n * NODE_STRIDE, 4)
NodeRight(n)     == Read(index.nodesBase + n * NODE_STRIDE + 4, 4)
NodeStart(n)     == Read(index.nodesBase + n * NODE_STRIDE + 8, 4)
NodeLen(n)       == Read(index.nodesBase + n * NODE_STRIDE + 12, 4)
NodeMin(n)       == [d \in 1..PACKED_DIMS |-> Read(index.nodesBase + n * NODE_STRIDE + 16 + 2 * (d - 1), 2)]
NodeMax(n)       == [d \in 1..PACKED_DIMS |-> Read(index.nodesBase + n * NODE_STRIDE + 48 + 2 * (d - 1), 2)]
NodeClassBits(n) == Read(index.nodeClassBits + n, 1)

(* partition_idx_for_key.                                                  *)
PartitionOf(key) == IF key < KEY_LOOKUP_SIZE THEN index.keyToPartition[key] ELSE -1

(* The lanes of a block that scan_block_pair_avx2_bounded loads.           *)
LaneVector(block, lane) ==
  [d \in 1..Dims |->
     LET pair == (d - 1) \div 2
     IN  Read(index.vectors + 2 * (block * Dims * LANES + pair * LANES * 2 + 2 * lane + ((d - 1) % 2)), 2)]

ScannedLane(block, lane) ==
  [vector |-> LaneVector(block, lane),
   label  |-> Read(index.labels + block * LANES + lane, 1),
   index  |-> Read(index.refIndices + 4 * (block * LANES + lane), 4)]

(* scan_leaf, scan_leaf_fast: the lanes of a leaf, those that pad the last *)
(* block masked.                                                           *)
LanesOf(leaf) ==
  UNION {{<<NodeStart(leaf) + b, lane>> :
            lane \in 0..(Least(NodeLen(leaf) - b * LANES, LANES) - 1)} :
         b \in 0..(Blocks(NodeLen(leaf)) - 1)}

(* The lanes below a node.                                                 *)
LanesBelow(node) ==
  LET below[n \in 0..(index.nodeCount - 1)] ==
        IF NodeLeft(n) < 0 \/ NodeRight(n) < 0 THEN LanesOf(n)
        ELSE below[NodeLeft(n)] \union below[NodeRight(n)]
  IN  below[node]

-----------------------------------------------------------------------------
(* preprocess.                                                             *)

NoInput == [refs |-> << >>, leafSize |-> 0, scale |-> 0]

(* load_references, and prepare up to the first call of train_tree_node: a *)
(* tree is learned from K + 1 references on.                               *)
Load ==
  /\ phase = "load"
  /\ \E in \in Inputs[run] :
       LET refs == [i \in DOMAIN in.rows |-> ReferenceOf(in.rows[i], in.scale)]
           learns == Len(refs) >= K + 1 /\ KeyBits > 0
       IN  IF WellFormed(in.rows)
           THEN /\ phase' = "train"
                /\ input' = [refs |-> refs, leafSize |-> ClampLeaf(in.leafSize), scale |-> in.scale]
                /\ tree' = IF learns THEN [n \in 0..(LevelSize(KeyBits) - 2) |-> Disabled] ELSE << >>
                /\ work' = IF learns
                           THEN <<[node |-> 0, depth |-> 0, queries |-> Sampled(Len(refs))]>>
                           ELSE << >>
           ELSE phase' = "failed" /\ UNCHANGED <<input, tree, work>>
  /\ UNCHANGED <<run, built, file, worker, index>>

SkipNode ==
  /\ phase = "train"
  /\ work # << >>
  /\ ~Trains(work[1])
  /\ work' = Tail(work)
  /\ UNCHANGED <<run, phase, input, tree, built, file, worker, index>>

(* Fault: the children change sides.                                       *)
TrainNodeSwapped ==
  /\ phase = "train"
  /\ work # << >>
  /\ Trains(work[1])
  /\ \E p \in Eligible(input.refs, work[1].queries) :
       LET child(k, queries) ==
             [node |-> 2 * work[1].node + k, depth |-> work[1].depth + 1, queries |-> queries]
       IN  /\ tree' = [tree EXCEPT ![work[1].node] = p]
           /\ work' = <<child(1, Right(input.refs, work[1].queries, p)),
                        child(2, Left(input.refs, work[1].queries, p))>> \o Tail(work)
  /\ UNCHANGED <<run, phase, input, built, file, worker, index>>

(* A call of train_tree_node that finds a candidate; the calls for its     *)
(* children come next, the left one first.                                 *)
TrainNode ==
  /\ phase = "train"
  /\ work # << >>
  /\ Trains(work[1])
  /\ \E p \in Eligible(input.refs, work[1].queries) :
       LET child(k, queries) ==
             [node |-> 2 * work[1].node + k, depth |-> work[1].depth + 1, queries |-> queries]
       IN  /\ tree' = [tree EXCEPT ![work[1].node] = p]
           /\ work' = <<child(1, Left(input.refs, work[1].queries, p)),
                        child(2, Right(input.refs, work[1].queries, p))>> \o Tail(work)
  /\ UNCHANGED <<run, phase, input, built, file, worker, index>>

(* The keys of which build_index has no tree yet.                          *)
KeysToBuild ==
  Keys(input.refs, tree) \ {built.roots[k].key : k \in DOMAIN built.roots}

(* build_index: the tree of the next key, in ascending order.              *)
BuildPartition ==
  /\ phase = "train"
  /\ work = << >>
  /\ \E key \in KeysToBuild :
       /\ \A k \in KeysToBuild : key <= k
       /\ \E trees \in {BuildNode(input.refs, Partition(input.refs, tree, key), input.leafSize,
                                  Len(built.nodes), Len(built.lanes))} :
            built' = [roots |-> Append(built.roots, [key |-> key, root |-> Len(built.nodes)]),
                      nodes |-> built.nodes \o trees.nodes,
                      lanes |-> built.lanes \o trees.lanes]
  /\ UNCHANGED <<run, phase, input, tree, work, file, worker, index>>

(* The bytes are laid out in memory, and the file is created, which        *)
(* empties one that is there. Nobody rebuilds a file that a worker has     *)
(* mapped.                                                                 *)
CreateFile ==
  /\ phase = "train"
  /\ work = << >>
  /\ KeysToBuild = {}
  /\ worker # "serving"
  /\ phase' = "write"
  /\ file' = [image |-> Image(input, tree, built.roots, built.nodes, built.lanes),
              size |-> 0, refs |-> input.refs]
  /\ built' = NothingBuilt
  /\ UNCHANGED <<run, input, tree, work, worker, index>>

(* Where write_all is seen to be interrupted: after the first byte of a    *)
(* section, before its last, and between two.                              *)
Stops(image) ==
  UNION {{image[n].begin + 1, image[n].end - 1, image[n].end} :
           n \in {m \in DOMAIN image : image[m].begin < image[m].end}}

WriteSome ==
  /\ phase = "write"
  /\ \E size \in Stops(file.image) :
       /\ file.size < size
       /\ file' = [file EXCEPT !.size = size]
       /\ phase' = IF size = ImageSize(file.image) THEN "written" ELSE phase
  /\ UNCHANGED <<run, input, tree, work, built, worker, index>>

(* preprocess is killed wherever it is, or run again, maybe on other data, *)
(* with another leaf size or built for another scale.                      *)
RunAgain ==
  /\ run < Len(Inputs)
  /\ run' = run + 1
  /\ phase' = "load"
  /\ input' = NoInput
  /\ tree' = << >> /\ work' = << >> /\ built' = NothingBuilt
  /\ UNCHANGED <<file, worker, index>>

-----------------------------------------------------------------------------
(* A worker opens the index when it starts and exits if it cannot; the     *)
(* containers are restarted always.                                        *)
Open ==
  /\ worker # "serving"
  /\ IF Loads THEN worker' = "serving" /\ index' = Loaded
     ELSE worker' = "refused" /\ index' = NotLoaded
  /\ UNCHANGED <<run, phase, input, tree, work, built, file>>

(* The worker stops.                                                       *)
Stop ==
  /\ worker = "serving"
  /\ worker' = "down" /\ index' = NotLoaded
  /\ UNCHANGED <<run, phase, input, tree, work, built, file>>

Init ==
  /\ run = 1
  /\ phase = "load"
  /\ input = NoInput
  /\ tree = << >> /\ work = << >> /\ built = NothingBuilt
  /\ file = [image |-> << >>, size |-> 0, refs |-> << >>]
  /\ worker = "down" /\ index = NotLoaded

Next ==
  \/ Load \/ SkipNode \/ TrainNode \/ BuildPartition \/ CreateFile \/ WriteSome \/ RunAgain
  \/ Open \/ Stop

Spec == Init /\ [][Next]_vars

-----------------------------------------------------------------------------
(* Properties.                                                             *)

(* A worker serves from a whole file only: however far the write got when  *)
(* preprocess was killed, or whatever scale it was built for, a file that  *)
(* would be read past its end or in another scale is refused.              *)
OpenedIsWhole ==
  worker = "serving" => /\ file.size = ImageSize(file.image)
                        /\ FileScale = WorkerScale

(* Every reference is served: under the key that the loaded predicates     *)
(* give it, the leaves below the partition's root hold it, once, with its  *)
(* vector and label; and no lane that is scanned holds anything else. The  *)
(* key, the lookup table, the offsets, the blocks and the masks agree      *)
(* between preprocess and the worker.                                      *)
EveryReferenceServed ==
  worker = "serving" =>
    LET refs == file.refs
        lanes(key) == IF PartitionOf(key) = -1 THEN {} ELSE LanesBelow(PartitionRoot(PartitionOf(key)))
        held(key) == {ScannedLane(l[1], l[2]) : l \in lanes(key)}
        keyOf == [i \in DOMAIN refs |-> Key(index.tree, refs[i].vector)]
    IN  \A key \in 0..(KEY_LOOKUP_SIZE - 1) \union {keyOf[i] : i \in DOMAIN refs} :
          LET mine == {i \in DOMAIN refs : keyOf[i] = key}
          IN  /\ Cardinality(lanes(key)) = Cardinality(mine)
              /\ held(key) = {[vector |-> [d \in 1..Dims |-> refs[i].vector[d]],
                               label |-> refs[i].label, index |-> i] : i \in mine}

(* What the search assumes of the nodes (Sound of KnnSearch) holds of the  *)
(* file as it is mapped: a box, read at its offset, bounds the vectors in  *)
(* the lanes below the node, the class bits are those of the labels below, *)
(* and a partition has the box of its root.                                *)
MappedTreeIsSound ==
  worker = "serving" =>
    /\ \A n \in 0..(index.nodeCount - 1) :
         LET below == {ScannedLane(l[1], l[2]) : l \in LanesBelow(n)}
             low == NodeMin(n)
             high == NodeMax(n)
         IN  /\ \A lane \in below, d \in 1..Dims :
                  low[d] <= lane.vector[d] /\ lane.vector[d] <= high[d]
             /\ NodeClassBits(n) = Bits({lane.label : lane \in below})
    /\ \A p \in 0..(index.partitionCount - 1) :
         /\ PartitionMin(p) = NodeMin(PartitionRoot(p))
         /\ PartitionMax(p) = NodeMax(PartitionRoot(p))

(* A node of the partition tree is trained on the sampled queries that the *)
(* descent of compute_tree_key brings to it, no others: training and       *)
(* descent number the children, and take the sides, alike.                 *)
TrainedOnItsQueries ==
  \A k \in DOMAIN work :
    work[k].queries = {i \in Sampled(Len(input.refs)) :
                         NodeAt(tree, input.refs[i].vector, work[k].depth) = work[k].node}

(* A candidate has references on either side, and of a few values any two  *)
(* are told apart by some candidate, whatever their signs.                 *)
CandidatesSeparate ==
  LET refs == input.refs
      valuesOf(d) == Values(refs, DOMAIN refs, d)
  IN  phase = "train" =>
        /\ \A p \in Candidates(refs) :
             /\ Right(refs, DOMAIN refs, p) # {}
             /\ Left(refs, DOMAIN refs, p) # {}
        /\ \A d \in 1..Dims :
             Cardinality(valuesOf(d)) <= FewValues =>
               \A a, b \in valuesOf(d) :
                 a < b => \E p \in Candidates(refs) : p.dim = d /\ a <= p.threshold /\ p.threshold < b
=============================================================================
