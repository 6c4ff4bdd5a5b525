----------------------------- MODULE BlockScan -----------------------------
(***************************************************************************)
(* The arithmetic of scan_block_pair_avx2_bounded (src/src/index/search.rs): *)
(* one lane of the block, 14 features in 7 pairs, differences in 16 bits   *)
(* and their squares added in 32. KdTree takes distances in integers wide  *)
(* enough; this module says when the two agree.                            *)
(***************************************************************************)
EXTENDS Integers

Features == 0 .. 13

(* Integers as lanes of 16 and of 32 bits hold them: from -half on, half   *)
(* of the range below zero.                                                *)
Half16 == 32768
Half32 == 2147483648
Signed(x, half) == ((x + half) % (2 * half)) - half
Signed16(x) == Signed(x, Half16)
Signed32(x) == Signed(x, Half32)

Square(x) == x * x

(* _mm256_sub_epi16, _mm256_madd_epi16 and _mm256_add_epi32.               *)
Diff(q, v, d) == Signed16(q[d] - v[d])
Madd(q, v, p) == Signed32(Square(Diff(q, v, 2 * p)) + Square(Diff(q, v, 2 * p + 1)))
Add(x, y) == Signed32(x + y)

(* acc after the last pair.                                                *)
Scan(q, v) ==
  Add(Add(Add(Add(Add(Add(Madd(q, v, 0), Madd(q, v, 1)), Madd(q, v, 2)),
      Madd(q, v, 3)), Madd(q, v, 4)), Madd(q, v, 5)), Madd(q, v, 6))

(* The squared distance.                                                   *)
PairDistance(q, v, p) == Square(q[2 * p] - v[2 * p]) + Square(q[2 * p + 1] - v[2 * p + 1])
SquaredDistance(q, v) ==
  PairDistance(q, v, 0) + PairDistance(q, v, 1) + PairDistance(q, v, 2) + PairDistance(q, v, 3)
  + PairDistance(q, v, 4) + PairDistance(q, v, 5) + PairDistance(q, v, 6)

(* What the features of the references and of an ordinary body range over: *)
(* only the two of last_transaction are ever -scale.                       *)
SignedFeatures == {5, 6}
FeatureRange(scale, d) == IF d \in SignedFeatures THEN -scale .. scale ELSE 0 .. scale
Vectors(scale) == {v \in [Features -> Int] : \A d \in Features : v[d] \in FeatureRange(scale, d)}

(* The largest sum of 12 squares of scale and 2 of twice that, in 32 bits. *)
FitsIn32(scale) == 20 * (scale * scale) < Half32
DifferencesFit(scale) == 2 * scale < Half16

(* The two most distant vectors of a scale.                                *)
LowestVector(scale) == [d \in Features |-> IF d \in SignedFeatures THEN -scale ELSE 0]
HighestVector(scale) == [d \in Features |-> scale]

(* More features are negative in some queries: quantize (helpers.rs:5)     *)
(* gives -scale to an amount, a number of installments, of kilometres or   *)
(* of transactions far below zero, and to the average of the merchant; the *)
(* parsers accept them.                                                    *)
NegativeFeatures == {0, 1, 2, 5, 6, 7, 8, 13}

(* Every vector of an accepted body, QueryParsing.VectorInRange.           *)
Queries(scale) == [Features -> -scale .. scale]
Negative(scale) == [d \in Features |-> IF d \in NegativeFeatures THEN -scale ELSE 0]
=============================================================================
