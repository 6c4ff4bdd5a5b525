------------------------- MODULE QueryParsingProofs -------------------------
(***************************************************************************)
(* Theorems about QueryParsing, for every body of its tokens, whatever the *)
(* values, and every scale.                                                *)
(***************************************************************************)
EXTENDS QueryParsing, TLAPS, FiniteSetTheorems, WellFoundedInduction

-----------------------------------------------------------------------------
(* The parts of a vector.                                                  *)

Range0 == -Scale .. Scale

(* Some features, each in its range.                                       *)
IsPart(w) == DOMAIN w \subseteq Features /\ \A n \in DOMAIN w : w[n] \in Range0

LEMMA QuantizeInRange ==
  ASSUME NEW n \in Int, NEW d \in Nat \ {0}
  PROVE  Quantize(n, d) \in Range0
<1>1. Scale \in Nat \ {0}
  BY ParsingAssumption
<1>2. CASE n <= -d \/ (n > -d /\ n <= 0) \/ n >= d
  BY <1>1, <1>2 DEF Quantize, Range0
<1>3. CASE ~(n <= -d) /\ ~(n > -d /\ n <= 0) /\ ~(n >= d)
  <2>1. n \in Nat /\ n > 0 /\ n < d
    BY <1>3
  <2> DEFINE q == (2 * n * Scale + d) \div (2 * d)
             m == n * Scale
             e == d * Scale
  <2>2. m \in Nat /\ e \in Nat /\ m <= e
    BY <1>1, <2>1
  <2>3. Quantize(n, d) = q
    BY <1>3 DEF Quantize
  <2>4. 2 * n * Scale + d = 2 * m + d
    BY <1>1, <2>1
  <2>5. q = (2 * m + d) \div (2 * d)
    BY <2>4
  <2>6. q \in Nat /\ (2 * d) * q <= 2 * m + d
    <3> HIDE DEF m, e, q
    <3> QED BY <2>2, <2>5
  <2>7. ASSUME q > Scale PROVE FALSE
    <3>1. (2 * d) * (Scale + 1) <= (2 * d) * q
      <4> HIDE DEF q, m, e
      <4>1. q = Scale + 1 + (q - (Scale + 1)) /\ q - (Scale + 1) \in Nat
        BY <1>1, <2>6, <2>7
      <4> DEFINE x == q - (Scale + 1)
      <4>2. x \in Nat /\ q = (Scale + 1) + x
        BY <4>1
      <4> HIDE DEF x
      <4>3. (2 * d) * q = (2 * d) * (Scale + 1) + (2 * d) * x
        BY <1>1, <4>2
      <4>4. (2 * d) * x \in Nat /\ (2 * d) * (Scale + 1) \in Nat
        BY <1>1, <4>2
      <4> QED BY <4>3, <4>4
    <3>2. (2 * d) * (Scale + 1) = 2 * e + 2 * d
      BY <1>1
    <3> HIDE DEF q, m, e
    <3>3. (2 * d) * q \in Int
      BY <2>6
    <3> DEFINE z == (2 * d) * q
    <3>4. z \in Int /\ z <= 2 * m + d /\ 2 * e + 2 * d <= z
      BY <2>6, <3>1, <3>2, <3>3
    <3> HIDE DEF z
    <3> QED BY <2>2, <3>4
  <2> HIDE DEF q
  <2> QED BY <1>1, <2>3, <2>6, <2>7 DEF Range0
<1> QED BY <1>2, <1>3

LEMMA OnlyIsPart ==
  ASSUME NEW n \in Features, NEW x \in Range0
  PROVE  IsPart(Only(n, x)) /\ DOMAIN Only(n, x) = {n}
  BY DEF IsPart, Only

LEMMA PartsTogether ==
  ASSUME NEW f, NEW g, IsPart(f), IsPart(g)
  PROVE  IsPart(f ++ g) /\ DOMAIN (f ++ g) = DOMAIN f \cup DOMAIN g
  BY DEF IsPart, ++

LEMMA TwoFeatures ==
  ASSUME NEW n \in Features, NEW m \in Features, NEW x \in Range0, NEW y \in Range0
  PROVE  IsPart(Only(n, x) ++ Only(m, y)) /\ DOMAIN (Only(n, x) ++ Only(m, y)) = {n, m}
<1>1. IsPart(Only(n, x)) /\ DOMAIN Only(n, x) = {n} /\ IsPart(Only(m, y)) /\ DOMAIN Only(m, y) = {m}
  BY OnlyIsPart
<1>2. DOMAIN (Only(n, x) ++ Only(m, y)) = DOMAIN Only(n, x) \cup DOMAIN Only(m, y)
  BY <1>1, PartsTogether
<1> QED BY <1>1, <1>2, PartsTogether

LEMMA PartOverVector ==
  ASSUME NEW f, IsPart(f), NEW w \in [Features -> Range0]
  PROVE  f ++ w \in [Features -> Range0]
<1>1. DOMAIN f \cup DOMAIN w = Features
  BY DEF IsPart
<1> QED BY <1>1 DEF IsPart, ++

LEMMA WholeVector ==
  ASSUME NEW f, NEW g, IsPart(f), IsPart(g), Features \subseteq DOMAIN f \cup DOMAIN g
  PROVE  f ++ g \in [Features -> Range0]
<1>1. DOMAIN f \cup DOMAIN g = Features
  BY DEF IsPart
<1> QED BY <1>1 DEF IsPart, ++

LEMMA FlagsInRange == 0 \in Range0 /\ Scale \in Range0 /\ -Scale \in Range0
  BY ParsingAssumption DEF Range0

-----------------------------------------------------------------------------
(* The fields, one by one.                                                 *)

LEMMA OneOfThree ==
  ASSUME NEW s, NEW a, NEW b, NEW c, NEW f
  PROVE  /\ f \in {s} \X {a, b, c} => f = <<s, a>> \/ f = <<s, b>> \/ f = <<s, c>>
         /\ f \in {s} \X {a, b} => f = <<s, a>> \/ f = <<s, b>>
  OBVIOUS

LEMMA FieldsAre ==
  \A f \in Fields :
    \/ f = <<"transaction", "amount">>
    \/ f = <<"transaction", "installments">>
    \/ f = <<"transaction", "requested_at">>
    \/ f = <<"customer", "avg_amount">>
    \/ f = <<"customer", "tx_count_24h">>
    \/ f = <<"customer", "known_merchants">>
    \/ f = <<"merchant", "id">>
    \/ f = <<"merchant", "mcc">>
    \/ f = <<"merchant", "avg_amount">>
    \/ f = <<"terminal", "is_online">>
    \/ f = <<"terminal", "card_present">>
    \/ f = <<"terminal", "km_from_home">>
    \/ f = <<"last_transaction", "timestamp">>
    \/ f = <<"last_transaction", "km_from_current">>
<1> SUFFICES ASSUME NEW f \in Fields
             PROVE
               \/ f = <<"transaction", "amount">>
               \/ f = <<"transaction", "installments">>
               \/ f = <<"transaction", "requested_at">>
               \/ f = <<"customer", "avg_amount">>
               \/ f = <<"customer", "tx_count_24h">>
               \/ f = <<"customer", "known_merchants">>
               \/ f = <<"merchant", "id">>
               \/ f = <<"merchant", "mcc">>
               \/ f = <<"merchant", "avg_amount">>
               \/ f = <<"terminal", "is_online">>
               \/ f = <<"terminal", "card_present">>
               \/ f = <<"terminal", "km_from_home">>
               \/ f = <<"last_transaction", "timestamp">>
               \/ f = <<"last_transaction", "km_from_current">>
  OBVIOUS
<1>1. \/ f \in {"transaction"} \X {"amount", "installments", "requested_at"}
      \/ f \in {"customer"} \X {"avg_amount", "tx_count_24h", "known_merchants"}
      \/ f \in {"merchant"} \X {"id", "mcc", "avg_amount"}
      \/ f \in {"terminal"} \X {"is_online", "card_present", "km_from_home"}
      \/ f \in {"last_transaction"} \X {"timestamp", "km_from_current"}
  BY DEF Fields
<1>2. CASE f \in {"transaction"} \X {"amount", "installments", "requested_at"}
  BY <1>2, OneOfThree
<1>3. CASE f \in {"customer"} \X {"avg_amount", "tx_count_24h", "known_merchants"}
  BY <1>3, OneOfThree
<1>4. CASE f \in {"merchant"} \X {"id", "mcc", "avg_amount"}
  BY <1>4, OneOfThree
<1>5. CASE f \in {"terminal"} \X {"is_online", "card_present", "km_from_home"}
  BY <1>5, OneOfThree
<1>6. CASE f \in {"last_transaction"} \X {"timestamp", "km_from_current"}
  BY <1>6, OneOfThree
<1> QED BY <1>1, <1>2, <1>3, <1>4, <1>5, <1>6


LEMMA FieldTypes ==
  /\ <<"transaction", "amount">> \in Fields /\ FieldType[<<"transaction", "amount">>] = "double"
  /\ <<"transaction", "installments">> \in Fields /\ FieldType[<<"transaction", "installments">>] = "int"
  /\ <<"transaction", "requested_at">> \in Fields /\ FieldType[<<"transaction", "requested_at">>] = "date"
  /\ <<"customer", "avg_amount">> \in Fields /\ FieldType[<<"customer", "avg_amount">>] = "double"
  /\ <<"customer", "tx_count_24h">> \in Fields /\ FieldType[<<"customer", "tx_count_24h">>] = "int"
  /\ <<"customer", "known_merchants">> \in Fields /\ FieldType[<<"customer", "known_merchants">>] = "list"
  /\ <<"merchant", "id">> \in Fields /\ FieldType[<<"merchant", "id">>] = "str"
  /\ <<"merchant", "mcc">> \in Fields /\ FieldType[<<"merchant", "mcc">>] = "str"
  /\ <<"merchant", "avg_amount">> \in Fields /\ FieldType[<<"merchant", "avg_amount">>] = "double"
  /\ <<"terminal", "is_online">> \in Fields /\ FieldType[<<"terminal", "is_online">>] = "bool"
  /\ <<"terminal", "card_present">> \in Fields /\ FieldType[<<"terminal", "card_present">>] = "bool"
  /\ <<"terminal", "km_from_home">> \in Fields /\ FieldType[<<"terminal", "km_from_home">>] = "double"
  /\ <<"last_transaction", "timestamp">> \in Fields /\ FieldType[<<"last_transaction", "timestamp">>] = "date"
  /\ <<"last_transaction", "km_from_current">> \in Fields /\ FieldType[<<"last_transaction", "km_from_current">>] = "double"
<1>1. <<"transaction", "amount">> \in Fields /\ FieldType[<<"transaction", "amount">>] = "double"
  BY DEF Fields, FieldType
<1>2. <<"transaction", "installments">> \in Fields /\ FieldType[<<"transaction", "installments">>] = "int"
  BY DEF Fields, FieldType
<1>3. <<"transaction", "requested_at">> \in Fields /\ FieldType[<<"transaction", "requested_at">>] = "date"
  BY DEF Fields, FieldType
<1>4. <<"customer", "avg_amount">> \in Fields /\ FieldType[<<"customer", "avg_amount">>] = "double"
  BY DEF Fields, FieldType
<1>5. <<"customer", "tx_count_24h">> \in Fields /\ FieldType[<<"customer", "tx_count_24h">>] = "int"
  BY DEF Fields, FieldType
<1>6. <<"customer", "known_merchants">> \in Fields /\ FieldType[<<"customer", "known_merchants">>] = "list"
  BY DEF Fields, FieldType
<1>7. <<"merchant", "id">> \in Fields /\ FieldType[<<"merchant", "id">>] = "str"
  BY DEF Fields, FieldType
<1>8. <<"merchant", "mcc">> \in Fields /\ FieldType[<<"merchant", "mcc">>] = "str"
  BY DEF Fields, FieldType
<1>9. <<"merchant", "avg_amount">> \in Fields /\ FieldType[<<"merchant", "avg_amount">>] = "double"
  BY DEF Fields, FieldType
<1>10. <<"terminal", "is_online">> \in Fields /\ FieldType[<<"terminal", "is_online">>] = "bool"
  BY DEF Fields, FieldType
<1>11. <<"terminal", "card_present">> \in Fields /\ FieldType[<<"terminal", "card_present">>] = "bool"
  BY DEF Fields, FieldType
<1>12. <<"terminal", "km_from_home">> \in Fields /\ FieldType[<<"terminal", "km_from_home">>] = "double"
  BY DEF Fields, FieldType
<1>13. <<"last_transaction", "timestamp">> \in Fields /\ FieldType[<<"last_transaction", "timestamp">>] = "date"
  BY DEF Fields, FieldType
<1>14. <<"last_transaction", "km_from_current">> \in Fields /\ FieldType[<<"last_transaction", "km_from_current">>] = "double"
  BY DEF Fields, FieldType
<1> QED BY <1>1, <1>2, <1>3, <1>4, <1>5, <1>6, <1>7, <1>8, <1>9, <1>10, <1>11, <1>12, <1>13, <1>14

LEMMA FeaturesByField ==
  ASSUME NEW v
  PROVE
  /\ FieldFeatures(<<"transaction", "amount">>, v) = Only(0, Quantize(v, 10000))
  /\ FieldFeatures(<<"transaction", "installments">>, v) = Only(1, Quantize(v, 12))
  /\ FieldFeatures(<<"transaction", "requested_at">>, v) = Only(3, Quantize(v.hour, 23)) ++ Only(4, Quantize(DayOfWeek(v), 6))
  /\ FieldFeatures(<<"customer", "avg_amount">>, v) = << >>
  /\ FieldFeatures(<<"customer", "tx_count_24h">>, v) = Only(8, Quantize(v, 20))
  /\ FieldFeatures(<<"customer", "known_merchants">>, v) = << >>
  /\ FieldFeatures(<<"merchant", "id">>, v) = << >>
  /\ FieldFeatures(<<"merchant", "mcc">>, v) = Only(12, Quantize(RiskOf(v), 100))
  /\ FieldFeatures(<<"merchant", "avg_amount">>, v) = Only(13, Quantize(v, 10000))
  /\ FieldFeatures(<<"terminal", "is_online">>, v) = Only(9, IF v THEN Scale ELSE 0)
  /\ FieldFeatures(<<"terminal", "card_present">>, v) = Only(10, IF v THEN Scale ELSE 0)
  /\ FieldFeatures(<<"terminal", "km_from_home">>, v) = Only(7, Quantize(v, 1000))
  /\ FieldFeatures(<<"last_transaction", "timestamp">>, v) = << >>
  /\ FieldFeatures(<<"last_transaction", "km_from_current">>, v) = << >>
<1>1. FieldFeatures(<<"transaction", "amount">>, v) = Only(0, Quantize(v, 10000))
  BY DEF FieldFeatures, TransactionFeatures
<1>2. FieldFeatures(<<"transaction", "installments">>, v) = Only(1, Quantize(v, 12))
  BY DEF FieldFeatures, TransactionFeatures
<1>3. FieldFeatures(<<"transaction", "requested_at">>, v) = Only(3, Quantize(v.hour, 23)) ++ Only(4, Quantize(DayOfWeek(v), 6))
  BY DEF FieldFeatures, TransactionFeatures
<1>4. FieldFeatures(<<"customer", "avg_amount">>, v) = << >>
  BY DEF FieldFeatures, CustomerFeatures
<1>5. FieldFeatures(<<"customer", "tx_count_24h">>, v) = Only(8, Quantize(v, 20))
  BY DEF FieldFeatures, CustomerFeatures
<1>6. FieldFeatures(<<"customer", "known_merchants">>, v) = << >>
  BY DEF FieldFeatures, CustomerFeatures
<1>7. FieldFeatures(<<"merchant", "id">>, v) = << >>
  BY DEF FieldFeatures, MerchantFeatures
<1>8. FieldFeatures(<<"merchant", "mcc">>, v) = Only(12, Quantize(RiskOf(v), 100))
  BY DEF FieldFeatures, MerchantFeatures
<1>9. FieldFeatures(<<"merchant", "avg_amount">>, v) = Only(13, Quantize(v, 10000))
  BY DEF FieldFeatures, MerchantFeatures
<1>10. FieldFeatures(<<"terminal", "is_online">>, v) = Only(9, IF v THEN Scale ELSE 0)
  BY DEF FieldFeatures, TerminalFeatures
<1>11. FieldFeatures(<<"terminal", "card_present">>, v) = Only(10, IF v THEN Scale ELSE 0)
  BY DEF FieldFeatures, TerminalFeatures
<1>12. FieldFeatures(<<"terminal", "km_from_home">>, v) = Only(7, Quantize(v, 1000))
  BY DEF FieldFeatures, TerminalFeatures
<1>13. FieldFeatures(<<"last_transaction", "timestamp">>, v) = << >>
  BY DEF FieldFeatures
<1>14. FieldFeatures(<<"last_transaction", "km_from_current">>, v) = << >>
  BY DEF FieldFeatures
<1> QED BY <1>1, <1>2, <1>3, <1>4, <1>5, <1>6, <1>7, <1>8, <1>9, <1>10, <1>11, <1>12, <1>13, <1>14

(* What a parser may keep for a field.                                     *)
IsRead(f, v) ==
  /\ FieldType[f] \in {"int", "double"} => v \in Int
  /\ FieldType[f] = "bool" => v \in BOOLEAN
  /\ FieldType[f] = "date" => v = NotADate \/ v \in Dates

LEMMA DateNumbers ==
  ASSUME NEW t \in Dates
  PROVE  t.hour \in Int /\ DayOfWeek(t) \in Int /\ EpochMinute(t) \in Int
<1>1. t.year \in Int /\ t.month \in Int /\ t.day \in Int /\ t.hour \in Int /\ t.minute \in Int
  BY DEF Dates
<1>2. DaysFromCivil(t) \in Int
  <2>1. MarchYear(t) \in Int
    BY <1>1 DEF MarchYear
  <2>2. Era(t) \in Int
    BY <2>1 DEF Era
  <2>3. YearOfEra(t) \in Int
    BY <2>1, <2>2 DEF YearOfEra
  <2>4. DayOfMarchYear(t) \in Int
    <3>1. \E m \in Int : DayOfMarchYear(t) = (153 * m + 2) \div 5 + t.day - 1
      <4> USE <1>1
      <4>1. CASE t.month > 2
        <5> WITNESS t.month - 3 \in Int
        <5> QED BY <4>1 DEF DayOfMarchYear
      <4>2. CASE ~(t.month > 2)
        <5> WITNESS t.month + 9 \in Int
        <5> QED BY <4>2 DEF DayOfMarchYear
      <4> QED BY <4>1, <4>2
    <3>2. PICK m \in Int : DayOfMarchYear(t) = (153 * m + 2) \div 5 + t.day - 1
      BY <3>1
    <3> QED BY <1>1, <3>2
  <2>5. DayOfEra(t) \in Int
    BY <2>3, <2>4 DEF DayOfEra
  <2> QED BY <2>2, <2>5 DEF DaysFromCivil
<1>3. DayOfWeek(t) \in Int
  BY <1>2 DEF DayOfWeek
<1>4. EpochMinute(t) \in Int
  BY <1>1, <1>2 DEF EpochMinute
<1> QED BY <1>1, <1>3, <1>4

LEMMA RiskIsInt == \A m : RiskOf(m) \in Int
  BY DEF RiskOf

LEMMA EmptyIsPart == IsPart(<< >>)
  BY DEF IsPart

(* The features that the fields of a kind write.                           *)
LEMMA FieldFeaturesArePart ==
  ASSUME NEW f \in Fields, NEW v, IsRead(f, v), FieldType[f] = "date" => v \in Dates
  PROVE  IsPart(FieldFeatures(f, v))
<1>1. CASE f = <<"transaction", "amount">>
  <2>1. v \in Int
    BY <1>1, FieldTypes DEF IsRead
  <2>2. Quantize(v, 10000) \in Range0
    BY <2>1, QuantizeInRange
  <2> QED BY <1>1, <2>2, FeaturesByField, OnlyIsPart DEF Features
<1>2. CASE f = <<"transaction", "installments">>
  <2>1. v \in Int
    BY <1>2, FieldTypes DEF IsRead
  <2>2. Quantize(v, 12) \in Range0
    BY <2>1, QuantizeInRange
  <2> QED BY <1>2, <2>2, FeaturesByField, OnlyIsPart DEF Features
<1>3. CASE f = <<"transaction", "requested_at">>
  <2>1. v \in Dates
    BY <1>3, FieldTypes
  <2>2. Quantize(v.hour, 23) \in Range0 /\ Quantize(DayOfWeek(v), 6) \in Range0
    BY <2>1, DateNumbers, QuantizeInRange
  <2>3. 3 \in Features /\ 4 \in Features
    BY DEF Features
  <2>4. IsPart(Only(3, Quantize(v.hour, 23)) ++ Only(4, Quantize(DayOfWeek(v), 6)))
    BY <2>2, <2>3, TwoFeatures
  <2> QED BY <1>3, <2>4, FeaturesByField
<1>4. CASE f = <<"customer", "avg_amount">>
  BY <1>4, FeaturesByField, EmptyIsPart
<1>5. CASE f = <<"customer", "tx_count_24h">>
  <2>1. v \in Int
    BY <1>5, FieldTypes DEF IsRead
  <2>2. Quantize(v, 20) \in Range0
    BY <2>1, QuantizeInRange
  <2> QED BY <1>5, <2>2, FeaturesByField, OnlyIsPart DEF Features
<1>6. CASE f = <<"customer", "known_merchants">>
  BY <1>6, FeaturesByField, EmptyIsPart
<1>7. CASE f = <<"merchant", "id">>
  BY <1>7, FeaturesByField, EmptyIsPart
<1>8. CASE f = <<"merchant", "mcc">>
  <2>1. Quantize(RiskOf(v), 100) \in Range0
    BY RiskIsInt, QuantizeInRange
  <2> QED BY <1>8, <2>1, FeaturesByField, OnlyIsPart DEF Features
<1>9. CASE f = <<"merchant", "avg_amount">>
  <2>1. v \in Int
    BY <1>9, FieldTypes DEF IsRead
  <2>2. Quantize(v, 10000) \in Range0
    BY <2>1, QuantizeInRange
  <2> QED BY <1>9, <2>2, FeaturesByField, OnlyIsPart DEF Features
<1>10. CASE f = <<"terminal", "is_online">>
  <2>1. (IF v THEN Scale ELSE 0) \in Range0
    BY FlagsInRange
  <2> QED BY <1>10, <2>1, FeaturesByField, OnlyIsPart DEF Features
<1>11. CASE f = <<"terminal", "card_present">>
  <2>1. (IF v THEN Scale ELSE 0) \in Range0
    BY FlagsInRange
  <2> QED BY <1>11, <2>1, FeaturesByField, OnlyIsPart DEF Features
<1>12. CASE f = <<"terminal", "km_from_home">>
  <2>1. v \in Int
    BY <1>12, FieldTypes DEF IsRead
  <2>2. Quantize(v, 1000) \in Range0
    BY <2>1, QuantizeInRange
  <2> QED BY <1>12, <2>2, FeaturesByField, OnlyIsPart DEF Features
<1>13. CASE f = <<"last_transaction", "timestamp">>
  BY <1>13, FeaturesByField, EmptyIsPart
<1>14. CASE f = <<"last_transaction", "km_from_current">>
  BY <1>14, FeaturesByField, EmptyIsPart
<1> QED BY FieldsAre, <1>1, <1>2, <1>3, <1>4, <1>5, <1>6, <1>7, <1>8, <1>9, <1>10, <1>11, <1>12, <1>13, <1>14

LEMMA RequiredAre ==
  /\ LastFields = {<<"last_transaction", "timestamp">>, <<"last_transaction", "km_from_current">>}
  /\ \A f \in Fields : f \in Required <=> f[1] # "last_transaction"
<1>1. \A f \in Fields : f[1] = "last_transaction" <=>
        f = <<"last_transaction", "timestamp">> \/ f = <<"last_transaction", "km_from_current">>
  <2> SUFFICES ASSUME NEW f \in Fields
               PROVE f[1] = "last_transaction" <=>
                       f = <<"last_transaction", "timestamp">> \/ f = <<"last_transaction", "km_from_current">>
    OBVIOUS
  <2> QED BY FieldsAre
<1> QED BY <1>1, FieldTypes DEF LastFields, Required, FieldsOf

(* What is read of a body when it is complete.                             *)
AllRead(w) ==
  /\ Required \subseteq DOMAIN w
  /\ \A f \in DOMAIN w : f \in Fields /\ IsRead(f, w[f])
  /\ \A f \in DOMAIN w : FieldType[f] = "date" => w[f] \in Dates

LEMMA LastFeaturesArePart ==
  ASSUME NEW w, AllRead(w)
  PROVE  IsPart(LastFeatures(w)) /\ DOMAIN LastFeatures(w) = {5, 6}
<1> DEFINE req == <<"transaction", "requested_at">>
           last == <<"last_transaction", "timestamp">>
           km == <<"last_transaction", "km_from_current">>
<1>1. CASE LastFields \subseteq DOMAIN w
  <2>1. req \in DOMAIN w /\ last \in DOMAIN w /\ km \in DOMAIN w
    BY <1>1, RequiredAre, FieldTypes DEF AllRead
  <2>2. w[req] \in Dates /\ w[last] \in Dates /\ w[km] \in Int
    BY <2>1, FieldTypes DEF AllRead, IsRead
  <2>3. EpochMinute(w[req]) \in Int /\ EpochMinute(w[last]) \in Int
    BY <2>2, DateNumbers
  <2>4. EpochMinute(w[req]) - EpochMinute(w[last]) \in Int
    BY <2>3
  <2>5. /\ Quantize(EpochMinute(w[req]) - EpochMinute(w[last]), 1440) \in Range0
        /\ Quantize(w[km], 1000) \in Range0
    BY <2>2, <2>4, QuantizeInRange
  <2>6. LastFeatures(w) = Only(5, Quantize(EpochMinute(w[req]) - EpochMinute(w[last]), 1440))
                            ++ Only(6, Quantize(w[km], 1000))
    BY <1>1 DEF LastFeatures
  <2>7. 5 \in Features /\ 6 \in Features
    BY DEF Features
  <2> DEFINE x == Quantize(EpochMinute(w[req]) - EpochMinute(w[last]), 1440)
             y == Quantize(w[km], 1000)
  <2>8. x \in Range0 /\ y \in Range0 /\ LastFeatures(w) = Only(5, x) ++ Only(6, y)
    BY <2>5, <2>6
  <2> HIDE DEF x, y
  <2>9. IsPart(Only(5, x) ++ Only(6, y)) /\ DOMAIN (Only(5, x) ++ Only(6, y)) = {5, 6}
    BY <2>7, <2>8, TwoFeatures
  <2> QED BY <2>8, <2>9
<1>2. CASE ~(LastFields \subseteq DOMAIN w)
  <2>1. LastFeatures(w) = Only(5, -Scale) ++ Only(6, -Scale)
    BY <1>2 DEF LastFeatures
  <2>2. 5 \in Features /\ 6 \in Features
    BY DEF Features
  <2>3. /\ IsPart(Only(5, -Scale) ++ Only(6, -Scale))
        /\ DOMAIN (Only(5, -Scale) ++ Only(6, -Scale)) = {5, 6}
    BY <2>2, FlagsInRange, TwoFeatures
  <2> QED BY <2>1, <2>3
<1> QED BY <1>1, <1>2

LEMMA FinishIsPart ==
  ASSUME NEW w, AllRead(w)
  PROVE  IsPart(FinishVector(w)) /\ DOMAIN FinishVector(w) = {2, 11}
<1> DEFINE amount == w[<<"transaction", "amount">>]
           avg == w[<<"customer", "avg_amount">>]
           ratio == IF avg > 0 THEN Quantize(amount, 10 * avg) ELSE Scale
           stranger == IF w[<<"merchant", "id">>] \in w[<<"customer", "known_merchants">>]
                       THEN 0 ELSE Scale
<1>1. amount \in Int /\ avg \in Int
  <2>1. /\ <<"transaction", "amount">> \in DOMAIN w
        /\ <<"customer", "avg_amount">> \in DOMAIN w
    BY RequiredAre, FieldTypes DEF AllRead
  <2> QED BY <2>1, FieldTypes DEF AllRead, IsRead
<1>2. ratio \in Range0
  <2>1. CASE avg > 0
    <3> HIDE DEF amount, avg
    <3>1. 10 * avg \in Nat \ {0}
      BY <1>1, <2>1
    <3> QED BY <1>1, <2>1, <3>1, QuantizeInRange
  <2>2. CASE ~(avg > 0)
    BY <2>2, FlagsInRange
  <2> QED BY <2>1, <2>2
<1>3. stranger \in Range0
  BY FlagsInRange
<1>4. FinishVector(w) = Only(2, ratio) ++ Only(11, stranger)
  BY Zenon DEF FinishVector
<1> HIDE DEF ratio, stranger
<1>5. 2 \in Features /\ 11 \in Features
  BY DEF Features
<1>6. /\ IsPart(Only(2, ratio) ++ Only(11, stranger))
      /\ DOMAIN (Only(2, ratio) ++ Only(11, stranger)) = {2, 11}
  BY <1>2, <1>3, <1>5, TwoFeatures
<1> QED BY <1>4, <1>6

LEMMA AcceptedVector ==
  ASSUME NEW w, AllRead(w), NEW o \in [Features -> Range0]
  PROVE  FinishVector(w) ++ LastFeatures(w) ++ o \in [Features -> Range0]
<1>1. IsPart(FinishVector(w) ++ LastFeatures(w))
  BY FinishIsPart, LastFeaturesArePart, PartsTogether
<1> HIDE DEF Range0
<1> QED BY <1>1, PartOverVector

LEMMA OnlyDomain ==
  ASSUME NEW n, NEW x
  PROVE  DOMAIN Only(n, x) = {n}
  BY DEF Only

LEMMA MergeDomain ==
  ASSUME NEW f, NEW g
  PROVE  DOMAIN (f ++ g) = DOMAIN f \cup DOMAIN g
  BY DEF ++

LEMMA TwoDomain ==
  ASSUME NEW n, NEW x, NEW m, NEW y
  PROVE  DOMAIN (Only(n, x) ++ Only(m, y)) = {n, m}
<1>1. DOMAIN Only(n, x) = {n} /\ DOMAIN Only(m, y) = {m}
  BY OnlyDomain
<1>2. DOMAIN (Only(n, x) ++ Only(m, y)) = DOMAIN Only(n, x) \cup DOMAIN Only(m, y)
  BY MergeDomain
<1> QED BY <1>1, <1>2

LEMMA FeatureDomains ==
  ASSUME NEW v
  PROVE 
  /\ DOMAIN FieldFeatures(<<"transaction", "amount">>, v) = {0}
  /\ DOMAIN FieldFeatures(<<"transaction", "installments">>, v) = {1}
  /\ DOMAIN FieldFeatures(<<"transaction", "requested_at">>, v) = {3, 4}
  /\ DOMAIN FieldFeatures(<<"customer", "tx_count_24h">>, v) = {8}
  /\ DOMAIN FieldFeatures(<<"merchant", "mcc">>, v) = {12}
  /\ DOMAIN FieldFeatures(<<"merchant", "avg_amount">>, v) = {13}
  /\ DOMAIN FieldFeatures(<<"terminal", "is_online">>, v) = {9}
  /\ DOMAIN FieldFeatures(<<"terminal", "card_present">>, v) = {10}
  /\ DOMAIN FieldFeatures(<<"terminal", "km_from_home">>, v) = {7}
<1>1. DOMAIN FieldFeatures(<<"transaction", "amount">>, v) = {0}
  <2>1. FieldFeatures(<<"transaction", "amount">>, v) = Only(0, Quantize(v, 10000))
    BY FeaturesByField
  <2>2. DOMAIN (Only(0, Quantize(v, 10000))) = {0}
    <3> DEFINE x == Quantize(v, 10000)
    <3> HIDE DEF x
    <3>1. DOMAIN Only(0, x) = {0}
      BY OnlyDomain
    <3> QED BY <3>1 DEF x
  <2> QED BY <2>1, <2>2
<1>2. DOMAIN FieldFeatures(<<"transaction", "installments">>, v) = {1}
  <2>1. FieldFeatures(<<"transaction", "installments">>, v) = Only(1, Quantize(v, 12))
    BY FeaturesByField
  <2>2. DOMAIN (Only(1, Quantize(v, 12))) = {1}
    <3> DEFINE x == Quantize(v, 12)
    <3> HIDE DEF x
    <3>1. DOMAIN Only(1, x) = {1}
      BY OnlyDomain
    <3> QED BY <3>1 DEF x
  <2> QED BY <2>1, <2>2
<1>3. DOMAIN FieldFeatures(<<"transaction", "requested_at">>, v) = {3, 4}
  <2>1. FieldFeatures(<<"transaction", "requested_at">>, v) = Only(3, Quantize(v.hour, 23)) ++ Only(4, Quantize(DayOfWeek(v), 6))
    BY FeaturesByField
  <2>2. DOMAIN (Only(3, Quantize(v.hour, 23)) ++ Only(4, Quantize(DayOfWeek(v), 6))) = {3, 4}
    <3> DEFINE x == Quantize(v.hour, 23)
               y == Quantize(DayOfWeek(v), 6)
    <3> HIDE DEF x, y
    <3>1. DOMAIN (Only(3, x) ++ Only(4, y)) = {3, 4}
      BY ZenonT(30), TwoDomain
    <3> QED BY <3>1 DEF x, y
  <2> QED BY <2>1, <2>2
<1>4. DOMAIN FieldFeatures(<<"customer", "tx_count_24h">>, v) = {8}
  <2>1. FieldFeatures(<<"customer", "tx_count_24h">>, v) = Only(8, Quantize(v, 20))
    BY FeaturesByField
  <2>2. DOMAIN (Only(8, Quantize(v, 20))) = {8}
    <3> DEFINE x == Quantize(v, 20)
    <3> HIDE DEF x
    <3>1. DOMAIN Only(8, x) = {8}
      BY OnlyDomain
    <3> QED BY <3>1 DEF x
  <2> QED BY <2>1, <2>2
<1>5. DOMAIN FieldFeatures(<<"merchant", "mcc">>, v) = {12}
  <2>1. FieldFeatures(<<"merchant", "mcc">>, v) = Only(12, Quantize(RiskOf(v), 100))
    BY FeaturesByField
  <2>2. DOMAIN (Only(12, Quantize(RiskOf(v), 100))) = {12}
    <3> DEFINE x == Quantize(RiskOf(v), 100)
    <3> HIDE DEF x
    <3>1. DOMAIN Only(12, x) = {12}
      BY OnlyDomain
    <3> QED BY <3>1 DEF x
  <2> QED BY <2>1, <2>2
<1>6. DOMAIN FieldFeatures(<<"merchant", "avg_amount">>, v) = {13}
  <2>1. FieldFeatures(<<"merchant", "avg_amount">>, v) = Only(13, Quantize(v, 10000))
    BY FeaturesByField
  <2>2. DOMAIN (Only(13, Quantize(v, 10000))) = {13}
    <3> DEFINE x == Quantize(v, 10000)
    <3> HIDE DEF x
    <3>1. DOMAIN Only(13, x) = {13}
      BY OnlyDomain
    <3> QED BY <3>1 DEF x
  <2> QED BY <2>1, <2>2
<1>7. DOMAIN FieldFeatures(<<"terminal", "is_online">>, v) = {9}
  <2>1. FieldFeatures(<<"terminal", "is_online">>, v) = Only(9, IF v THEN Scale ELSE 0)
    BY FeaturesByField
  <2>2. DOMAIN (Only(9, IF v THEN Scale ELSE 0)) = {9}
    <3> DEFINE x == IF v THEN Scale ELSE 0
    <3> HIDE DEF x
    <3>1. DOMAIN Only(9, x) = {9}
      BY OnlyDomain
    <3> QED BY <3>1 DEF x
  <2> QED BY <2>1, <2>2
<1>8. DOMAIN FieldFeatures(<<"terminal", "card_present">>, v) = {10}
  <2>1. FieldFeatures(<<"terminal", "card_present">>, v) = Only(10, IF v THEN Scale ELSE 0)
    BY FeaturesByField
  <2>2. DOMAIN (Only(10, IF v THEN Scale ELSE 0)) = {10}
    <3> DEFINE x == IF v THEN Scale ELSE 0
    <3> HIDE DEF x
    <3>1. DOMAIN Only(10, x) = {10}
      BY OnlyDomain
    <3> QED BY <3>1 DEF x
  <2> QED BY <2>1, <2>2
<1>9. DOMAIN FieldFeatures(<<"terminal", "km_from_home">>, v) = {7}
  <2>1. FieldFeatures(<<"terminal", "km_from_home">>, v) = Only(7, Quantize(v, 1000))
    BY FeaturesByField
  <2>2. DOMAIN (Only(7, Quantize(v, 1000))) = {7}
    <3> DEFINE x == Quantize(v, 1000)
    <3> HIDE DEF x
    <3>1. DOMAIN Only(7, x) = {7}
      BY OnlyDomain
    <3> QED BY <3>1 DEF x
  <2> QED BY <2>1, <2>2
<1> QED BY <1>1, <1>2, <1>3, <1>4, <1>5, <1>6, <1>7, <1>8, <1>9

(* The last parser writes every other feature at once.                     *)
LEMMA EveryFeatureIsPart ==
  ASSUME NEW w, AllRead(w)
  PROVE  /\ IsPart(EveryFieldFeature(w))
         /\ Features \ {2, 5, 6, 11} \subseteq DOMAIN EveryFieldFeature(w)
<1> DEFINE D == UNION {DOMAIN FieldFeatures(f, w[f]) : f \in Required}
           Of(n) == CHOOSE f \in Required : n \in DOMAIN FieldFeatures(f, w[f])
<1>1. EveryFieldFeature(w) = [n \in D |-> FieldFeatures(Of(n), w[Of(n)])[n]]
  BY Zenon DEF EveryFieldFeature
<1>2. \A f \in Required : IsPart(FieldFeatures(f, w[f]))
  <2> SUFFICES ASSUME NEW f \in Required PROVE IsPart(FieldFeatures(f, w[f]))
    OBVIOUS
  <2>1. f \in DOMAIN w
    BY DEF AllRead
  <2>2. f \in Fields /\ IsRead(f, w[f]) /\ (FieldType[f] = "date" => w[f] \in Dates)
    BY <2>1 DEF AllRead
  <2> QED BY <2>2, FieldFeaturesArePart
<1>3. \A n \in D : Of(n) \in Required /\ n \in DOMAIN FieldFeatures(Of(n), w[Of(n)])
  <2> SUFFICES ASSUME NEW n \in D
               PROVE  Of(n) \in Required /\ n \in DOMAIN FieldFeatures(Of(n), w[Of(n)])
    OBVIOUS
  <2>1. \E f \in Required : n \in DOMAIN FieldFeatures(f, w[f])
    OBVIOUS
  <2> QED BY <2>1, Zenon
<1>4. DOMAIN EveryFieldFeature(w) = D
  BY <1>1
<1> HIDE DEF Of
<1>5. \A n \in D : EveryFieldFeature(w)[n] = FieldFeatures(Of(n), w[Of(n)])[n]
  BY <1>1
<1>6. D \subseteq Features
  BY <1>2 DEF IsPart
<1>7. \A n \in D : EveryFieldFeature(w)[n] \in Range0
  BY <1>2, <1>3, <1>5 DEF IsPart
<1>8. Features \ {2, 5, 6, 11} \subseteq D
  <2>1. \A f \in Required : DOMAIN FieldFeatures(f, w[f]) \subseteq D
    OBVIOUS
  <2> HIDE DEF D
  <2>2. /\ <<"transaction", "amount">> \in Required /\ <<"transaction", "installments">> \in Required
        /\ <<"transaction", "requested_at">> \in Required /\ <<"customer", "tx_count_24h">> \in Required
        /\ <<"merchant", "mcc">> \in Required /\ <<"merchant", "avg_amount">> \in Required
        /\ <<"terminal", "is_online">> \in Required /\ <<"terminal", "card_present">> \in Required
        /\ <<"terminal", "km_from_home">> \in Required
    BY RequiredAre, FieldTypes
  <2>3. 0 \in D
    BY <2>1, <2>2, FeatureDomains
  <2>4. 1 \in D
    BY <2>1, <2>2, FeatureDomains
  <2>5. 3 \in D /\ 4 \in D
    BY <2>1, <2>2, FeatureDomains
  <2>6. 8 \in D
    BY <2>1, <2>2, FeatureDomains
  <2>7. 12 \in D
    BY <2>1, <2>2, FeatureDomains
  <2>8. 13 \in D
    BY <2>1, <2>2, FeatureDomains
  <2>9. 9 \in D
    BY <2>1, <2>2, FeatureDomains
  <2>10. 10 \in D
    BY <2>1, <2>2, FeatureDomains
  <2>11. 7 \in D
    BY <2>1, <2>2, FeatureDomains
  <2> QED BY <2>3, <2>4, <2>5, <2>6, <2>7, <2>8, <2>9, <2>10, <2>11 DEF Features
<1> HIDE DEF D
<1> QED BY <1>4, <1>6, <1>7, <1>8 DEF IsPart

LEMMA WrittenVector ==
  ASSUME NEW w, AllRead(w)
  PROVE  FinishVector(w) ++ LastFeatures(w) ++ EveryFieldFeature(w) \in [Features -> Range0]
<1> DEFINE f == FinishVector(w) ++ LastFeatures(w)
           g == EveryFieldFeature(w)
<1>1. IsPart(FinishVector(w)) /\ IsPart(LastFeatures(w))
  BY FinishIsPart, LastFeaturesArePart
<1>2. IsPart(f) /\ DOMAIN f = {2, 11} \cup {5, 6}
  <2>1. IsPart(f) /\ DOMAIN f = DOMAIN FinishVector(w) \cup DOMAIN LastFeatures(w)
    BY <1>1, PartsTogether
  <2> HIDE DEF f
  <2> QED BY <2>1, FinishIsPart, LastFeaturesArePart
<1>3. IsPart(g) /\ Features \ {2, 5, 6, 11} \subseteq DOMAIN g
  BY EveryFeatureIsPart
<1> HIDE DEF f, g, Range0
<1>4. Features \subseteq DOMAIN f \cup DOMAIN g
  BY <1>2, <1>3
<1> QED BY <1>2, <1>3, <1>4, WholeVector DEF f, g

-----------------------------------------------------------------------------
(* The sections of a body, token by token.                                 *)

LEMMA SectionSteps ==
  ASSUME NEW ts, NEW i \in Nat \ {0}
  PROVE  /\ SectionIn(ts, 1) = "top"
         /\ ts[i].kind = "open" => SectionIn(ts, i + 1) = ts[i].key
         /\ ts[i].kind = "close" => SectionIn(ts, i + 1) = "top"
         /\ ts[i].kind \notin {"open", "close"} => SectionIn(ts, i + 1) = SectionIn(ts, i)
<1> DEFINE B(n) == {j \in 1 .. n - 1 : ts[j].kind \in {"open", "close"}}
           L(n) == CHOOSE j \in B(n) : \A k \in B(n) : k <= j
<1>1. \A n \in Nat \ {0} :
        SectionIn(ts, n) = IF B(n) # {} /\ ts[L(n)].kind = "open" THEN ts[L(n)].key ELSE "top"
  BY Zenon DEF SectionIn
<1>2. B(1) = {}
  OBVIOUS
<1>3. SectionIn(ts, 1) = "top"
  <2> HIDE DEF B, L
  <2> QED BY <1>1, <1>2
<1>4. ASSUME ts[i].kind \in {"open", "close"}
      PROVE  L(i + 1) = i /\ i \in B(i + 1)
  <2>1. i \in B(i + 1) /\ B(i + 1) \subseteq 1 .. i
    BY <1>4
  <2> HIDE DEF B
  <2>2. L(i + 1) \in B(i + 1) /\ \A k \in B(i + 1) : k <= L(i + 1)
    <3>1. \E j \in B(i + 1) : \A k \in B(i + 1) : k <= j
      BY <2>1
    <3> QED BY <3>1, Zenon
  <2> HIDE DEF L
  <2> QED BY <2>1, <2>2
<1>5. ASSUME ts[i].kind \notin {"open", "close"} PROVE B(i + 1) = B(i)
  <2>1. \A j \in 1 .. i : ts[j].kind \in {"open", "close"} => j \in 1 .. i - 1
    BY <1>5
  <2>2. \A j \in 1 .. i - 1 : j \in 1 .. (i + 1) - 1
    OBVIOUS
  <2>3. (i + 1) - 1 = i
    OBVIOUS
  <2> QED BY <2>1, <2>2, <2>3
<1>6. i + 1 \in Nat \ {0} /\ i \in Nat \ {0}
  OBVIOUS
<1>7. ts[i].kind \in {"open", "close"} =>
        SectionIn(ts, i + 1) = IF ts[i].kind = "open" THEN ts[i].key ELSE "top"
  <2> SUFFICES ASSUME ts[i].kind \in {"open", "close"}
               PROVE  SectionIn(ts, i + 1) = IF ts[i].kind = "open" THEN ts[i].key ELSE "top"
    OBVIOUS
  <2>1. L(i + 1) = i /\ B(i + 1) # {}
    BY <1>4
  <2>2. SectionIn(ts, i + 1) = IF B(i + 1) # {} /\ ts[L(i + 1)].kind = "open"
                               THEN ts[L(i + 1)].key ELSE "top"
    BY <1>1, <1>6
  <2> HIDE DEF B, L
  <2> QED BY <2>1, <2>2
<1>8. ts[i].kind \notin {"open", "close"} => SectionIn(ts, i + 1) = SectionIn(ts, i)
  <2> SUFFICES ASSUME ts[i].kind \notin {"open", "close"}
               PROVE  SectionIn(ts, i + 1) = SectionIn(ts, i)
    OBVIOUS
  <2>1. B(i + 1) = B(i)
    BY <1>5
  <2>2. L(i + 1) = L(i)
    <3> HIDE DEF B
    <3> QED BY <2>1
  <2>3. /\ SectionIn(ts, i + 1) = IF B(i + 1) # {} /\ ts[L(i + 1)].kind = "open"
                                  THEN ts[L(i + 1)].key ELSE "top"
        /\ SectionIn(ts, i) = IF B(i) # {} /\ ts[L(i)].kind = "open" THEN ts[L(i)].key ELSE "top"
    BY <1>1, <1>6
  <2> HIDE DEF B, L
  <2> QED BY <2>1, <2>2, <2>3
<1> HIDE DEF B, L
<1> QED BY <1>3, <1>7, <1>8

-----------------------------------------------------------------------------
(* The inductive invariant.                                                *)

(* Where the parser stands, and what it has written.                       *)
ParserType ==
  /\ IsBody(body)
  /\ strategy \in {"compact", "single_pass", "serde"}
  /\ result \in {"running", "ok", "error"}
  /\ pos \in 1 .. Len(body.tokens) + 1
  /\ out \in [Features -> Range0]

(* A field that has been read occurs, and has a value of its type. Only    *)
(* the last parser keeps a date before it knows that it is one.            *)
ReadFromBody ==
  \A f \in DOMAIN vals :
    /\ f \in Fields /\ IsRead(f, vals[f])
    /\ strategy # "serde" /\ FieldType[f] = "date" => vals[f] \in Dates
    /\ Occurrences(f) # {}

(* The object the parser is in is the one that the body is in there, but   *)
(* for an object that is skipped.                                          *)
InPlace ==
  \/ section = SectionAt(pos) /\ section \notin {"skipped", "end"}
  \/ /\ section = "end" /\ strategy = "compact" /\ pos > 1
     /\ Tokens[pos - 1].kind = "close" /\ SectionAt(pos - 1) = "top"
  \/ /\ section = "skipped" /\ SectionAt(pos) # "top" /\ strategy # "compact"
     /\ strategy = "serde" => SectionAt(pos) \notin Sections

(* What the compact parser has behind it is in its order, up to the end of *)
(* a body where last_transaction is null.                                  *)
ReadInOrder ==
  strategy = "compact" =>
    \A j \in 1 .. pos - 1 :
      /\ \/ j <= Len(CompactOrder) /\ <<Tokens[j].kind, SectionAt(j), Tokens[j].key>> = CompactOrder[j]
         \/ j = LastPos /\ Tokens[j].kind = "field"
         \/ j = LastPos + 1 /\ Tokens[j].kind = "close" /\ SectionAt(j) = "top"
      /\ Tokens[j].kind = "field" /\ <<SectionAt(j), Tokens[j].key>> \in Fields =>
           <<SectionAt(j), Tokens[j].key>> \in DOMAIN vals

(* The single-pass parser has every field of last_transaction that is      *)
(* behind it, if their keys are spelled as in the code.                    *)
LastIsExact ==
  \A i \in Sectioned("last_transaction") \cup UNION {Occurrences(f) : f \in LastFields} :
    Tokens[i].exact

LastIsRead ==
  strategy = "single_pass" /\ LastIsExact =>
    /\ section = "skipped" => SectionAt(pos) # "last_transaction"
    /\ \A f \in LastFields : \A i \in Occurrences(f) : i < pos => f \in DOMAIN vals

(* The last parser leaves last_transaction only when both fields occur.    *)
LastIsWhole ==
  strategy = "serde" =>
    \A f \in LastFields : \A i \in Occurrences(f) :
      i < pos => \/ SectionAt(pos) = "last_transaction"
                 \/ \A g \in LastFields : Occurrences(g) # {}

ParserInv ==
  /\ ParserType
  /\ ReadFromBody
  /\ InPlace
  /\ ReadInOrder
  /\ LastIsRead
  /\ LastIsWhole
  /\ AcceptedIsComplete

-----------------------------------------------------------------------------
(* Values.                                                                 *)

LEMMA TypesAre ==
  ASSUME NEW f \in Fields
  PROVE  /\ FieldType[f] \in {"double", "int", "date", "str", "bool", "list"}
         /\ FieldType[f] = "date" => f[2] \in {"requested_at", "timestamp"}
<1>1. \/ FieldType[f] \in {"double", "int", "str", "bool", "list"}
      \/ f \in {<<"transaction", "requested_at">>, <<"last_transaction", "timestamp">>}
  BY FieldsAre, FieldTypes
<1>2. f \in {<<"transaction", "requested_at">>, <<"last_transaction", "timestamp">>} =>
        FieldType[f] = "date" /\ f[2] \in {"requested_at", "timestamp"}
  BY FieldTypes
<1> QED BY <1>1, <1>2

LEMMA WrapIsInt == ASSUME NEW n \in Int PROVE Wrap(n) \in Int
<1>1. IntMax \in Nat \ {0}
  BY ParsingAssumption
<1> DEFINE m == 2 * (IntMax + 1)
           k == n + IntMax + 1
<1>2. m \in Nat \ {0} /\ k \in Int
  BY <1>1
<1>3. Wrap(n) = (k % m) - IntMax - 1
  BY DEF Wrap
<1> HIDE DEF m, k
<1>4. k % m \in Int
  BY <1>2
<1> QED BY <1>1, <1>3, <1>4

(* The fast parsers and the last one keep what they can read.              *)
LEMMA BytesAreRead ==
  ASSUME NEW f \in Fields, NEW v, IsValue(f[2], v), v.kind = KindOf(FieldType[f]),
         FieldType[f] = "date" => v.raw # NotADate
  PROVE  IsRead(f, BytesOf(f, v)) /\ (FieldType[f] = "date" => BytesOf(f, v) \in Dates)
<1>1. CASE FieldType[f] = "int"
  <2>1. v.val \in Int
    BY <1>1 DEF KindOf, IsValue
  <2>2. BytesOf(f, v) = Wrap(v.val)
    BY <1>1 DEF BytesOf
  <2> QED BY <1>1, <2>1, <2>2, WrapIsInt DEF IsRead
<1>2. CASE FieldType[f] = "double"
  <2>1. v.val \in Int
    BY <1>2 DEF KindOf, IsValue
  <2>2. BytesOf(f, v) = v.val
    BY <1>2 DEF BytesOf
  <2> QED BY <1>2, <2>1, <2>2 DEF IsRead
<1>3. CASE FieldType[f] = "bool"
  <2>1. v.val \in BOOLEAN
    BY <1>3 DEF KindOf, IsValue
  <2>2. BytesOf(f, v) = v.val
    BY <1>3 DEF BytesOf
  <2> QED BY <1>3, <2>1, <2>2 DEF IsRead
<1>4. CASE FieldType[f] = "date"
  <2>1. v.kind = "str"
    BY <1>4 DEF KindOf
  <2>2. v.raw \in Dates
    BY <1>4, <2>1, TypesAre DEF IsValue
  <2>3. BytesOf(f, v) = v.raw
    BY <1>4 DEF BytesOf
  <2> QED BY <1>4, <2>2, <2>3 DEF IsRead
<1>5. CASE FieldType[f] \in {"str", "list"}
  BY <1>5 DEF IsRead
<1> QED BY TypesAre, <1>1, <1>2, <1>3, <1>4, <1>5

LEMMA SerdeIsRead ==
  ASSUME NEW f \in Fields, NEW v, IsValue(f[2], v), SerdeReads(f, v)
  PROVE  IsRead(f, SerdeValue(f, v))
<1>0. v.kind = KindOf(FieldType[f])
  BY DEF SerdeReads
<1>1. CASE FieldType[f] \in {"int", "double"}
  <2>1. v.val \in Int
    BY <1>0, <1>1 DEF KindOf, IsValue
  <2>2. SerdeValue(f, v) = v.val
    BY <1>1 DEF SerdeValue
  <2> QED BY <1>1, <2>1, <2>2 DEF IsRead
<1>2. CASE FieldType[f] = "bool"
  <2>1. v.val \in BOOLEAN
    BY <1>0, <1>2 DEF KindOf, IsValue
  <2>2. SerdeValue(f, v) = v.val
    BY <1>2 DEF SerdeValue
  <2> QED BY <1>2, <2>1, <2>2 DEF IsRead
<1>3. CASE FieldType[f] = "date"
  <2>1. v.kind = "str"
    BY <1>0, <1>3 DEF KindOf
  <2>2. v.text = NotADate \/ v.text \in Dates
    BY <1>3, <2>1, TypesAre DEF IsValue
  <2>3. SerdeValue(f, v) = v.text
    BY <1>3 DEF SerdeValue
  <2> QED BY <1>3, <2>2, <2>3 DEF IsRead
<1>4. CASE FieldType[f] \in {"str", "list"}
  BY <1>4 DEF IsRead
<1> QED BY TypesAre, <1>1, <1>2, <1>3, <1>4

-----------------------------------------------------------------------------
(* One token.                                                              *)

LEMMA SameBody ==
  ASSUME body' = body
  PROVE  /\ Tokens' = Tokens
         /\ \A i : SectionAt(i)' = SectionAt(i)
         /\ \A f : Occurrences(f)' = Occurrences(f)
         /\ LastIsExact' = LastIsExact
<1>1. Tokens' = Tokens
  BY DEF Tokens
<1>2. \A i : SectionAt(i)' = SectionAt(i)
  BY <1>1 DEF SectionAt
<1>3. \A f : Occurrences(f)' = Occurrences(f)
  BY <1>1, <1>2 DEF Occurrences, Positions
<1>4. Sectioned("last_transaction")' = Sectioned("last_transaction")
  BY <1>1 DEF Sectioned, Positions
<1>5. LastIsExact' = LastIsExact
  BY <1>1, <1>3, <1>4 DEF LastIsExact
<1> QED BY <1>1, <1>2, <1>3, <1>5

LEMMA TokenFacts ==
  ASSUME ParserType, InPlace, More
  PROVE  /\ Len(Tokens) \in Nat /\ pos \in 1 .. Len(Tokens) /\ DOMAIN Tokens = 1 .. Len(Tokens)
         /\ pos + 1 \in 1 .. Len(Tokens) + 1
         /\ Token = Tokens[pos] /\ Token.kind \in {"open", "field", "close"}
         /\ Token.kind = "open" => /\ SectionAt(pos) = "top" /\ SectionAt(pos + 1) = Token.key
                                   /\ Token.key \notin {"top", "skipped", "end"}
         /\ Token.kind = "field" => SectionAt(pos + 1) = SectionAt(pos) /\ IsValue(Token.key, Token.value)
         /\ Token.kind = "close" => SectionAt(pos + 1) = "top"
         /\ Token.kind = "close" /\ SectionAt(pos) = "top" => pos = Len(Tokens)
         /\ IsField => section = SectionAt(pos) /\ pos \in Occurrences(Path)
<1> DEFINE S == {Tokens[i] : i \in DOMAIN Tokens}
<1>1. /\ Tokens \in Seq(S) /\ pos \in 1 .. Len(Tokens) + 1 /\ pos <= Len(Tokens)
  BY DEF ParserType, IsBody, More, Tokens
<1> HIDE DEF S
<1>2. Len(Tokens) \in Nat /\ DOMAIN Tokens = 1 .. Len(Tokens) /\ pos \in 1 .. Len(Tokens)
  BY <1>1
<1>3. Token = Tokens[pos]
  BY DEF Token, Tokens
<1>4. /\ Token.kind \in {"open", "field", "close"}
      /\ Token.kind = "open" => SectionAt(pos) = "top" /\ Token.key \notin {"top", "skipped", "end"}
      /\ Token.kind = "close" /\ SectionAt(pos) = "top" => pos = Len(Tokens)
      /\ Token.kind = "field" => IsValue(Token.key, Token.value)
  BY <1>2, <1>3 DEF ParserType, IsBody, SectionAt, Tokens
<1>5. pos \in Nat \ {0}
  BY <1>2
<1>6. /\ Token.kind = "open" => SectionAt(pos + 1) = Token.key
      /\ Token.kind = "close" => SectionAt(pos + 1) = "top"
      /\ Token.kind = "field" => SectionAt(pos + 1) = SectionAt(pos)
  BY <1>3, <1>5, SectionSteps DEF SectionAt
<1>7. ASSUME IsField PROVE section = SectionAt(pos) /\ pos \in Occurrences(Path)
  <2>1. Token.kind = "field" /\ Path \in Fields
    BY <1>7 DEF IsField
  <2>2. section \notin {"skipped", "end"}
    <3>1. Path[1] = section
      BY DEF Path
    <3>2. Path[1] \in {"transaction", "customer", "merchant", "terminal", "last_transaction"}
      BY <2>1, FieldsAre
    <3> QED BY <3>1, <3>2
  <2>3. section = SectionAt(pos)
    BY <2>2 DEF InPlace
  <2> QED BY <1>2, <1>3, <2>1, <2>3 DEF Occurrences, Positions, Path
<1>8. pos + 1 \in 1 .. Len(Tokens) + 1
  BY <1>2
<1>9. /\ Token.kind = "open" => /\ SectionAt(pos) = "top" /\ SectionAt(pos + 1) = Token.key
                                /\ Token.key \notin {"top", "skipped", "end"}
      /\ Token.kind = "field" => SectionAt(pos + 1) = SectionAt(pos) /\ IsValue(Token.key, Token.value)
      /\ Token.kind = "close" => SectionAt(pos + 1) = "top"
      /\ Token.kind = "close" /\ SectionAt(pos) = "top" => pos = Len(Tokens)
  BY <1>4, <1>6
<1>10. IsField => section = SectionAt(pos) /\ pos \in Occurrences(Path)
  BY <1>7
<1> QED BY <1>2, <1>3, <1>4, <1>8, <1>9, <1>10

LEMMA KeepField ==
  ASSUME ParserType, InPlace, ReadFromBody, More, IsField, body' = body, strategy' = strategy,
         NEW v, IsRead(Path, v), strategy # "serde" /\ FieldType[Path] = "date" => v \in Dates,
         vals' = Only(Path, v) ++ vals
  PROVE  ReadFromBody' /\ DOMAIN vals' = DOMAIN vals \cup {Path}
<1> PICK p : p = Path
  OBVIOUS
<1>1. p \in Fields /\ Occurrences(p) # {}
  BY TokenFacts DEF IsField
<1>2. DOMAIN Only(p, v) = {p} /\ Only(p, v)[p] = v
  BY DEF Only
<1> PICK o : o = Only(p, v)
  OBVIOUS
<1>3. vals' = [f \in {p} \cup DOMAIN vals |-> IF f \in {p} THEN v ELSE vals[f]]
  <2>1. vals' = [f \in DOMAIN o \cup DOMAIN vals |-> IF f \in DOMAIN o THEN o[f] ELSE vals[f]]
    BY DEF ++
  <2> QED BY <1>2, <2>1
<1>4. DOMAIN vals' = DOMAIN vals \cup {p} /\ vals'[p] = v /\ \A f \in DOMAIN vals \ {p} : vals'[f] = vals[f]
  BY <1>3
<1>5. \A f : Occurrences(f)' = Occurrences(f)
  BY SameBody
<1>6. IsRead(p, v) /\ (strategy # "serde" /\ FieldType[p] = "date" => v \in Dates)
  OBVIOUS
<1>7. \A f \in DOMAIN vals' :
        /\ f \in Fields /\ IsRead(f, vals'[f])
        /\ strategy' # "serde" /\ FieldType[f] = "date" => vals'[f] \in Dates
        /\ Occurrences(f) # {}
  <2> SUFFICES ASSUME NEW f \in DOMAIN vals'
               PROVE  /\ f \in Fields /\ IsRead(f, vals'[f])
                      /\ strategy' # "serde" /\ FieldType[f] = "date" => vals'[f] \in Dates
                      /\ Occurrences(f) # {}
    OBVIOUS
  <2>1. CASE f = p
    BY <1>1, <1>4, <1>6, <2>1
  <2>2. CASE f # p
    <3>1. f \in DOMAIN vals /\ vals'[f] = vals[f]
      BY <1>4, <2>2
    <3> QED BY <3>1 DEF ReadFromBody
  <2> QED BY <2>1, <2>2
<1> QED BY <1>4, <1>5, <1>7 DEF ReadFromBody

LEMMA KeepFewer ==
  ASSUME ReadFromBody, body' = body, strategy' = strategy,
         DOMAIN vals' \subseteq DOMAIN vals, \A f \in DOMAIN vals' : vals'[f] = vals[f]
  PROVE  ReadFromBody'
<1>1. \A f : Occurrences(f)' = Occurrences(f)
  BY SameBody
<1>2. \A f \in DOMAIN vals' :
        /\ f \in Fields /\ IsRead(f, vals'[f])
        /\ strategy' # "serde" /\ FieldType[f] = "date" => vals'[f] \in Dates
        /\ Occurrences(f) # {}
  <2> SUFFICES ASSUME NEW f \in DOMAIN vals'
               PROVE  /\ f \in Fields /\ IsRead(f, vals'[f])
                      /\ strategy' # "serde" /\ FieldType[f] = "date" => vals'[f] \in Dates
                      /\ Occurrences(f) # {}
    OBVIOUS
  <2>1. f \in DOMAIN vals /\ vals'[f] = vals[f]
    OBVIOUS
  <2> QED BY <2>1 DEF ReadFromBody
<1> QED BY <1>1, <1>2 DEF ReadFromBody

(* A parser that is about to read the first token.                         *)
Fresh ==
  /\ IsBody(body)
  /\ strategy \in {"compact", "single_pass", "serde"} /\ result = "running"
  /\ pos = 1 /\ section = "top" /\ vals = << >>
  /\ out = [f \in Features |-> 0]

LEMMA AtStart == Fresh => ParserInv
<1> SUFFICES ASSUME Fresh PROVE ParserInv
  OBVIOUS
<1> USE DEF Fresh
<1>1. Len(body.tokens) \in Nat
  BY DEF IsBody
<1>2. out \in [Features -> Range0]
  BY FlagsInRange
<1>3. ParserType
  BY <1>1, <1>2 DEF ParserType
<1>4. DOMAIN vals = {}
  OBVIOUS
<1>5. SectionAt(1) = "top"
  BY SectionSteps DEF SectionAt
<1>6. InPlace
  BY <1>5 DEF InPlace
<1>7. ReadFromBody
  BY <1>4 DEF ReadFromBody
<1>8. ReadInOrder
  BY DEF ReadInOrder
<1>9. \A f : \A i \in Occurrences(f) : ~(i < pos)
  <2> SUFFICES ASSUME NEW f, NEW i \in Occurrences(f), i < pos PROVE FALSE
    OBVIOUS
  <2>1. DOMAIN Tokens = 1 .. Len(Tokens) /\ Len(Tokens) \in Nat
    BY DEF IsBody, Tokens
  <2>2. i \in 1 .. Len(Tokens)
    BY <2>1 DEF Occurrences, Positions
  <2> QED BY <2>1, <2>2
<1>10. LastIsRead /\ LastIsWhole
  BY <1>9 DEF LastIsRead, LastIsWhole
<1>11. AcceptedIsComplete
  BY DEF AcceptedIsComplete
<1> QED BY <1>3, <1>6, <1>7, <1>8, <1>10, <1>11 DEF ParserInv

LEMMA StartInv ==
  ASSUME NEW b, IsBody(b), Start(b)
  PROVE  ParserInv
<1>1. IsBody(body) /\ strategy = "compact" /\ pos = 1 /\ section = "top" /\ vals = << >>
      /\ out = [f \in Features |-> 0] /\ result = "running"
  BY DEF Start
<1> QED BY <1>1, AtStart DEF Fresh

LEMMA RestartStep ==
  ASSUME ParserInv, NEW s \in {"single_pass", "serde"}, result = "running", TryNext(s)
  PROVE  ParserInv'
<1>1. /\ body' = body /\ strategy' = s /\ pos' = 1 /\ section' = "top" /\ vals' = << >>
      /\ out' = [f \in Features |-> 0] /\ result' = "running" /\ IsBody(body')
  BY DEF TryNext, ParserInv, ParserType
<1>2. Fresh'
  BY <1>1 DEF Fresh
<1> QED BY <1>2, AtStart, PTL

-----------------------------------------------------------------------------
(* The steps.                                                              *)

LEMMA AdvanceType ==
  ASSUME ParserType, InPlace, More, Advance, out' \in [Features -> Range0]
  PROVE  /\ ParserType' /\ pos' = pos + 1 /\ body' = body /\ strategy' = strategy /\ result' = result
         /\ pos' \in Nat /\ pos' - 1 = pos
<1>1. pos' = pos + 1 /\ body' = body /\ strategy' = strategy /\ result' = result
  BY DEF Advance
<1>2. pos + 1 \in 1 .. Len(Tokens) + 1 /\ pos \in 1 .. Len(Tokens)
  BY TokenFacts
<1>3. Len(Tokens) = Len(body.tokens)
  BY DEF Tokens
<1>4. ParserType'
  BY <1>1, <1>2, <1>3 DEF ParserType, Range0
<1> QED BY <1>1, <1>2, <1>4

(* What a fast parser writes for the field it reads.                       *)
LEMMA FieldWritten ==
  ASSUME ParserType, InPlace, More, IsField,
         Token.value.kind = KindOf(FieldType[Path]),
         FieldType[Path] = "date" => Token.value.raw # NotADate,
         out' = FieldFeatures(Path, BytesOf(Path, Token.value)) ++ out
  PROVE  /\ out' \in [Features -> Range0]
         /\ IsRead(Path, BytesOf(Path, Token.value))
         /\ FieldType[Path] = "date" => BytesOf(Path, Token.value) \in Dates
<1> PICK p, t : p = Path /\ t = Token.value
  OBVIOUS
<1>1. p \in Fields /\ IsValue(p[2], t)
  <2>1. Token.kind = "field" /\ Path \in Fields
    BY DEF IsField
  <2>2. IsValue(Token.key, Token.value)
    BY <2>1, TokenFacts
  <2> QED BY <2>1, <2>2 DEF Path
<1>2. IsRead(p, BytesOf(p, t)) /\ (FieldType[p] = "date" => BytesOf(p, t) \in Dates)
  BY <1>1, BytesAreRead
<1>3. IsPart(FieldFeatures(p, BytesOf(p, t)))
  BY <1>1, <1>2, FieldFeaturesArePart
<1>4. out \in [Features -> Range0]
  BY DEF ParserType
<1> HIDE DEF Range0
<1>5. FieldFeatures(p, BytesOf(p, t)) ++ out \in [Features -> Range0]
  BY <1>3, <1>4, PartOverVector
<1> QED BY <1>2, <1>5

LEMMA CompactStepInv ==
  ASSUME ParserInv, CompactStep
  PROVE  ParserInv'
<1>1. /\ ParserType /\ InPlace /\ ReadFromBody /\ ReadInOrder
      /\ strategy = "compact" /\ result = "running" /\ section # "end" /\ More /\ Advance
      /\ CompactTakes /\ section' = SectionAfter(Token)
  BY DEF ParserInv, CompactStep, Running
<1>2. /\ out' \in [Features -> Range0] /\ ReadFromBody' /\ DOMAIN vals \subseteq DOMAIN vals'
      /\ IsField => Path \in DOMAIN vals'
  <2>1. CASE IsField
    <3>1. /\ Token.value.kind = KindOf(FieldType[Path])
          /\ FieldType[Path] = "date" => Token.value.raw # NotADate
      BY <1>1, <2>1 DEF CompactTakes, CompactReads
    <3>2. /\ vals' = Only(Path, BytesOf(Path, Token.value)) ++ vals
          /\ out' = FieldFeatures(Path, BytesOf(Path, Token.value)) ++ out
      BY <2>1 DEF CompactStep
    <3>3. /\ out' \in [Features -> Range0]
          /\ IsRead(Path, BytesOf(Path, Token.value))
          /\ FieldType[Path] = "date" => BytesOf(Path, Token.value) \in Dates
      BY <1>1, <2>1, <3>1, <3>2, FieldWritten
    <3>4. ReadFromBody' /\ DOMAIN vals' = DOMAIN vals \cup {Path}
      BY <1>1, <2>1, <3>2, <3>3, KeepField DEF Advance
    <3> QED BY <3>3, <3>4
  <2>2. CASE ~IsField
    <3>1. vals' = vals /\ out' = out
      BY <2>2 DEF CompactStep
    <3>2. ReadFromBody'
      BY <1>1, <3>1, KeepFewer DEF Advance
    <3> QED BY <1>1, <2>2, <3>1, <3>2 DEF ParserType, Range0
  <2> QED BY <2>1, <2>2
<1>3. /\ ParserType' /\ pos' = pos + 1 /\ body' = body /\ strategy' = "compact" /\ result' = "running"
      /\ pos' - 1 = pos /\ pos' \in Nat
  BY <1>1, <1>2, AdvanceType
<1>4. /\ pos \in 1 .. Len(Tokens) /\ Token = Tokens[pos] /\ Token.kind \in {"open", "field", "close"}
      /\ Token.kind = "open" => SectionAt(pos + 1) = Token.key /\ Token.key \notin {"top", "skipped", "end"}
      /\ Token.kind = "field" => SectionAt(pos + 1) = SectionAt(pos)
      /\ Token.kind = "close" => SectionAt(pos + 1) = "top"
  BY <1>1, TokenFacts
<1>5. section = SectionAt(pos) /\ section \notin {"skipped", "end"}
  BY <1>1 DEF InPlace
<1>6. /\ Tokens' = Tokens
      /\ \A i : SectionAt(i)' = SectionAt(i)
  BY <1>3, SameBody
<1>7. SectionAt(pos)' = SectionAt(pos + 1)
  BY <1>3, <1>6 DEF SectionAt
<1>8. InPlace'
  <2>1. CASE Token.kind = "close" /\ section = "top"
    <3>1. section' = "end"
      BY <1>1, <2>1 DEF SectionAfter
    <3>2. /\ pos' > 1 /\ Tokens'[pos' - 1].kind = "close" /\ SectionAt(pos - 1)' = "top"
      <4>1. SectionAt(pos - 1)' = SectionAt(pos)
        BY <1>3, <1>6 DEF SectionAt
      <4> QED BY <1>3, <1>4, <1>5, <1>6, <2>1, <4>1
    <3> QED BY <1>3, <3>1, <3>2 DEF InPlace
  <2>2. CASE Token.kind = "close" /\ section # "top"
    <3>1. section' = "top" /\ SectionAt(pos)' = "top"
      BY <1>1, <1>4, <1>7, <2>2 DEF SectionAfter
    <3> QED BY <3>1 DEF InPlace
  <2>3. CASE Token.kind = "open"
    <3>1. section' = Token.key /\ SectionAt(pos)' = Token.key
      BY <1>1, <1>4, <1>7, <2>3 DEF SectionAfter
    <3> QED BY <1>4, <2>3, <3>1 DEF InPlace
  <2>4. CASE Token.kind = "field"
    <3>1. section' = section /\ SectionAt(pos)' = section
      BY <1>1, <1>4, <1>5, <1>7, <2>4 DEF SectionAfter
    <3> QED BY <1>5, <3>1 DEF InPlace
  <2> QED BY <1>4, <2>1, <2>2, <2>3, <2>4
<1> DEFINE InOrder(j) ==
      \/ j <= Len(CompactOrder) /\ <<Tokens[j].kind, SectionAt(j), Tokens[j].key>> = CompactOrder[j]
      \/ j = LastPos /\ Tokens[j].kind = "field"
      \/ j = LastPos + 1 /\ Tokens[j].kind = "close" /\ SectionAt(j) = "top"
<1>9. InOrder(pos)
  <2>1. CompactExpects
    BY <1>1 DEF CompactTakes
  <2>2. CASE pos <= Len(CompactOrder) /\ <<Token.kind, section, Token.key>> = CompactOrder[pos]
    BY <1>4, <1>5, <2>2
  <2>3. CASE pos = LastPos /\ IsNull
    BY <1>4, <2>3 DEF IsNull
  <2>4. CASE pos = LastPos + 1 /\ section = "top" /\ Token.kind = "close"
    BY <1>4, <1>5, <2>4
  <2> QED BY <2>1, <2>2, <2>3, <2>4 DEF CompactExpects
<1>10. Tokens[pos].kind = "field" /\ <<SectionAt(pos), Tokens[pos].key>> \in Fields =>
         <<SectionAt(pos), Tokens[pos].key>> \in DOMAIN vals'
  <2>1. Path = <<SectionAt(pos), Tokens[pos].key>>
    BY <1>4, <1>5 DEF Path
  <2> QED BY <1>2, <1>4, <2>1 DEF IsField
<1>11. \A j \in 1 .. pos - 1 :
         InOrder(j) /\ (Tokens[j].kind = "field" /\ <<SectionAt(j), Tokens[j].key>> \in Fields =>
                          <<SectionAt(j), Tokens[j].key>> \in DOMAIN vals)
  BY <1>1 DEF ReadInOrder
<1> HIDE DEF InOrder
<1>12. \A j \in 1 .. pos :
         InOrder(j) /\ (Tokens[j].kind = "field" /\ <<SectionAt(j), Tokens[j].key>> \in Fields =>
                          <<SectionAt(j), Tokens[j].key>> \in DOMAIN vals')
  <2> SUFFICES ASSUME NEW j \in 1 .. pos
               PROVE  InOrder(j) /\ (Tokens[j].kind = "field" /\ <<SectionAt(j), Tokens[j].key>> \in Fields =>
                                       <<SectionAt(j), Tokens[j].key>> \in DOMAIN vals')
    OBVIOUS
  <2>1. CASE j = pos
    BY <1>9, <1>10, <2>1
  <2>2. CASE j # pos
    <3>1. j \in 1 .. pos - 1
      BY <1>4, <2>2
    <3> QED BY <1>2, <1>11, <3>1
  <2> QED BY <2>1, <2>2
<1>13. ReadInOrder'
  BY <1>3, <1>6, <1>12 DEF ReadInOrder, InOrder
<1>14. LastIsRead' /\ LastIsWhole' /\ AcceptedIsComplete'
  BY <1>3 DEF LastIsRead, LastIsWhole, AcceptedIsComplete
<1> QED BY <1>2, <1>3, <1>8, <1>13, <1>14 DEF ParserInv

(* What is behind the parser after one more token.                         *)
LEMMA OneMore ==
  ASSUME ParserType, InPlace, More, NEW f, NEW i \in Occurrences(f), i < pos + 1
  PROVE  \/ i < pos
         \/ i = pos /\ Token.kind = "field" /\ f = <<SectionAt(pos), Token.key>>
<1>1. pos \in 1 .. Len(Tokens) /\ Len(Tokens) \in Nat /\ DOMAIN Tokens = 1 .. Len(Tokens) /\ Token = Tokens[pos]
  BY TokenFacts
<1>2. i \in 1 .. Len(Tokens) /\ Tokens[i].kind = "field" /\ <<SectionAt(i), Tokens[i].key>> = f
  BY <1>1 DEF Occurrences, Positions
<1>3. i < pos \/ i = pos
  BY <1>1, <1>2
<1> QED BY <1>1, <1>2, <1>3

LEMMA LastFieldsAre ==
  /\ LastFields = {<<"last_transaction", "timestamp">>, <<"last_transaction", "km_from_current">>}
  /\ FieldsOf("last_transaction") = LastFields
  /\ "last_transaction" \in Sections
  /\ \A f \in LastFields : f \in Fields /\ f[1] = "last_transaction"
<1>1. FieldsOf("last_transaction") = LastFields
  BY DEF LastFields
<1>2. \A f \in LastFields : f \in Fields /\ f[1] = "last_transaction"
  BY DEF LastFields, FieldsOf
<1>3. <<"last_transaction", "timestamp">> \in Fields
  BY FieldTypes
<1>4. "last_transaction" \in Sections
  <2>1. <<"last_transaction", "timestamp">>[1] \in Sections
    BY <1>3 DEF Sections
  <2> QED BY <2>1
<1>5. LastFields = {<<"last_transaction", "timestamp">>, <<"last_transaction", "km_from_current">>}
  BY RequiredAre
<1> QED BY <1>1, <1>2, <1>4, <1>5

LEMMA SingleOpenInv ==
  ASSUME ParserInv, SingleOpen
  PROVE  ParserInv'
<1>1. /\ ParserType /\ InPlace /\ ReadFromBody /\ LastIsRead
      /\ strategy = "single_pass" /\ result = "running" /\ More /\ Advance
      /\ Token.kind = "open" /\ section = "top" /\ vals' = vals /\ out' = out
      /\ section' = IF SkipsObject THEN "skipped" ELSE Token.key
  BY DEF ParserInv, SingleOpen, Running, Opens
<1>2. /\ ParserType' /\ pos' = pos + 1 /\ body' = body /\ strategy' = "single_pass" /\ result' = "running"
  BY <1>1, AdvanceType DEF ParserType
<1>3. ReadFromBody'
  BY <1>1, <1>2, KeepFewer
<1>4. /\ SectionAt(pos + 1) = Token.key /\ Token.key \notin {"top", "skipped", "end"}
      /\ pos \in 1 .. Len(Tokens) /\ DOMAIN Tokens = 1 .. Len(Tokens) /\ Token = Tokens[pos]
  BY <1>1, TokenFacts
<1>5. /\ \A f : Occurrences(f)' = Occurrences(f)
      /\ SectionAt(pos)' = SectionAt(pos + 1)
      /\ LastIsExact' = LastIsExact
  <2>1. (\A i : SectionAt(i)' = SectionAt(i)) /\ Tokens' = Tokens
    BY <1>2, SameBody
  <2> QED BY <1>2, <2>1, SameBody DEF SectionAt
<1>6. InPlace'
  BY <1>1, <1>2, <1>4, <1>5 DEF InPlace
<1>7. ASSUME LastIsExact, section' = "skipped" PROVE SectionAt(pos + 1) # "last_transaction"
  <2>1. SUFFICES ASSUME Token.key = "last_transaction" PROVE FALSE
    BY <1>4
  <2>2. pos \in Sectioned("last_transaction")
    BY <1>1, <1>4, <2>1 DEF Sectioned, Positions
  <2>3. Token.exact
    BY <1>4, <1>7, <2>2 DEF LastIsExact
  <2>4. ~SkipsObject
    BY <2>1, <2>3, LastFieldsAre DEF SkipsObject
  <2> QED BY <1>1, <1>4, <1>7, <2>4
<1>8. ASSUME LastIsExact, NEW f \in LastFields, NEW i \in Occurrences(f), i < pos + 1
      PROVE  f \in DOMAIN vals
  <2>1. i < pos
    BY <1>1, <1>8, OneMore
  <2> QED BY <1>1, <1>8, <2>1 DEF LastIsRead
<1>9. LastIsRead'
  BY <1>1, <1>2, <1>5, <1>7, <1>8 DEF LastIsRead
<1>10. ReadInOrder' /\ LastIsWhole' /\ AcceptedIsComplete'
  BY <1>2 DEF ReadInOrder, LastIsWhole, AcceptedIsComplete
<1> QED BY <1>2, <1>3, <1>6, <1>9, <1>10 DEF ParserInv

(* A key and its value leave the parser in the object it is in.            *)
LEMMA FieldInPlace ==
  ASSUME ParserType, InPlace, More, strategy # "compact", Token.kind = "field",
         body' = body, strategy' = strategy, pos' = pos + 1, section' = section
  PROVE  InPlace'
<1>1. SectionAt(pos + 1) = SectionAt(pos)
  BY TokenFacts
<1>2. SectionAt(pos)' = SectionAt(pos)
  <2>1. (\A i : SectionAt(i)' = SectionAt(i)) /\ Tokens' = Tokens
    BY SameBody
  <2> QED BY <1>1, <2>1 DEF SectionAt
<1> QED BY <1>2 DEF InPlace

LEMMA SingleFieldInv ==
  ASSUME ParserInv, SingleField
  PROVE  ParserInv'
<1>1. /\ ParserType /\ InPlace /\ ReadFromBody /\ LastIsRead
      /\ strategy = "single_pass" /\ result = "running" /\ More /\ Advance
      /\ Token.kind = "field" /\ section' = section /\ SingleTakes
  BY DEF ParserInv, SingleField, Running
<1>2. /\ out' \in [Features -> Range0] /\ ReadFromBody' /\ DOMAIN vals \subseteq DOMAIN vals'
      /\ IsField /\ Token.exact => Path \in DOMAIN vals'
  <2>1. CASE IsField /\ Token.exact
    <3>1. /\ Token.value.kind = KindOf(FieldType[Path])
          /\ FieldType[Path] = "date" => Token.value.raw # NotADate
      BY <1>1, <2>1 DEF SingleTakes, SingleReads
    <3>2. /\ vals' = Only(Path, BytesOf(Path, Token.value)) ++ vals
          /\ out' = FieldFeatures(Path, BytesOf(Path, Token.value)) ++ out
      BY <2>1 DEF SingleField
    <3>3. /\ out' \in [Features -> Range0]
          /\ IsRead(Path, BytesOf(Path, Token.value))
          /\ FieldType[Path] = "date" => BytesOf(Path, Token.value) \in Dates
      BY <1>1, <2>1, <3>1, <3>2, FieldWritten
    <3>4. ReadFromBody' /\ DOMAIN vals' = DOMAIN vals \cup {Path}
      BY <1>1, <2>1, <3>2, <3>3, KeepField DEF Advance
    <3> QED BY <3>3, <3>4
  <2>2. CASE ~(IsField /\ Token.exact)
    <3>1. vals' = vals /\ out' = out
      BY <2>2 DEF SingleField
    <3>2. ReadFromBody'
      BY <1>1, <3>1, KeepFewer DEF Advance
    <3> QED BY <1>1, <2>2, <3>1, <3>2 DEF ParserType, Range0
  <2> QED BY <2>1, <2>2
<1>3. /\ ParserType' /\ pos' = pos + 1 /\ body' = body /\ strategy' = "single_pass" /\ result' = "running"
  BY <1>1, <1>2, AdvanceType
<1>4. InPlace'
  BY <1>1, <1>3, FieldInPlace
<1>5. /\ SectionAt(pos + 1) = SectionAt(pos) /\ Token = Tokens[pos]
  BY <1>1, TokenFacts
<1>6. /\ \A f : Occurrences(f)' = Occurrences(f)
      /\ SectionAt(pos)' = SectionAt(pos)
      /\ LastIsExact' = LastIsExact
  <2>1. (\A i : SectionAt(i)' = SectionAt(i)) /\ Tokens' = Tokens
    BY <1>3, SameBody
  <2> QED BY <1>3, <1>5, <2>1, SameBody DEF SectionAt
<1>7. ASSUME LastIsExact, NEW f \in LastFields, NEW i \in Occurrences(f), i < pos + 1
      PROVE  f \in DOMAIN vals'
  <2>1. CASE i < pos
    BY <1>1, <1>2, <1>7, <2>1 DEF LastIsRead
  <2>2. CASE i = pos /\ f = <<SectionAt(pos), Token.key>>
    <3>1. f \in Fields /\ SectionAt(pos) = "last_transaction"
      BY <2>2, LastFieldsAre
    <3>2. section = SectionAt(pos)
      BY <1>1, <1>7, <3>1 DEF InPlace, LastIsRead
    <3>3. Path = f /\ IsField
      BY <1>1, <2>2, <3>1, <3>2 DEF Path, IsField
    <3>4. Token.exact
      BY <1>5, <1>7, <2>2 DEF LastIsExact
    <3> QED BY <1>2, <3>3, <3>4
  <2> QED BY <1>1, <1>7, <2>1, <2>2, OneMore
<1>8. LastIsRead'
  BY <1>1, <1>3, <1>6, <1>7 DEF LastIsRead
<1>9. ReadInOrder' /\ LastIsWhole' /\ AcceptedIsComplete'
  BY <1>3 DEF ReadInOrder, LastIsWhole, AcceptedIsComplete
<1> QED BY <1>2, <1>3, <1>4, <1>8, <1>9 DEF ParserInv

LEMMA SingleCloseInv ==
  ASSUME ParserInv, SingleClose
  PROVE  ParserInv'
<1>1. /\ ParserType /\ InPlace /\ ReadFromBody /\ LastIsRead
      /\ strategy = "single_pass" /\ result = "running" /\ More /\ Advance
      /\ Token.kind = "close" /\ section' = "top" /\ vals' = vals /\ out' = out
  BY DEF ParserInv, SingleClose, Running
<1>2. /\ ParserType' /\ pos' = pos + 1 /\ body' = body /\ strategy' = "single_pass" /\ result' = "running"
  BY <1>1, AdvanceType DEF ParserType
<1>3. ReadFromBody'
  BY <1>1, <1>2, KeepFewer
<1>4. /\ \A f : Occurrences(f)' = Occurrences(f)
      /\ SectionAt(pos)' = "top"
      /\ LastIsExact' = LastIsExact
  <2>1. (\A i : SectionAt(i)' = SectionAt(i)) /\ Tokens' = Tokens
    BY <1>2, SameBody
  <2>2. SectionAt(pos + 1) = "top"
    BY <1>1, TokenFacts
  <2> QED BY <1>2, <2>1, <2>2, SameBody DEF SectionAt
<1>5. InPlace'
  BY <1>1, <1>4 DEF InPlace
<1>6. ASSUME LastIsExact, NEW f \in LastFields, NEW i \in Occurrences(f), i < pos + 1
      PROVE  f \in DOMAIN vals
  <2>1. i < pos
    BY <1>1, <1>6, OneMore
  <2> QED BY <1>1, <1>6, <2>1 DEF LastIsRead
<1>7. LastIsRead'
  BY <1>1, <1>2, <1>4, <1>6 DEF LastIsRead
<1>8. ReadInOrder' /\ LastIsWhole' /\ AcceptedIsComplete'
  BY <1>2 DEF ReadInOrder, LastIsWhole, AcceptedIsComplete
<1> QED BY <1>2, <1>3, <1>5, <1>7, <1>8 DEF ParserInv

LEMMA SerdeOpenInv ==
  ASSUME ParserInv, SerdeOpen
  PROVE  ParserInv'
<1>1. /\ ParserType /\ InPlace /\ ReadFromBody /\ LastIsWhole
      /\ strategy = "serde" /\ result = "running" /\ More /\ Advance
      /\ Token.kind = "open" /\ section = "top" /\ out' = out
      /\ section' = IF Token.key \in Sections THEN Token.key ELSE "skipped"
      /\ vals' = IF Token.key \in Sections THEN Without(Token.key) ELSE vals
  BY DEF ParserInv, SerdeOpen, Running, Opens
<1>2. /\ ParserType' /\ pos' = pos + 1 /\ body' = body /\ strategy' = "serde" /\ result' = "running"
  BY <1>1, AdvanceType DEF ParserType
<1>3. ReadFromBody'
  <2>1. DOMAIN vals' \subseteq DOMAIN vals /\ \A f \in DOMAIN vals' : vals'[f] = vals[f]
    BY <1>1 DEF Without
  <2> QED BY <1>1, <1>2, <2>1, KeepFewer
<1>4. /\ SectionAt(pos) = "top" /\ SectionAt(pos + 1) = Token.key
      /\ Token.key \notin {"top", "skipped", "end"}
  BY <1>1, TokenFacts
<1>5. /\ \A f : Occurrences(f)' = Occurrences(f)
      /\ SectionAt(pos)' = SectionAt(pos + 1)
  <2>1. (\A i : SectionAt(i)' = SectionAt(i)) /\ Tokens' = Tokens
    BY <1>2, SameBody
  <2> QED BY <1>2, <2>1, SameBody DEF SectionAt
<1>6. InPlace'
  <2>1. Sections' = Sections
    OBVIOUS
  <2> QED BY <1>1, <1>2, <1>4, <1>5, <2>1 DEF InPlace
<1>7. ASSUME NEW f \in LastFields, NEW i \in Occurrences(f), i < pos + 1
      PROVE  \A g \in LastFields : Occurrences(g) # {}
  <2>1. i < pos
    BY <1>1, <1>7, OneMore
  <2> QED BY <1>1, <1>4, <1>7, <2>1 DEF LastIsWhole
<1>8. LastIsWhole'
  BY <1>1, <1>2, <1>5, <1>7 DEF LastIsWhole
<1>9. ReadInOrder' /\ LastIsRead' /\ AcceptedIsComplete'
  BY <1>2 DEF ReadInOrder, LastIsRead, AcceptedIsComplete
<1> QED BY <1>2, <1>3, <1>6, <1>8, <1>9 DEF ParserInv

LEMMA SerdeFieldInv ==
  ASSUME ParserInv, SerdeField
  PROVE  ParserInv'
<1>1. /\ ParserType /\ InPlace /\ ReadFromBody /\ LastIsWhole
      /\ strategy = "serde" /\ result = "running" /\ More /\ Advance
      /\ Token.kind = "field" /\ section' = section /\ SerdeTakes /\ out' = out
  BY DEF ParserInv, SerdeField, Running
<1>2. /\ ParserType' /\ pos' = pos + 1 /\ body' = body /\ strategy' = "serde" /\ result' = "running"
  BY <1>1, AdvanceType DEF ParserType
<1>3. ReadFromBody'
  <2>1. CASE IsField
    <3>1. vals' = Only(Path, SerdeValue(Path, Token.value)) ++ vals
      <4>1. Path[1] # "top"
        BY <2>1, FieldsAre DEF IsField
      <4>2. ~IsNull
        BY <4>1 DEF IsNull
      <4> QED BY <2>1, <4>2 DEF SerdeField
    <3>2. IsRead(Path, SerdeValue(Path, Token.value))
      <4> PICK p, t : p = Path /\ t = Token.value
        OBVIOUS
      <4>1. p \in Fields /\ IsValue(p[2], t) /\ SerdeReads(p, t)
        BY <1>1, <2>1, TokenFacts DEF IsField, Path, SerdeTakes
      <4>2. IsRead(p, SerdeValue(p, t))
        BY <4>1, SerdeIsRead
      <4> QED BY <4>2
    <3> QED BY <1>1, <1>2, <2>1, <3>1, <3>2, KeepField
  <2>2. CASE ~IsField
    <3>1. vals' = Without("last_transaction") \/ vals' = vals
      BY <2>2 DEF SerdeField
    <3>2. DOMAIN vals' \subseteq DOMAIN vals /\ \A f \in DOMAIN vals' : vals'[f] = vals[f]
      BY <3>1 DEF Without
    <3> QED BY <1>1, <1>2, <3>2, KeepFewer
  <2> QED BY <2>1, <2>2
<1>4. InPlace'
  BY <1>1, <1>2, FieldInPlace
<1>5. /\ \A f : Occurrences(f)' = Occurrences(f)
      /\ SectionAt(pos)' = SectionAt(pos)
  <2>1. (\A i : SectionAt(i)' = SectionAt(i)) /\ Tokens' = Tokens
    BY <1>2, SameBody
  <2>2. SectionAt(pos + 1) = SectionAt(pos)
    BY <1>1, TokenFacts
  <2> QED BY <1>2, <2>1, <2>2, SameBody DEF SectionAt
<1>6. ASSUME NEW f \in LastFields, NEW i \in Occurrences(f), i < pos + 1
      PROVE  \/ SectionAt(pos) = "last_transaction"
             \/ \A g \in LastFields : Occurrences(g) # {}
  <2>1. CASE i < pos
    BY <1>1, <1>6, <2>1 DEF LastIsWhole
  <2>2. CASE i = pos /\ f = <<SectionAt(pos), Token.key>>
    BY <2>2, LastFieldsAre
  <2> QED BY <1>1, <1>6, <2>1, <2>2, OneMore
<1>7. LastIsWhole'
  BY <1>1, <1>2, <1>5, <1>6 DEF LastIsWhole
<1>8. ReadInOrder' /\ LastIsRead' /\ AcceptedIsComplete'
  BY <1>2 DEF ReadInOrder, LastIsRead, AcceptedIsComplete
<1> QED BY <1>2, <1>3, <1>4, <1>7, <1>8 DEF ParserInv

LEMMA SerdeCloseInv ==
  ASSUME ParserInv, SerdeClose
  PROVE  ParserInv'
<1>1. /\ ParserType /\ InPlace /\ ReadFromBody /\ LastIsWhole
      /\ strategy = "serde" /\ result = "running" /\ More /\ Advance
      /\ Token.kind = "close" /\ section # "top" /\ section' = "top" /\ SerdeTakes
      /\ vals' = vals /\ out' = out
  BY DEF ParserInv, SerdeClose, Running
<1>2. /\ ParserType' /\ pos' = pos + 1 /\ body' = body /\ strategy' = "serde" /\ result' = "running"
  BY <1>1, AdvanceType DEF ParserType
<1>3. ReadFromBody'
  BY <1>1, <1>2, KeepFewer
<1>4. /\ \A f : Occurrences(f)' = Occurrences(f)
      /\ SectionAt(pos)' = "top"
  <2>1. (\A i : SectionAt(i)' = SectionAt(i)) /\ Tokens' = Tokens
    BY <1>2, SameBody
  <2>2. SectionAt(pos + 1) = "top"
    BY <1>1, TokenFacts
  <2> QED BY <1>2, <2>1, <2>2, SameBody DEF SectionAt
<1>5. InPlace'
  BY <1>1, <1>4 DEF InPlace
<1>6. ASSUME NEW f \in LastFields, NEW i \in Occurrences(f), i < pos + 1
      PROVE  \A g \in LastFields : Occurrences(g) # {}
  <2>1. i < pos
    BY <1>1, <1>6, OneMore
  <2>2. CASE SectionAt(pos) = "last_transaction"
    <3>1. section = "last_transaction"
      BY <1>1, <2>2, LastFieldsAre DEF InPlace
    <3>2. LastFields \subseteq DOMAIN vals
      BY <1>1, <3>1, LastFieldsAre DEF SerdeTakes
    <3> QED BY <1>1, <3>2 DEF ReadFromBody
  <2> QED BY <1>1, <1>6, <2>1, <2>2 DEF LastIsWhole
<1>7. LastIsWhole'
  BY <1>1, <1>2, <1>4, <1>6 DEF LastIsWhole
<1>8. ReadInOrder' /\ LastIsRead' /\ AcceptedIsComplete'
  BY <1>2 DEF ReadInOrder, LastIsRead, AcceptedIsComplete
<1> QED BY <1>2, <1>3, <1>5, <1>7, <1>8 DEF ParserInv

-----------------------------------------------------------------------------
(* The end of a body.                                                      *)

LEMMA AcceptedInv ==
  ASSUME ParserInv, result' = "ok", UNCHANGED <<body, strategy, pos, section, vals, hasLast>>,
         out' \in [Features -> Range0], Required \subseteq DOMAIN vals,
         \A f \in LastFields : Occurrences(f) # {} =>
           \/ strategy = "single_pass" /\ ~LastIsExact
           \/ \A g \in LastFields : Occurrences(g) # {}
  PROVE  ParserInv'
<1>1. /\ ParserType /\ InPlace /\ ReadFromBody /\ ReadInOrder /\ LastIsRead /\ LastIsWhole
  BY DEF ParserInv
<1>2. /\ Tokens' = Tokens /\ (\A i : SectionAt(i)' = SectionAt(i))
      /\ (\A f : Occurrences(f)' = Occurrences(f)) /\ LastIsExact' = LastIsExact
  BY SameBody
<1>3. SectionAt(pos)' = SectionAt(pos) /\ SectionAt(pos - 1)' = SectionAt(pos - 1)
  BY <1>2 DEF SectionAt
<1>4. ParserType'
  BY <1>1 DEF ParserType, Range0
<1>5. ReadFromBody'
  BY <1>1, KeepFewer
<1>6. InPlace'
  <2>1. Sections' = Sections
    OBVIOUS
  <2> QED BY <1>1, <1>2, <1>3, <2>1 DEF InPlace
<1>7. ReadInOrder'
  BY <1>1, <1>2 DEF ReadInOrder
<1>8. LastIsRead'
  BY <1>1, <1>2, <1>3 DEF LastIsRead
<1>9. LastIsWhole'
  BY <1>1, <1>2, <1>3 DEF LastIsWhole
<1>10. AcceptedIsComplete'
  <2>1. \A f \in Required : Occurrences(f) # {}
    BY <1>1 DEF ReadFromBody
  <2>2. SkipsLast' <=> strategy = "single_pass" /\ ~LastIsExact
    <3>1. SkipsLast' <=> strategy' = "single_pass" /\ ~(LastIsExact')
      BY DEF SkipsLast, LastIsExact
    <3> QED BY <1>2, <3>1
  <2>3. (\E f \in LastFields : Occurrences(f) # {}) =>
          SkipsLast' \/ \A f \in LastFields : Occurrences(f) # {}
    BY <2>2
  <2> HIDE DEF SkipsLast
  <2> QED BY <1>2, <2>1, <2>3 DEF AcceptedIsComplete
<1> QED BY <1>4, <1>5, <1>6, <1>7, <1>8, <1>9, <1>10 DEF ParserInv

LEMMA AllIsRead ==
  ASSUME ParserInv, Required \subseteq DOMAIN vals,
         strategy = "serde" => \A f \in DOMAIN vals : FieldType[f] = "date" => vals[f] # NotADate
  PROVE  AllRead(vals) /\ out \in [Features -> Range0]
<1>1. ReadFromBody /\ ParserType
  BY DEF ParserInv
<1>2. out \in [Features -> Range0]
  BY <1>1 DEF ParserType
<1>3. \A f \in DOMAIN vals : f \in Fields /\ IsRead(f, vals[f])
  BY <1>1 DEF ReadFromBody
<1>4. \A f \in DOMAIN vals : FieldType[f] = "date" => vals[f] \in Dates
  BY <1>1, <1>3 DEF ReadFromBody, IsRead
<1> QED BY <1>2, <1>3, <1>4 DEF AllRead

(* The brace that closes the body is its last token.                       *)
LEMMA EndOfBody ==
  ASSUME ParserType, InPlace, AtEnd, strategy # "compact"
  PROVE  /\ SectionAt(pos) = "top"
         /\ \A f : \A i \in Occurrences(f) : i < pos
<1>1. /\ More /\ Token.kind = "close" /\ section = "top"
  BY DEF AtEnd
<1>2. SectionAt(pos) = "top"
  BY <1>1 DEF InPlace
<1>3. pos = Len(Tokens) /\ DOMAIN Tokens = 1 .. Len(Tokens) /\ Token = Tokens[pos] /\ Len(Tokens) \in Nat
  BY <1>1, <1>2, TokenFacts
<1>4. ASSUME NEW f, NEW i \in Occurrences(f) PROVE i < pos
  <2>1. i \in 1 .. Len(Tokens) /\ Tokens[i].kind = "field"
    BY <1>3 DEF Occurrences, Positions
  <2>2. i # pos
    BY <1>1, <1>3, <2>1
  <2> QED BY <1>3, <2>1, <2>2
<1> QED BY <1>2, <1>4

LEMMA SingleFinishInv ==
  ASSUME ParserInv, SingleFinish
  PROVE  ParserInv'
<1>1. /\ ParserType /\ InPlace /\ ReadFromBody /\ LastIsRead
      /\ strategy = "single_pass" /\ AtEnd /\ SingleComplete /\ Accept(vals)
  BY DEF ParserInv, SingleFinish, Running
<1>2. /\ result' = "ok" /\ UNCHANGED <<body, strategy, pos, section, vals, hasLast>>
      /\ out' = FinishVector(vals) ++ LastFeatures(vals) ++ out
  BY <1>1 DEF Accept
<1>3. Required \subseteq DOMAIN vals /\ LastFields \cap DOMAIN vals \in {{}, LastFields}
  BY <1>1 DEF SingleComplete
<1>4. out' \in [Features -> Range0]
  BY <1>1, <1>2, <1>3, AllIsRead, AcceptedVector
<1>5. \A f \in LastFields : Occurrences(f) # {} =>
        \/ strategy = "single_pass" /\ ~LastIsExact
        \/ \A g \in LastFields : Occurrences(g) # {}
  <2> SUFFICES ASSUME NEW f \in LastFields, Occurrences(f) # {}, LastIsExact
               PROVE  \A g \in LastFields : Occurrences(g) # {}
    BY <1>1
  <2>1. PICK i \in Occurrences(f) : i < pos
    BY <1>1, EndOfBody
  <2>2. f \in DOMAIN vals
    BY <1>1, <2>1 DEF LastIsRead
  <2>3. LastFields \subseteq DOMAIN vals
    BY <1>3, <2>2
  <2> QED BY <1>1, <2>3 DEF ReadFromBody
<1> QED BY <1>2, <1>3, <1>4, <1>5, AcceptedInv

LEMMA SerdeFinishInv ==
  ASSUME ParserInv, SerdeFinish
  PROVE  ParserInv'
<1>1. /\ ParserType /\ InPlace /\ ReadFromBody /\ LastIsWhole
      /\ strategy = "serde" /\ AtEnd /\ SerdeComplete
      /\ result' = "ok" /\ UNCHANGED <<body, strategy, pos, section, vals, hasLast>>
      /\ out' = FinishVector(vals) ++ LastFeatures(vals) ++ EveryFieldFeature(vals)
  BY DEF ParserInv, SerdeFinish, Running
<1>2. /\ Required \subseteq DOMAIN vals
      /\ \A f \in DOMAIN vals : FieldType[f] = "date" => vals[f] # NotADate
  BY <1>1 DEF SerdeComplete
<1>3. out' \in [Features -> Range0]
  BY <1>1, <1>2, AllIsRead, WrittenVector
<1>4. \A f \in LastFields : Occurrences(f) # {} => \A g \in LastFields : Occurrences(g) # {}
  <2> SUFFICES ASSUME NEW f \in LastFields, Occurrences(f) # {}
               PROVE  \A g \in LastFields : Occurrences(g) # {}
    OBVIOUS
  <2>1. PICK i \in Occurrences(f) : i < pos
    BY <1>1, EndOfBody
  <2>2. SectionAt(pos) = "top"
    BY <1>1, EndOfBody
  <2> QED BY <1>1, <2>1, <2>2 DEF LastIsWhole
<1> QED BY <1>1, <1>2, <1>3, <1>4, AcceptedInv

(* The order of the compact parser, place by place.                        *)
LEMMA OrderIsLong == Len(CompactOrder) = 26
  BY DEF CompactOrder

LEMMA OrderOfTransaction ==
  /\ CompactOrder[1] = <<"field", "top", "id">>
  /\ CompactOrder[2] = <<"open", "top", "transaction">>
  /\ CompactOrder[3] = <<"field", "transaction", "amount">>
  /\ CompactOrder[4] = <<"field", "transaction", "installments">>
  /\ CompactOrder[5] = <<"field", "transaction", "requested_at">>
  /\ CompactOrder[6][1] = "close" /\ CompactOrder[6][2] = "transaction"
  BY DEF CompactOrder

LEMMA OrderOfCustomer ==
  /\ CompactOrder[7] = <<"open", "top", "customer">>
  /\ CompactOrder[8] = <<"field", "customer", "avg_amount">>
  /\ CompactOrder[9] = <<"field", "customer", "tx_count_24h">>
  /\ CompactOrder[10] = <<"field", "customer", "known_merchants">>
  /\ CompactOrder[11][1] = "close" /\ CompactOrder[11][2] = "customer"
  BY DEF CompactOrder

LEMMA OrderOfMerchant ==
  /\ CompactOrder[12] = <<"open", "top", "merchant">>
  /\ CompactOrder[13] = <<"field", "merchant", "id">>
  /\ CompactOrder[14] = <<"field", "merchant", "mcc">>
  /\ CompactOrder[15] = <<"field", "merchant", "avg_amount">>
  /\ CompactOrder[16][1] = "close" /\ CompactOrder[16][2] = "merchant"
  BY DEF CompactOrder

LEMMA OrderOfTerminal ==
  /\ CompactOrder[17] = <<"open", "top", "terminal">>
  /\ CompactOrder[18] = <<"field", "terminal", "is_online">>
  /\ CompactOrder[19] = <<"field", "terminal", "card_present">>
  /\ CompactOrder[20] = <<"field", "terminal", "km_from_home">>
  /\ CompactOrder[21][1] = "close" /\ CompactOrder[21][2] = "terminal"
  BY DEF CompactOrder

LEMMA OrderOfLast ==
  /\ CompactOrder[22] = <<"open", "top", "last_transaction">>
  /\ CompactOrder[23] = <<"field", "last_transaction", "timestamp">>
  /\ CompactOrder[24] = <<"field", "last_transaction", "km_from_current">>
  /\ CompactOrder[25][1] = "close" /\ CompactOrder[25][2] = "last_transaction"
  /\ CompactOrder[26][1] = "close" /\ CompactOrder[26][2] = "top"
  BY DEF CompactOrder

LEMMA OrderOfBraces ==
  ASSUME NEW p \in 1 .. 26
  PROVE  /\ CompactOrder[p][1] = "close" /\ CompactOrder[p][2] = "top" => p = 26
         /\ CompactOrder[p][2] = "last_transaction" => p \in {23, 24, 25}
<1>1. CASE p \in 1 .. 6
  BY <1>1, OrderOfTransaction
<1>2. CASE p \in 7 .. 11
  BY <1>2, OrderOfCustomer
<1>3. CASE p \in 12 .. 16
  BY <1>3, OrderOfMerchant
<1>4. CASE p \in 17 .. 21
  BY <1>4, OrderOfTerminal
<1>5. CASE p \in 22 .. 26
  BY <1>5, OrderOfLast
<1> QED BY <1>1, <1>2, <1>3, <1>4, <1>5

(* What the compact parser has read when the body is closed.               *)
LEMMA CompactIsWhole ==
  ASSUME ParserInv, strategy = "compact", section = "end"
  PROVE  /\ Required \subseteq DOMAIN vals
         /\ \/ LastFields \subseteq DOMAIN vals
            \/ \A f \in LastFields : Occurrences(f) = {}
<1> PICK p : p = pos - 1
  OBVIOUS
<1> DEFINE InOrder(j) ==
             \/ j <= Len(CompactOrder) /\ <<Tokens[j].kind, SectionAt(j), Tokens[j].key>> = CompactOrder[j]
             \/ j = 22 /\ Tokens[j].kind = "field"
             \/ j = 23 /\ Tokens[j].kind = "close" /\ SectionAt(j) = "top"
           Kept(j) == <<SectionAt(j), Tokens[j].key>> \in Fields /\ Tokens[j].kind = "field" =>
                        <<SectionAt(j), Tokens[j].key>> \in DOMAIN vals
<1>1. /\ ParserType /\ InPlace /\ ReadFromBody /\ ReadInOrder
  BY DEF ParserInv
<1>2. \A j \in 1 .. p : InOrder(j) /\ Kept(j)
  BY <1>1 DEF ReadInOrder, LastPos
<1>3. pos > 1 /\ Tokens[p].kind = "close" /\ SectionAt(p) = "top"
  BY <1>1 DEF InPlace
<1>4. /\ pos \in 1 .. Len(Tokens) + 1 /\ Len(Tokens) \in Nat /\ DOMAIN Tokens = 1 .. Len(Tokens)
      /\ \A j \in DOMAIN Tokens : Tokens[j].kind = "close" /\ SectionAt(j) = "top" => j = Len(Tokens)
  BY <1>1 DEF ParserType, IsBody, Tokens, SectionAt
<1>5. p \in 1 .. Len(Tokens) /\ p = Len(Tokens)
  <2>1. p \in 1 .. Len(Tokens)
    BY <1>3, <1>4
  <2> QED BY <1>3, <1>4, <2>1
<1> HIDE DEF InOrder, Kept
<1>6. p \in {23, 26}
  <2>1. InOrder(p)
    BY <1>2, <1>4, <1>5
  <2>2. p = 22 => Tokens[p].kind # "field"
    BY <1>3
  <2>3. p <= 26 /\ CompactOrder[p][1] = "close" /\ CompactOrder[p][2] = "top" => p = 26
    <3> SUFFICES ASSUME p <= 26 PROVE CompactOrder[p][1] = "close" /\ CompactOrder[p][2] = "top" => p = 26
      OBVIOUS
    <3>1. p \in 1 .. 26
      BY <1>4, <1>5
    <3> QED BY <3>1, OrderOfBraces
  <2> QED BY <1>3, <2>1, <2>2, <2>3, OrderIsLong DEF InOrder
<1>7. ASSUME NEW j \in 1 .. p, j \notin {22, 23}
      PROVE  /\ j <= 26 /\ <<Tokens[j].kind, SectionAt(j), Tokens[j].key>> = CompactOrder[j]
             /\ \A f \in Fields : CompactOrder[j] = <<"field", f[1], f[2]>> => f \in DOMAIN vals
  <2>1. j <= 26 /\ <<Tokens[j].kind, SectionAt(j), Tokens[j].key>> = CompactOrder[j]
    BY <1>2, <1>7, OrderIsLong DEF InOrder
  <2>2. ASSUME NEW f \in Fields, CompactOrder[j] = <<"field", f[1], f[2]>> PROVE f \in DOMAIN vals
    <3>1. Tokens[j].kind = "field" /\ SectionAt(j) = f[1] /\ Tokens[j].key = f[2]
      BY <2>1, <2>2
    <3>2. f = <<f[1], f[2]>>
      BY FieldsAre
    <3>3. <<SectionAt(j), Tokens[j].key>> = f
      BY <3>1, <3>2
    <3> QED BY <1>2, <3>1, <3>3 DEF Kept
  <2> QED BY <2>1, <2>2
<1>8. Required \subseteq DOMAIN vals
  <2> SUFFICES ASSUME NEW f \in Required PROVE f \in DOMAIN vals
    OBVIOUS
  <2>1. f \in Fields /\ f[1] # "last_transaction"
    BY RequiredAre DEF Required
  <2>2. PICK j \in {3, 4, 5, 8, 9, 10, 13, 14, 15, 18, 19, 20} : CompactOrder[j] = <<"field", f[1], f[2]>>
    <3>1. CASE f[1] = "transaction"
      BY <2>1, <3>1, FieldsAre, OrderOfTransaction
    <3>2. CASE f[1] = "customer"
      BY <2>1, <3>2, FieldsAre, OrderOfCustomer
    <3>3. CASE f[1] = "merchant"
      BY <2>1, <3>3, FieldsAre, OrderOfMerchant
    <3>4. CASE f[1] = "terminal"
      BY <2>1, <3>4, FieldsAre, OrderOfTerminal
    <3> QED BY <2>1, <3>1, <3>2, <3>3, <3>4, FieldsAre
  <2>3. j \in 1 .. p /\ j \notin {22, 23}
    BY <1>6
  <2> QED BY <1>7, <2>1, <2>2, <2>3
<1>9. CASE p = 26
  <2>1. \A f \in LastFields : f \in Fields /\ f[1] = "last_transaction"
    BY LastFieldsAre
  <2>2. <<"last_transaction", "km_from_current">> \in DOMAIN vals
    <3>1. 24 \in 1 .. p /\ 24 \notin {22, 23}
      BY <1>9
    <3>2. CompactOrder[24] = <<"field", "last_transaction", "km_from_current">>
      BY OrderOfLast
    <3>3. <<"last_transaction", "km_from_current">> \in Fields
      BY FieldTypes
    <3> QED BY <1>7, <3>1, <3>2, <3>3
  <2>3. <<"last_transaction", "timestamp">> \in DOMAIN vals
    <3>1. 23 \in 1 .. p
      BY <1>9
    <3>2. ~(Tokens[23].kind = "close" /\ SectionAt(23) = "top")
      BY <1>4, <1>5, <1>9
    <3>3. <<Tokens[23].kind, SectionAt(23), Tokens[23].key>> = <<"field", "last_transaction", "timestamp">>
      BY <1>2, <3>1, <3>2, OrderOfLast DEF InOrder
    <3> QED BY <1>2, <3>1, <3>3, FieldTypes DEF Kept
  <2> QED BY <1>8, <2>2, <2>3, LastFieldsAre
<1>10. CASE p = 23
  <2> SUFFICES ASSUME NEW f \in LastFields, NEW i \in Occurrences(f) PROVE FALSE
    BY <1>8
  <2>1. /\ i \in 1 .. p /\ Tokens[i].kind = "field" /\ SectionAt(i) = "last_transaction"
    BY <1>4, <1>5, LastFieldsAre DEF Occurrences, Positions
  <2>2. i # 23
    BY <1>3, <1>10, <2>1
  <2>3. i # 22
    <3>1. <<Tokens[21].kind, SectionAt(21), Tokens[21].key>> = CompactOrder[21]
      BY <1>7, <1>10
    <3>2. Tokens[21].kind = "close"
      BY <3>1, OrderOfTerminal
    <3>3. SectionAt(21 + 1) = "top"
      BY <3>2, SectionSteps DEF SectionAt
    <3>4. SectionAt(22) = "top"
      BY <3>3
    <3> QED BY <2>1, <3>4
  <2>4. i <= 21
    BY <1>10, <2>1, <2>2, <2>3
  <2>5. <<Tokens[i].kind, SectionAt(i), Tokens[i].key>> = CompactOrder[i]
    BY <1>7, <2>1, <2>2, <2>3
  <2>6. CompactOrder[i][2] = "last_transaction"
    BY <2>1, <2>5
  <2>7. i \in 1 .. 26
    BY <1>10, <2>1
  <2> QED BY <2>4, <2>6, <2>7, OrderOfBraces
<1> QED BY <1>6, <1>9, <1>10

LEMMA CompactFinishInv ==
  ASSUME ParserInv, CompactFinish
  PROVE  ParserInv'
<1>1. /\ ReadFromBody /\ strategy = "compact" /\ section = "end" /\ Accept(vals)
  BY DEF ParserInv, CompactFinish, Running
<1>2. /\ result' = "ok" /\ UNCHANGED <<body, strategy, pos, section, vals, hasLast>>
      /\ out' = FinishVector(vals) ++ LastFeatures(vals) ++ out
  BY <1>1 DEF Accept
<1>3. /\ Required \subseteq DOMAIN vals
      /\ \/ LastFields \subseteq DOMAIN vals
         \/ \A f \in LastFields : Occurrences(f) = {}
  BY <1>1, CompactIsWhole
<1>4. out' \in [Features -> Range0]
  BY <1>1, <1>2, <1>3, AllIsRead, AcceptedVector
<1>5. \A f \in LastFields : Occurrences(f) # {} => \A g \in LastFields : Occurrences(g) # {}
  BY <1>1, <1>3 DEF ReadFromBody
<1> QED BY <1>2, <1>3, <1>4, <1>5, AcceptedInv

-----------------------------------------------------------------------------
(* Every step keeps the invariant, and the invariant implies the            *)
(* properties.                                                             *)

LEMMA ParserStep ==
  ASSUME ParserInv, [Next]_vars
  PROVE  ParserInv'
<1>1. CASE CompactStep
  BY <1>1, CompactStepInv
<1>2. CASE CompactFinish
  BY <1>2, CompactFinishInv
<1>3. CASE CompactRefuse
  BY <1>3, RestartStep DEF CompactRefuse, Running
<1>4. CASE SingleOpen
  BY <1>4, SingleOpenInv
<1>5. CASE SingleField
  BY <1>5, SingleFieldInv
<1>6. CASE SingleClose
  BY <1>6, SingleCloseInv
<1>7. CASE SingleFinish
  BY <1>7, SingleFinishInv
<1>8. CASE SingleRefuse
  BY <1>8, RestartStep DEF SingleRefuse, Running
<1>9. CASE SerdeOpen
  BY <1>9, SerdeOpenInv
<1>10. CASE SerdeField
  BY <1>10, SerdeFieldInv
<1>11. CASE SerdeClose
  BY <1>11, SerdeCloseInv
<1>12. CASE SerdeFinish
  BY <1>12, SerdeFinishInv
<1>13. CASE SerdeRefuse \/ UNCHANGED vars
  <2>1. UNCHANGED <<body, strategy, pos, section, vals, out>> /\ result' \in {result, "error"}
    BY <1>13 DEF SerdeRefuse, vars
  <2>2. /\ ParserType /\ InPlace /\ ReadFromBody /\ ReadInOrder /\ LastIsRead /\ LastIsWhole
        /\ AcceptedIsComplete
    BY DEF ParserInv
  <2>3. /\ Tokens' = Tokens /\ (\A i : SectionAt(i)' = SectionAt(i))
        /\ (\A f : Occurrences(f)' = Occurrences(f)) /\ LastIsExact' = LastIsExact
    BY <2>1, SameBody
  <2>4. SectionAt(pos)' = SectionAt(pos) /\ SectionAt(pos - 1)' = SectionAt(pos - 1)
    BY <2>1, <2>3 DEF SectionAt
  <2>5. ParserType'
    BY <2>1, <2>2 DEF ParserType, Range0
  <2>6. ReadFromBody'
    BY <2>1, <2>2, KeepFewer
  <2>7. InPlace'
    <3>1. Sections' = Sections
      OBVIOUS
    <3> QED BY <2>1, <2>2, <2>3, <2>4, <3>1 DEF InPlace
  <2>8. ReadInOrder'
    BY <2>1, <2>2, <2>3 DEF ReadInOrder
  <2>9. LastIsRead' /\ LastIsWhole'
    BY <2>1, <2>2, <2>3, <2>4 DEF LastIsRead, LastIsWhole
  <2>10. AcceptedIsComplete'
    <3>1. SkipsLast' <=> SkipsLast
      <4>1. SkipsLast' <=> strategy' = "single_pass" /\ ~(LastIsExact')
        BY DEF SkipsLast, LastIsExact
      <4>2. SkipsLast <=> strategy = "single_pass" /\ ~LastIsExact
        BY DEF SkipsLast, LastIsExact
      <4> QED BY <2>1, <2>3, <4>1, <4>2
    <3> HIDE DEF SkipsLast
    <3> QED BY <2>1, <2>2, <2>3, <3>1 DEF AcceptedIsComplete
  <2> QED BY <2>5, <2>6, <2>7, <2>8, <2>9, <2>10 DEF ParserInv
<1> QED BY <1>1, <1>2, <1>3, <1>4, <1>5, <1>6, <1>7, <1>8, <1>9, <1>10, <1>11, <1>12, <1>13 DEF Next

LEMMA ParserImplies == ParserInv => VectorInRange /\ AcceptedIsComplete
  BY DEF ParserInv, ParserType, VectorInRange, Range0

-----------------------------------------------------------------------------
(* Least elements, and induction.                                          *)

LEMMA LeastElement ==
  ASSUME NEW T, T \subseteq Nat, T # {}
  PROVE  \E m \in T : \A n \in T : m <= n
<1> DEFINE R == {ss \in Nat \X Nat : ss[1] < ss[2]}
<1>1. IsWellFoundedOn(R, Nat)
  BY NatLessThanWellFounded DEF OpToRel
<1>2. PICK m \in T : \A n \in T : ~(<<n, m>> \in R)
  BY <1>1, WFMin
<1>3. \A n \in T : ~(n < m)
  BY <1>2
<1> QED BY <1>2, <1>3

LEMMA AllNumbersOfSet ==
  ASSUME NEW T, 0 \in T, \A n \in Nat : n \in T => n + 1 \in T
  PROVE  \A n \in Nat : n \in T
<1> DEFINE U == {n \in Nat : n \notin T}
<1>1. SUFFICES ASSUME U # {} PROVE FALSE
  OBVIOUS
<1>2. PICK m \in U : \A n \in U : m <= n
  BY <1>1, LeastElement
<1>3. m # 0 /\ m - 1 \in Nat /\ m - 1 \notin U
  BY <1>2
<1> QED BY <1>2, <1>3

-----------------------------------------------------------------------------
(* Bodies in which nothing occurs twice.                                   *)

LEMMA AtMostOne ==
  ASSUME NEW n \in Nat, NEW S, S \subseteq 1 .. n, Cardinality(S) <= 1, NEW i \in S, NEW j \in S
  PROVE  i = j
<1>1. IsFiniteSet(1 .. n) /\ S \in SUBSET (1 .. n)
  BY FS_Interval
<1>2. IsFiniteSet(S)
  BY <1>1, FS_Subset
<1> SUFFICES ASSUME i # j PROVE FALSE
  OBVIOUS
<1>3. IsFiniteSet({i}) /\ Cardinality({i}) = 1
  BY FS_Singleton
<1>4. IsFiniteSet({i} \cup {j}) /\ Cardinality({i} \cup {j}) = 2
  <2>1. j \notin {i}
    OBVIOUS
  <2>2. Cardinality({i} \cup {j}) = Cardinality({i}) + 1
    BY <1>3, <2>1, FS_AddElement
  <2> QED BY <1>3, <2>2, FS_AddElement
<1>5. {i} \cup {j} \in SUBSET S
  OBVIOUS
<1>6. Cardinality({i} \cup {j}) <= Cardinality(S) /\ Cardinality(S) \in Nat
  BY <1>2, <1>5, FS_Subset, FS_CardinalityType
<1> QED BY <1>4, <1>6

(* Every field and every section occurs at most once, last_transaction as  *)
(* an object or as null.                                                   *)
Single ==
  /\ \A f \in Fields : \A i, j \in Occurrences(f) : i = j
  /\ \A s \in Sections : \A i, j \in Sectioned(s) : i = j
  /\ \A i \in Nulls : \A j \in Sectioned("last_transaction") : FALSE

LEMMA PositionsAre ==
  ASSUME IsBody(body)
  PROVE  Len(Tokens) \in Nat /\ Positions = 1 .. Len(Tokens)
<1> DEFINE S == {Tokens[i] : i \in DOMAIN Tokens}
<1>1. Tokens \in Seq(S)
  BY DEF IsBody, Tokens
<1> HIDE DEF S
<1> QED BY <1>1 DEF Positions

LEMMA CountsAreSingle ==
  ASSUME IsBody(body),
         \A f \in Fields : Cardinality(Occurrences(f)) <= 1,
         \A s \in Sections : Cardinality(Sectioned(s)) <= 1,
         Cardinality(Nulls \cup Sectioned("last_transaction")) <= 1
  PROVE  Single
<1>1. Len(Tokens) \in Nat /\ Positions = 1 .. Len(Tokens)
  BY PositionsAre
<1>2. /\ \A f : Occurrences(f) \subseteq 1 .. Len(Tokens)
      /\ \A s : Sectioned(s) \subseteq 1 .. Len(Tokens)
  BY <1>1 DEF Occurrences, Sectioned
<1>3. \A f \in Fields : \A i, j \in Occurrences(f) : i = j
  BY <1>1, <1>2, AtMostOne
<1>4. \A s \in Sections : \A i, j \in Sectioned(s) : i = j
  BY <1>1, <1>2, AtMostOne
<1>5. ASSUME NEW i \in Nulls, NEW j \in Sectioned("last_transaction") PROVE FALSE
  <2>1. i \in Nulls \cup Sectioned("last_transaction") /\ j \in Nulls \cup Sectioned("last_transaction")
    OBVIOUS
  <2>2. Nulls \cup Sectioned("last_transaction") \subseteq 1 .. Len(Tokens)
    BY <1>2 DEF Nulls
  <2>3. i = j
    BY <1>1, <2>1, <2>2, AtMostOne
  <2>4. Tokens[i].kind = "field" /\ Tokens[j].kind = "open"
    BY <1>5 DEF Nulls, Occurrences, Sectioned
  <2> QED BY <2>3, <2>4
<1> QED BY <1>3, <1>4, <1>5 DEF Single

LEMMA SectionsAre ==
  /\ Sections = {"transaction", "customer", "merchant", "terminal", "last_transaction"}
  /\ \A f \in Fields : f[1] \in Sections
<1>1. \A f \in Fields : f[1] \in Sections
  BY DEF Sections
<1>2. /\ <<"transaction", "amount">> \in Fields /\ <<"customer", "avg_amount">> \in Fields
      /\ <<"merchant", "id">> \in Fields /\ <<"terminal", "is_online">> \in Fields
      /\ <<"last_transaction", "timestamp">> \in Fields
  BY DEF Fields
<1>3. \A f \in Fields : f[1] \in {"transaction", "customer", "merchant", "terminal", "last_transaction"}
  BY FieldsAre
<1>4. ASSUME NEW s \in {"transaction", "customer", "merchant", "terminal", "last_transaction"}
      PROVE  s \in Sections
  <2>1. /\ <<"transaction", "amount">>[1] \in Sections /\ <<"customer", "avg_amount">>[1] \in Sections
        /\ <<"merchant", "id">>[1] \in Sections /\ <<"terminal", "is_online">>[1] \in Sections
        /\ <<"last_transaction", "timestamp">>[1] \in Sections
    BY <1>1, <1>2
  <2> QED BY <2>1
<1>5. ASSUME NEW s \in Sections
      PROVE  s \in {"transaction", "customer", "merchant", "terminal", "last_transaction"}
  BY <1>3 DEF Sections
<1> QED BY <1>1, <1>4, <1>5

(* A token in a section has the brace that opened it before it, behind any *)
(* place outside of the sections.                                          *)
LEMMA OpenedSince ==
  ASSUME IsBody(body), NEW m \in 1 .. Len(Tokens) + 1, SectionAt(m) = "top",
         NEW i \in m .. Len(Tokens) + 1, SectionAt(i) # "top"
  PROVE  \E j \in Sectioned(SectionAt(i)) : m <= j /\ j < i
<1>1. Len(Tokens) \in Nat /\ Positions = 1 .. Len(Tokens)
  BY PositionsAre
<1> DEFINE T == {n \in Nat : m + n <= Len(Tokens) + 1 /\ SectionAt(m + n) # "top" =>
                               \E j \in Sectioned(SectionAt(m + n)) : m <= j /\ j < m + n}
<1>2. 0 \in T
  <2>1. m + 0 = m
    BY <1>1
  <2> QED BY <2>1
<1>3. ASSUME NEW n \in Nat, n \in T PROVE n + 1 \in T
  <2> DEFINE k == m + n
  <2>1. m + (n + 1) = k + 1 /\ m \in Nat /\ k \in Nat \ {0} /\ m <= k
    BY <1>1
  <2>2. k <= Len(Tokens) + 1 /\ SectionAt(k) # "top" =>
          \E j \in Sectioned(SectionAt(k)) : m <= j /\ j < k
    BY <1>3
  <2> HIDE DEF k
  <2> SUFFICES ASSUME k + 1 <= Len(Tokens) + 1, SectionAt(k + 1) # "top"
               PROVE  \E j \in Sectioned(SectionAt(k + 1)) : m <= j /\ j < k + 1
    BY <2>1
  <2>3. k \in Positions /\ k <= Len(Tokens) + 1 /\ k < k + 1
    BY <1>1, <2>1
  <2>4. /\ Tokens[k].kind = "open" => SectionAt(k + 1) = Tokens[k].key
        /\ Tokens[k].kind = "close" => SectionAt(k + 1) = "top"
        /\ Tokens[k].kind \notin {"open", "close"} => SectionAt(k + 1) = SectionAt(k)
    BY <2>1, SectionSteps DEF SectionAt
  <2>5. CASE Tokens[k].kind = "open"
    <3>1. k \in Sectioned(SectionAt(k + 1))
      BY <2>3, <2>4, <2>5 DEF Sectioned
    <3> QED BY <2>1, <2>3, <3>1
  <2>6. CASE Tokens[k].kind \notin {"open", "close"}
    <3>1. SectionAt(k + 1) = SectionAt(k)
      BY <2>4, <2>6
    <3>2. PICK j \in Sectioned(SectionAt(k)) : m <= j /\ j < k
      BY <2>2, <2>3, <3>1
    <3>3. j \in Nat /\ j < k + 1
      BY <1>1, <2>1, <3>2 DEF Sectioned
    <3> QED BY <3>1, <3>2, <3>3
  <2> QED BY <2>4, <2>5, <2>6
<1>4. i - m \in T
  <2> HIDE DEF T
  <2>1. \A n \in Nat : n \in T
    BY <1>2, <1>3, AllNumbersOfSet
  <2> QED BY <1>1, <2>1
<1>5. m + (i - m) = i /\ i <= Len(Tokens) + 1
  BY <1>1
<1> QED BY <1>4, <1>5

LEMMA OpenedBefore ==
  ASSUME IsBody(body), NEW i \in 1 .. Len(Tokens) + 1, SectionAt(i) # "top"
  PROVE  \E j \in Sectioned(SectionAt(i)) : j < i
<1>1. Len(Tokens) \in Nat /\ 1 \in 1 .. Len(Tokens) + 1 /\ 1 \in Nat \ {0}
  BY PositionsAre
<1>2. SectionAt(1) = "top"
  <2>1. SectionIn(Tokens, 1) = "top"
    BY <1>1, SectionSteps
  <2> QED BY <2>1 DEF SectionAt
<1> QED BY <1>1, <1>2, OpenedSince

(* Behind the brace that closes a section nothing of that section comes    *)
(* again.                                                                  *)
LEMMA BehindTheBrace ==
  ASSUME IsBody(body), Single, NEW p \in Positions, Tokens[p].kind = "close",
         SectionAt(p) \in Sections, NEW i \in Positions, Tokens[i].kind = "field",
         SectionAt(i) = SectionAt(p)
  PROVE  i < p
<1>1. Len(Tokens) \in Nat /\ Positions = 1 .. Len(Tokens)
  BY PositionsAre
<1>2. SectionAt(p) # "top" /\ p \in 1 .. Len(Tokens) + 1
  BY <1>1, SectionsAre
<1>3. PICK o \in Sectioned(SectionAt(p)) : o < p
  BY <1>2, OpenedBefore
<1> SUFFICES ASSUME p < i PROVE FALSE
  <2>1. i # p
    OBVIOUS
  <2> QED BY <1>1, <2>1
<1>4. SectionAt(p + 1) = "top"
  <2>1. p \in Nat \ {0}
    BY <1>1
  <2> QED BY <2>1, SectionSteps DEF SectionAt
<1>5. p + 1 \in 1 .. Len(Tokens) + 1 /\ i \in p + 1 .. Len(Tokens) + 1
  BY <1>1
<1>6. PICK j \in Sectioned(SectionAt(p)) : p + 1 <= j
  BY <1>2, <1>4, <1>5, OpenedSince
<1>7. o = j
  BY <1>3, <1>6 DEF Single
<1>8. o \in Positions /\ j \in Positions
  BY DEF Sectioned
<1> QED BY <1>1, <1>3, <1>6, <1>7, <1>8

LEMMA WellFormedIsSingle ==
  ASSUME IsBody(body), WellFormed
  PROVE  Single
<1>1. Len(Tokens) \in Nat /\ Positions = 1 .. Len(Tokens)
  BY PositionsAre
<1> DEFINE S == Sectioned("last_transaction")
           U == Nulls \cup Sectioned("last_transaction")
<1>2. /\ \A s \in Sections \ {"last_transaction"} : Cardinality(Sectioned(s)) = 1
      /\ \A f \in Required : Cardinality(Occurrences(f)) = 1
      /\ Cardinality(U) = 1
      /\ \A f \in LastFields : Cardinality(Occurrences(f)) = Cardinality(S)
  BY DEF WellFormed
<1>3. Cardinality(S) <= 1
  <2>1. U \in SUBSET (1 .. Len(Tokens)) /\ IsFiniteSet(1 .. Len(Tokens))
    BY <1>1, FS_Interval DEF Nulls, Occurrences, Sectioned
  <2>2. IsFiniteSet(U)
    BY <2>1, FS_Subset
  <2>3. S \in SUBSET U
    OBVIOUS
  <2>4. Cardinality(S) <= Cardinality(U)
    BY <2>2, <2>3, FS_Subset
  <2> QED BY <1>2, <2>4
<1> HIDE DEF S, U
<1>4. \A f \in Fields : Cardinality(Occurrences(f)) <= 1
  <2>1. \A f \in Fields : f \in Required \/ f \in LastFields
    BY DEF Required
  <2>2. \A f \in Required : Cardinality(Occurrences(f)) <= 1
    BY <1>2
  <2>3. \A f \in LastFields : Cardinality(Occurrences(f)) <= 1
    BY <1>2, <1>3
  <2> QED BY <2>1, <2>2, <2>3
<1>5. \A s \in Sections : Cardinality(Sectioned(s)) <= 1
  <2>1. \A s \in Sections \ {"last_transaction"} : Cardinality(Sectioned(s)) <= 1
    BY <1>2
  <2> QED BY <1>3, <2>1 DEF S
<1>6. Cardinality(Nulls \cup Sectioned("last_transaction")) <= 1
  BY <1>2 DEF U
<1> QED BY <1>4, <1>5, <1>6, CountsAreSingle

LEMMA UnambiguousIsSingle ==
  ASSUME IsBody(body), Unambiguous
  PROVE  Single
<1>1. /\ \A f \in Fields : Cardinality(Occurrences(f)) <= 1
      /\ \A s \in Sections : Cardinality(Sectioned(s)) <= 1
      /\ Cardinality(Nulls \cup Sectioned("last_transaction")) <= 1
  BY DEF Unambiguous
<1> QED BY <1>1, CountsAreSingle

LEMMA ValueOfField ==
  ASSUME Single, NEW f \in Fields, NEW i \in Occurrences(f)
  PROVE  Value(f) = Tokens[i].value
<1> PICK O : O = Occurrences(f)
  OBVIOUS
<1>1. Value(f) = Tokens[CHOOSE k \in O : TRUE].value
  BY DEF Value
<1>2. (CHOOSE k \in O : TRUE) \in O
  OBVIOUS
<1>3. (CHOOSE k \in O : TRUE) = i
  BY <1>2 DEF Single
<1> QED BY <1>1, <1>3

(* The last parser takes every value of a well-formed body.                *)
LEMMA WellFormedReads ==
  ASSUME IsBody(body), WellFormed, NEW f \in Fields, NEW i \in Occurrences(f)
  PROVE  /\ SerdeReads(f, Tokens[i].value)
         /\ FieldType[f] = "date" => SerdeValue(f, Tokens[i].value) # NotADate
<1>1. Value(f) = Tokens[i].value
  BY WellFormedIsSingle, ValueOfField
<1>2. /\ Value(f).kind = KindOf(FieldType[f])
      /\ FieldType[f] = "int" => Value(f).plain /\ Value(f).val \in -IntMax - 1 .. IntMax
      /\ FieldType[f] = "date" => Value(f).text # NotADate
  BY DEF WellFormed
<1>3. FieldType[f] = "date" => SerdeValue(f, Tokens[i].value) = Tokens[i].value.text
  BY DEF SerdeValue
<1>4. SerdeReads(f, Tokens[i].value)
  BY <1>1, <1>2 DEF SerdeReads
<1> QED BY <1>1, <1>2, <1>3, <1>4

-----------------------------------------------------------------------------
(* What the parsers keep.                                                  *)

(* Every value that is kept was read from an occurrence of its field; the  *)
(* single-pass parser reads only keys that are spelled as in the code, in  *)
(* an object whose key is.                                                 *)
Kept(f, i, x) ==
  LET v == Tokens[i].value
  IN /\ i \in Occurrences(f) /\ v.kind = KindOf(FieldType[f])
     /\ strategy = "serde" => x = SerdeValue(f, v)
     /\ strategy # "serde" => x = BytesOf(f, v) /\ (FieldType[f] = "date" => v.raw # NotADate)
     /\ strategy = "single_pass" =>
          Tokens[i].exact /\ \E j \in Sectioned(f[1]) : Tokens[j].exact

KeptValues == \A f \in DOMAIN vals : \E i \in Occurrences(f) : Kept(f, i, vals[f])

OpenedExact ==
  strategy = "single_pass" /\ section \in Sections => \E j \in Sectioned(section) : Tokens[j].exact

(* The last parser has the value of every field behind it.                 *)
HasAllBehind ==
  strategy = "serde" /\ Single =>
    \A f \in Fields : \A i \in Occurrences(f) : i < pos => f \in DOMAIN vals

(* It does not come to the end of a well-formed body unless it stops.      *)
StaysInside ==
  strategy = "serde" /\ WellFormed => pos <= Len(Tokens)

Faithful ==
  /\ KeptValues
  /\ OpenedExact
  /\ HasAllBehind
  /\ StaysInside
  /\ WellFormedIsAccepted

LEMMA SameText ==
  ASSUME body' = body
  PROVE  /\ Tokens' = Tokens
         /\ \A i : SectionAt(i)' = SectionAt(i)
         /\ \A f : Occurrences(f)' = Occurrences(f)
         /\ \A s : Sectioned(s)' = Sectioned(s)
         /\ Single' = Single
         /\ WellFormed' = WellFormed
         /\ Unambiguous' = Unambiguous
<1>1. Tokens' = Tokens
  BY DEF Tokens
<1>2. Positions' = Positions /\ \A i : SectionAt(i)' = SectionAt(i)
  BY <1>1, SameBody DEF Positions
<1>3. \A f : Occurrences(f)' = Occurrences(f)
  BY SameBody
<1>4. \A s : Sectioned(s)' = Sectioned(s)
  BY <1>1, <1>2 DEF Sectioned
<1>5. Nulls' = Nulls
  BY <1>3 DEF Nulls
<1>6. \A f : Value(f)' = Value(f)
  BY <1>1, <1>3 DEF Value
<1>7. Single' = Single
  BY <1>3, <1>4, <1>5 DEF Single
<1>8. WellFormed' = WellFormed
  BY <1>1, <1>2, <1>3, <1>4, <1>5, <1>6 DEF WellFormed
<1>9. Unambiguous' = Unambiguous
  BY <1>3, <1>4, <1>5, <1>6 DEF Unambiguous
<1> QED BY <1>1, <1>2, <1>3, <1>4, <1>7, <1>8, <1>9

LEMMA FewerKept ==
  ASSUME KeptValues, body' = body, strategy' = strategy,
         DOMAIN vals' \subseteq DOMAIN vals, \A f \in DOMAIN vals' : vals'[f] = vals[f]
  PROVE  KeptValues'
<1> SUFFICES ASSUME NEW f \in DOMAIN vals'
             PROVE  \E i \in Occurrences(f)' : Kept(f, i, vals[f])'
  BY DEF KeptValues
<1>1. PICK i \in Occurrences(f) : Kept(f, i, vals[f])
  BY DEF KeptValues
<1>2. i \in Occurrences(f)'
  BY SameText
<1>3. Kept(f, i, vals[f])'
  BY <1>1, SameText DEF Kept
<1> QED BY <1>2, <1>3

LEMMA OneMoreKept ==
  ASSUME ParserType, InPlace, KeptValues, More, IsField, body' = body, strategy' = strategy,
         NEW v, vals' = Only(Path, v) ++ vals, Kept(Path, pos, v)
  PROVE  KeptValues'
<1> PICK p : p = Path
  OBVIOUS
<1> PICK o : o = Only(p, v)
  OBVIOUS
<1>1. DOMAIN o = {p} /\ o[p] = v
  BY DEF Only
<1>2. vals' = [f \in DOMAIN o \cup DOMAIN vals |-> IF f \in DOMAIN o THEN o[f] ELSE vals[f]]
  BY DEF ++
<1>3. /\ \A f \in DOMAIN vals' : f = p \/ f \in DOMAIN vals
      /\ vals'[p] = v
      /\ \A f \in DOMAIN vals' : f # p => vals'[f] = vals[f]
  BY <1>1, <1>2
<1> SUFFICES ASSUME NEW f \in DOMAIN vals'
             PROVE  \E i \in Occurrences(f)' : Kept(f, i, vals[f])'
  BY DEF KeptValues
<1>4. CASE f = p
  <2>1. pos \in Occurrences(p)
    BY TokenFacts
  <2> PICK n : n = pos
    OBVIOUS
  <2>2. Kept(p, n, v) /\ n \in Occurrences(p)'
    BY <2>1, SameText
  <2>3. Kept(p, n, vals[p])'
    BY <1>3, <2>2, SameText DEF Kept
  <2> QED BY <1>4, <2>2, <2>3
<1>5. CASE f # p
  <2>1. f \in DOMAIN vals /\ vals'[f] = vals[f]
    BY <1>3, <1>5
  <2>2. PICK i \in Occurrences(f) : Kept(f, i, vals[f])
    BY <2>1 DEF KeptValues
  <2>3. i \in Occurrences(f)'
    BY SameText
  <2>4. Kept(f, i, vals[f])'
    BY <2>1, <2>2, SameText DEF Kept
  <2> QED BY <2>3, <2>4
<1> QED BY <1>4, <1>5

LEMMA FreshIsFaithful == Fresh => Faithful
<1> SUFFICES ASSUME Fresh PROVE Faithful
  OBVIOUS
<1>1. IsBody(body) /\ result = "running" /\ pos = 1 /\ section = "top" /\ DOMAIN vals = {}
  BY DEF Fresh
<1>2. KeptValues
  BY <1>1 DEF KeptValues
<1>3. OpenedExact
  BY <1>1, SectionsAre DEF OpenedExact
<1>4. Len(Tokens) \in Nat /\ Positions = 1 .. Len(Tokens)
  BY <1>1, PositionsAre
<1>5. HasAllBehind
  <2>1. \A f : \A i \in Occurrences(f) : ~(i < pos)
    BY <1>1, <1>4 DEF Occurrences
  <2> QED BY <2>1 DEF HasAllBehind
<1>6. StaysInside
  <2>1. WellFormed => Len(Tokens) # 0
    <3> DEFINE S == {Tokens[i] : i \in DOMAIN Tokens}
    <3>1. Tokens \in Seq(S) /\ (WellFormed => Tokens # << >>)
      BY <1>1 DEF IsBody, Tokens, WellFormed
    <3> HIDE DEF S
    <3> QED BY <3>1
  <2> QED BY <1>1, <1>4, <2>1 DEF StaysInside
<1>7. WellFormedIsAccepted
  BY <1>1 DEF WellFormedIsAccepted
<1> QED BY <1>2, <1>3, <1>5, <1>6, <1>7 DEF Faithful

LEMMA RestartFaith ==
  ASSUME ParserInv, NEW s \in {"single_pass", "serde"}, result = "running", TryNext(s)
  PROVE  Faithful'
<1>1. Fresh'
  BY DEF ParserInv, ParserType, TryNext, Fresh, Features
<1>2. Fresh' => Faithful'
  BY FreshIsFaithful, PTL
<1> QED BY <1>1, <1>2

(* A parser that stands still, but for what it returns.                    *)
LEMMA StillFaith ==
  ASSUME Faithful, UNCHANGED <<body, strategy, pos, section, vals>>,
         result' = "error" => ~WellFormed \/ result = "error",
         result' \in {"running", "ok", "error"}
  PROVE  Faithful'
<1>1. KeptValues'
  BY FewerKept DEF Faithful
<1>2. /\ Tokens' = Tokens /\ (\A f : Occurrences(f)' = Occurrences(f))
      /\ (\A s : Sectioned(s)' = Sectioned(s)) /\ Single' = Single /\ WellFormed' = WellFormed
  BY SameText
<1>3. OpenedExact'
  BY <1>2 DEF Faithful, OpenedExact
<1>4. HasAllBehind'
  BY <1>2 DEF Faithful, HasAllBehind
<1>5. StaysInside'
  BY <1>2 DEF Faithful, StaysInside
<1>6. WellFormedIsAccepted'
  BY <1>2 DEF Faithful, WellFormedIsAccepted
<1> QED BY <1>1, <1>3, <1>4, <1>5, <1>6 DEF Faithful

LEMMA CompactStepFaith ==
  ASSUME ParserInv, Faithful, CompactStep
  PROVE  Faithful'
<1>1. /\ ParserType /\ InPlace /\ KeptValues /\ strategy = "compact" /\ result = "running"
      /\ More /\ CompactTakes /\ body' = body /\ strategy' = strategy /\ result' = result
  BY DEF ParserInv, Faithful, CompactStep, Running, Advance
<1>2. KeptValues'
  <2>1. CASE IsField
    <3>1. vals' = Only(Path, BytesOf(Path, Token.value)) ++ vals
      BY <2>1 DEF CompactStep
    <3>2. pos \in Occurrences(Path) /\ Token = Tokens[pos]
      BY <1>1, <2>1, TokenFacts
    <3>3. Token.value.kind = KindOf(FieldType[Path]) /\ (FieldType[Path] = "date" => Token.value.raw # NotADate)
      BY <1>1, <2>1 DEF CompactTakes, CompactReads
    <3>4. Kept(Path, pos, BytesOf(Path, Token.value))
      BY <1>1, <3>2, <3>3 DEF Kept
    <3> QED BY <1>1, <2>1, <3>1, <3>4, OneMoreKept
  <2>2. CASE ~IsField
    <3>1. vals' = vals
      BY <2>2 DEF CompactStep
    <3> QED BY <1>1, <3>1, FewerKept
  <2> QED BY <2>1, <2>2
<1> QED BY <1>1, <1>2 DEF Faithful, OpenedExact, HasAllBehind, StaysInside, WellFormedIsAccepted

LEMMA SingleOpenFaith ==
  ASSUME ParserInv, Faithful, SingleOpen
  PROVE  Faithful'
<1>1. /\ ParserType /\ InPlace /\ KeptValues /\ strategy = "single_pass" /\ result = "running"
      /\ More /\ Token.kind = "open" /\ body' = body /\ strategy' = strategy /\ result' = result
      /\ section' = IF SkipsObject THEN "skipped" ELSE Token.key
      /\ vals' = vals
  BY DEF ParserInv, Faithful, SingleOpen, Running, Advance, Opens
<1>2. KeptValues'
  BY <1>1, FewerKept
<1>3. OpenedExact'
  <2> SUFFICES ASSUME section' \in Sections
               PROVE  \E j \in Sectioned(section)' : (Tokens[j].exact)'
    BY DEF OpenedExact
  <2>1. ~SkipsObject
    BY <1>1, SectionsAre
  <2>2. section' = Token.key /\ Token.exact
    BY <1>1, <2>1 DEF SkipsObject, SingleOpen
  <2>3. pos \in Positions /\ Token = Tokens[pos]
    BY <1>1, TokenFacts DEF Positions
  <2>4. pos \in Sectioned(section') /\ Tokens[pos].exact
    BY <1>1, <2>2, <2>3 DEF Sectioned
  <2>5. Sectioned(section)' = Sectioned(section') /\ Tokens' = Tokens
    <3>1. Tokens' = Tokens /\ Positions' = Positions
      BY <1>1, SameText DEF Positions
    <3> QED BY <3>1 DEF Sectioned
  <2> QED BY <2>4, <2>5
<1> QED BY <1>1, <1>2, <1>3 DEF Faithful, HasAllBehind, StaysInside, WellFormedIsAccepted

LEMMA SingleFieldFaith ==
  ASSUME ParserInv, Faithful, SingleField
  PROVE  Faithful'
<1>1. /\ ParserType /\ InPlace /\ KeptValues /\ OpenedExact
      /\ strategy = "single_pass" /\ result = "running"
      /\ More /\ SingleTakes /\ body' = body /\ strategy' = strategy /\ result' = result
      /\ section' = section
  BY DEF ParserInv, Faithful, SingleField, Running, Advance
<1>2. KeptValues'
  <2>1. CASE IsField /\ Token.exact
    <3>1. vals' = Only(Path, BytesOf(Path, Token.value)) ++ vals
      BY <2>1 DEF SingleField
    <3>2. pos \in Occurrences(Path) /\ Token = Tokens[pos]
      BY <1>1, <2>1, TokenFacts
    <3>3. Token.value.kind = KindOf(FieldType[Path]) /\ (FieldType[Path] = "date" => Token.value.raw # NotADate)
      BY <1>1, <2>1 DEF SingleTakes, SingleReads
    <3>4. \E j \in Sectioned(Path[1]) : Tokens[j].exact
      <4>1. Path[1] = section /\ Path \in Fields
        BY <2>1 DEF IsField, Path
      <4>2. section \in Sections
        BY <4>1, SectionsAre
      <4> QED BY <1>1, <4>1, <4>2 DEF OpenedExact
    <3>5. Kept(Path, pos, BytesOf(Path, Token.value))
      BY <1>1, <2>1, <3>2, <3>3, <3>4 DEF Kept
    <3> QED BY <1>1, <2>1, <3>1, <3>5, OneMoreKept
  <2>2. CASE ~(IsField /\ Token.exact)
    <3>1. vals' = vals
      BY <2>2 DEF SingleField
    <3> QED BY <1>1, <3>1, FewerKept
  <2> QED BY <2>1, <2>2
<1>3. OpenedExact'
  BY <1>1, SameText DEF OpenedExact
<1> QED BY <1>1, <1>2, <1>3 DEF Faithful, HasAllBehind, StaysInside, WellFormedIsAccepted

LEMMA SingleCloseFaith ==
  ASSUME ParserInv, Faithful, SingleClose
  PROVE  Faithful'
<1>1. /\ KeptValues /\ strategy = "single_pass" /\ result = "running"
      /\ body' = body /\ strategy' = strategy /\ result' = result
      /\ section' = "top" /\ vals' = vals
  BY DEF Faithful, SingleClose, Running, Advance
<1>2. KeptValues'
  BY <1>1, FewerKept
<1>3. OpenedExact'
  BY <1>1, SectionsAre DEF OpenedExact
<1> QED BY <1>1, <1>2, <1>3 DEF Faithful, HasAllBehind, StaysInside, WellFormedIsAccepted

(* A well-formed body goes on behind every token but the brace that closes *)
(* it.                                                                     *)
LEMMA GoesOn ==
  ASSUME ParserType, InPlace, strategy # "compact", More, WellFormed,
         Token.kind # "close" \/ section # "top"
  PROVE  pos + 1 <= Len(Tokens)
<1>1. /\ Len(Tokens) \in Nat /\ pos \in 1 .. Len(Tokens) /\ Token = Tokens[pos]
  BY TokenFacts
<1>2. Tokens[Len(Tokens)].kind = "close" /\ SectionAt(Len(Tokens)) = "top"
  BY DEF WellFormed
<1>3. pos # Len(Tokens)
  BY <1>1, <1>2 DEF InPlace
<1> QED BY <1>1, <1>3

LEMMA SerdeOpenFaith ==
  ASSUME ParserInv, Faithful, SerdeOpen
  PROVE  Faithful'
<1>1. /\ ParserType /\ InPlace /\ KeptValues /\ HasAllBehind
      /\ strategy = "serde" /\ result = "running" /\ More /\ Token.kind = "open"
      /\ body' = body /\ strategy' = strategy /\ result' = result /\ pos' = pos + 1
      /\ vals' = IF Token.key \in Sections THEN Without(Token.key) ELSE vals
  BY DEF ParserInv, Faithful, SerdeOpen, Running, Advance, Opens
<1>2. KeptValues'
  <2>1. DOMAIN vals' \subseteq DOMAIN vals /\ \A f \in DOMAIN vals' : vals'[f] = vals[f]
    BY <1>1 DEF Without
  <2> QED BY <1>1, <2>1, FewerKept
<1>3. ASSUME Single, NEW f \in Fields, NEW i \in Occurrences(f), i < pos + 1
      PROVE  f \in DOMAIN vals'
  <2>1. i < pos
    BY <1>1, <1>3, OneMore
  <2>2. f \in DOMAIN vals
    BY <1>1, <1>3, <2>1 DEF HasAllBehind
  <2>3. ASSUME Token.key \in Sections, f \in FieldsOf(Token.key) PROVE FALSE
    <3>1. f[1] = Token.key
      BY <2>3 DEF FieldsOf
    <3>2. /\ pos \in Positions /\ Token = Tokens[pos]
          /\ Len(Tokens) \in Nat /\ Positions = 1 .. Len(Tokens)
      BY <1>1, TokenFacts DEF Positions
    <3>3. pos \in Sectioned(f[1])
      BY <1>1, <3>1, <3>2 DEF Sectioned
    <3>4. i \in Positions /\ SectionAt(i) = f[1]
      BY DEF Occurrences
    <3>5. SectionAt(i) # "top" /\ i \in 1 .. Len(Tokens) + 1
      BY <2>3, <3>1, <3>2, <3>4, SectionsAre
    <3>6. PICK j \in Sectioned(f[1]) : j < i
      BY <1>1, <3>4, <3>5, OpenedBefore DEF ParserType
    <3>7. j = pos
      BY <1>3, <2>3, <3>1, <3>3, <3>6 DEF Single
    <3> QED BY <2>1, <3>2, <3>4, <3>6, <3>7
  <2> QED BY <1>1, <2>2, <2>3 DEF Without
<1>4. HasAllBehind'
  BY <1>1, <1>3, SameText DEF HasAllBehind
<1>5. StaysInside'
  <2>1. WellFormed => pos + 1 <= Len(Tokens)
    BY <1>1, GoesOn
  <2> QED BY <1>1, <2>1, SameText DEF StaysInside
<1> QED BY <1>1, <1>2, <1>4, <1>5 DEF Faithful, OpenedExact, WellFormedIsAccepted

LEMMA SerdeFieldFaith ==
  ASSUME ParserInv, Faithful, SerdeField
  PROVE  Faithful'
<1>1. /\ ParserType /\ InPlace /\ KeptValues /\ HasAllBehind
      /\ strategy = "serde" /\ result = "running" /\ More /\ Token.kind = "field" /\ SerdeTakes
      /\ body' = body /\ strategy' = strategy /\ result' = result /\ pos' = pos + 1
  BY DEF ParserInv, Faithful, SerdeField, Running, Advance
<1> DEFINE All(w) == \A f \in Fields : \A i \in Occurrences(f) : i < pos + 1 => f \in DOMAIN w
<1>2. ASSUME IsField PROVE KeptValues' /\ (Single => All(vals'))
  <2>1. Path[1] # "top"
    BY <1>2, FieldsAre DEF IsField
  <2>2. ~IsNull
    BY <2>1 DEF IsNull
  <2>3. vals' = Only(Path, SerdeValue(Path, Token.value)) ++ vals
    BY <1>2, <2>2 DEF SerdeField
  <2>4. pos \in Occurrences(Path) /\ Token = Tokens[pos]
    BY <1>1, <1>2, TokenFacts
  <2>5. Token.value.kind = KindOf(FieldType[Path])
    BY <1>1, <1>2 DEF SerdeTakes, SerdeReads
  <2>6. Kept(Path, pos, SerdeValue(Path, Token.value))
    BY <1>1, <2>4, <2>5 DEF Kept
  <2>7. KeptValues'
    BY <1>1, <1>2, <2>3, <2>6, OneMoreKept
  <2>8. DOMAIN vals' = DOMAIN vals \cup {Path}
    BY <2>3 DEF ++, Only
  <2>9. ASSUME Single, NEW f \in Fields, NEW i \in Occurrences(f), i < pos + 1
        PROVE  f \in DOMAIN vals'
    <3>1. CASE i < pos
      BY <1>1, <2>8, <2>9, <3>1 DEF HasAllBehind
    <3>2. CASE f = <<SectionAt(pos), Token.key>>
      <4>1. section = SectionAt(pos)
        BY <1>1, <1>2, TokenFacts
      <4> QED BY <2>8, <3>2, <4>1 DEF Path
    <3>3. i < pos \/ f = <<SectionAt(pos), Token.key>>
      BY <1>1, <2>9, OneMore
    <3> QED BY <3>1, <3>2, <3>3
  <2> QED BY <2>7, <2>9
<1>3. ASSUME ~IsField PROVE KeptValues' /\ (Single => All(vals'))
  <2>1. vals' = IF IsNull THEN Without("last_transaction") ELSE vals
    BY <1>3 DEF SerdeField
  <2>2. DOMAIN vals' \subseteq DOMAIN vals /\ \A f \in DOMAIN vals' : vals'[f] = vals[f]
    BY <2>1 DEF Without
  <2>3. KeptValues'
    BY <1>1, <2>2, FewerKept
  <2>4. ASSUME Single, NEW f \in Fields, NEW i \in Occurrences(f), i < pos + 1
        PROVE  f \in DOMAIN vals'
    <3>0. /\ pos \in Positions /\ Token = Tokens[pos]
          /\ Len(Tokens) \in Nat /\ Positions = 1 .. Len(Tokens)
      BY <1>1, TokenFacts DEF Positions
    <3>1. i < pos
      <4>1. ASSUME f = <<SectionAt(pos), Token.key>> PROVE FALSE
        <5>1. SectionAt(pos) \in Sections
          BY <4>1, SectionsAre
        <5>2. section = SectionAt(pos)
          BY <1>1, <5>1, SectionsAre DEF InPlace
        <5> QED BY <1>1, <1>3, <4>1, <5>2 DEF IsField, Path
      <4> QED BY <1>1, <2>4, <4>1, OneMore
    <3>2. f \in DOMAIN vals
      BY <1>1, <2>4, <3>1 DEF HasAllBehind
    <3>3. ASSUME IsNull, f \in FieldsOf("last_transaction") PROVE FALSE
      <4>1. f[1] = "last_transaction"
        BY <3>3 DEF FieldsOf
      <4>2. i \in Positions /\ SectionAt(i) = "last_transaction"
        BY <4>1 DEF Occurrences
      <4>3. \E j \in Sectioned("last_transaction") : j < i
        <5>1. SectionAt(i) # "top" /\ i \in 1 .. Len(Tokens) + 1
          BY <3>0, <4>2
        <5> QED BY <1>1, <4>2, <5>1, OpenedBefore DEF ParserType
      <4>4. pos \in Nulls
        <5>1. section = "top" /\ Token.key = "last_transaction"
          BY <3>3 DEF IsNull, Path
        <5>2. SectionAt(pos) = "top"
          BY <1>1, <5>1 DEF InPlace
        <5> QED BY <1>1, <3>0, <5>1, <5>2 DEF Nulls, Occurrences
      <4> QED BY <2>4, <4>3, <4>4 DEF Single
    <3>4. DOMAIN Without("last_transaction") = DOMAIN vals \ FieldsOf("last_transaction")
      BY DEF Without
    <3> QED BY <2>1, <3>2, <3>3, <3>4
  <2> QED BY <2>3, <2>4
<1>4. KeptValues' /\ (Single => All(vals'))
  BY <1>2, <1>3
<1>5. HasAllBehind'
  BY <1>1, <1>4, SameText DEF HasAllBehind
<1>6. StaysInside'
  <2>1. WellFormed => pos + 1 <= Len(Tokens)
    BY <1>1, GoesOn
  <2> QED BY <1>1, <2>1, SameText DEF StaysInside
<1> QED BY <1>1, <1>4, <1>5, <1>6 DEF Faithful, OpenedExact, WellFormedIsAccepted

LEMMA SerdeCloseFaith ==
  ASSUME ParserInv, Faithful, SerdeClose
  PROVE  Faithful'
<1>1. /\ ParserType /\ InPlace /\ KeptValues /\ HasAllBehind
      /\ strategy = "serde" /\ result = "running" /\ More /\ Token.kind = "close" /\ section # "top"
      /\ body' = body /\ strategy' = strategy /\ result' = result /\ pos' = pos + 1
      /\ vals' = vals
  BY DEF ParserInv, Faithful, SerdeClose, Running, Advance
<1>2. KeptValues'
  BY <1>1, FewerKept
<1>3. ASSUME Single, NEW f \in Fields, NEW i \in Occurrences(f), i < pos + 1
      PROVE  f \in DOMAIN vals
  <2>1. i < pos
    BY <1>1, <1>3, OneMore
  <2> QED BY <1>1, <1>3, <2>1 DEF HasAllBehind
<1>4. HasAllBehind'
  BY <1>1, <1>3, SameText DEF HasAllBehind
<1>5. StaysInside'
  <2>1. WellFormed => pos + 1 <= Len(Tokens)
    BY <1>1, GoesOn
  <2> QED BY <1>1, <2>1, SameText DEF StaysInside
<1> QED BY <1>1, <1>2, <1>4, <1>5 DEF Faithful, OpenedExact, WellFormedIsAccepted

(* Where every token of a well-formed body is, the last parser takes it.   *)
LEMMA SerdeTakesIt ==
  ASSUME ParserInv, Faithful, WellFormed, strategy = "serde", More, ~AtEnd
  PROVE  SerdeTakes
<1>1. ParserType /\ InPlace /\ HasAllBehind
  BY DEF ParserInv, Faithful
<1>2. /\ Len(Tokens) \in Nat /\ Positions = 1 .. Len(Tokens) /\ pos \in Positions /\ Token = Tokens[pos]
      /\ IsBody(body)
  BY <1>1, TokenFacts DEF Positions, ParserType
<1>3. Single
  BY <1>2, WellFormedIsSingle
<1>4. ~Token.loose
  BY <1>2 DEF WellFormed
<1>5. ASSUME IsField PROVE SerdeReads(Path, Token.value)
  <2>1. pos \in Occurrences(Path) /\ Path \in Fields
    BY <1>1, <1>5, TokenFacts DEF IsField
  <2> QED BY <1>2, <2>1, WellFormedReads
<1>6. ASSUME Token.kind = "field", section = "top", Token.key \in Sections PROVE IsNull
  <2>1. SectionAt(pos) = "top"
    BY <1>1, <1>6 DEF InPlace
  <2>2. pos \in Occurrences(<<"top", Token.key>>)
    BY <1>2, <1>6, <2>1 DEF Occurrences
  <2>3. Token.key = "last_transaction"
    BY <1>6, <2>2 DEF WellFormed
  <2>4. pos \in Nulls
    BY <2>2, <2>3 DEF Nulls
  <2>5. Token.value.kind = "null"
    BY <1>2, <2>4 DEF WellFormed
  <2> QED BY <1>6, <2>3, <2>5 DEF IsNull, Path
<1>7. ASSUME Token.kind = "close", section \in Sections, NEW f \in FieldsOf(section)
      PROVE  f \in DOMAIN vals
  <2>1. f \in Fields /\ f[1] = section /\ section \notin {"top", "skipped", "end"}
    BY <1>7, SectionsAre DEF FieldsOf
  <2>2. SectionAt(pos) = section /\ SectionAt(pos) # "top"
    BY <1>1, <2>1 DEF InPlace
  <2>3. PICK o \in Sectioned(section) : o < pos
    BY <1>2, <2>2, OpenedBefore
  <2>4. Occurrences(f) # {}
    <3>1. CASE f \in Required
      <4>1. Cardinality(Occurrences(f)) = 1
        BY <3>1 DEF WellFormed
      <4>2. Cardinality({}) = 0
        BY FS_EmptySet
      <4> QED BY <4>1, <4>2
    <3>2. CASE f \in LastFields
      <4>1. section = "last_transaction"
        BY <2>1, <3>2, LastFieldsAre
      <4>2. Cardinality(Occurrences(f)) = Cardinality(Sectioned("last_transaction"))
        BY <3>2 DEF WellFormed
      <4>3. IsFiniteSet(Sectioned("last_transaction"))
        <5>1. IsFiniteSet(1 .. Len(Tokens)) /\ Sectioned("last_transaction") \in SUBSET (1 .. Len(Tokens))
          BY <1>2, FS_Interval DEF Sectioned
        <5> QED BY <5>1, FS_Subset
      <4>4. Cardinality(Sectioned("last_transaction")) # 0
        BY <2>3, <4>1, <4>3, FS_EmptySet
      <4>5. Cardinality({}) = 0
        BY FS_EmptySet
      <4> QED BY <4>2, <4>4, <4>5
    <3> QED BY <2>1, <3>1, <3>2 DEF Required
  <2>5. PICK i \in Occurrences(f) : TRUE
    BY <2>4
  <2>6. i \in Positions /\ SectionAt(i) = section /\ Tokens[i].kind = "field"
    BY <2>1 DEF Occurrences
  <2>7. i < pos
    <3>1. Tokens[pos].kind = "close" /\ SectionAt(pos) \in Sections /\ SectionAt(i) = SectionAt(pos)
      BY <1>2, <1>7, <2>2, <2>6
    <3> QED BY <1>2, <1>3, <2>6, <3>1, BehindTheBrace
  <2> QED BY <1>1, <1>3, <2>1, <2>5, <2>7 DEF HasAllBehind
<1>8. Token.kind = "close" /\ section \in Sections => FieldsOf(section) \subseteq DOMAIN vals
  BY <1>7
<1> QED BY <1>4, <1>5, <1>6, <1>8 DEF SerdeTakes

(* At the end of a well-formed body the last parser has what it needs.     *)
LEMMA SerdeHasIt ==
  ASSUME ParserInv, Faithful, WellFormed, strategy = "serde", AtEnd
  PROVE  SerdeComplete
<1>1. ParserType /\ InPlace /\ HasAllBehind /\ KeptValues /\ IsBody(body) /\ More
  BY DEF ParserInv, Faithful, ParserType, AtEnd
<1>2. pos \in Positions /\ Token = Tokens[pos]
  BY <1>1, TokenFacts DEF Positions
<1>3. ~Token.loose /\ ~body.tail
  BY <1>2 DEF WellFormed
<1>4. ASSUME NEW f \in Required PROVE f \in DOMAIN vals
  <2>1. Cardinality(Occurrences(f)) = 1 /\ Cardinality({}) = 0
    BY FS_EmptySet DEF WellFormed
  <2>2. PICK i \in Occurrences(f) : TRUE
    BY <2>1
  <2>3. i < pos
    BY <1>1, EndOfBody
  <2> QED BY <1>1, <2>2, <2>3, WellFormedIsSingle DEF HasAllBehind, Required
<1>5. ASSUME NEW f \in DOMAIN vals, FieldType[f] = "date" PROVE vals[f] # NotADate
  <2>1. PICK i \in Occurrences(f) : Kept(f, i, vals[f])
    BY <1>1 DEF KeptValues
  <2>2. f \in Fields
    BY DEF ParserInv, ReadFromBody
  <2>3. SerdeValue(f, Tokens[i].value) # NotADate
    BY <1>1, <1>5, <2>2, WellFormedReads
  <2> QED BY <2>1, <2>3 DEF Kept
<1> QED BY <1>3, <1>4, <1>5 DEF SerdeComplete

LEMMA RefusesNoneWellFormed ==
  ASSUME ParserInv, Faithful, SerdeRefuse
  PROVE  ~WellFormed
<1> SUFFICES ASSUME WellFormed PROVE FALSE
  OBVIOUS
<1>1. strategy = "serde" /\ StaysInside
  BY DEF SerdeRefuse, Running, Faithful
<1>2. More
  BY <1>1 DEF StaysInside, More, Tokens
<1>3. CASE AtEnd
  BY <1>1, <1>2, <1>3, SerdeHasIt DEF SerdeRefuse
<1>4. CASE ~AtEnd
  BY <1>1, <1>2, <1>4, SerdeTakesIt DEF SerdeRefuse
<1> QED BY <1>3, <1>4

LEMMA FaithfulStep ==
  ASSUME ParserInv, Faithful, [Next]_vars
  PROVE  Faithful'
<1>0. result \in {"running", "ok", "error"}
  BY DEF ParserInv, ParserType
<1>1. CASE CompactStep
  BY <1>1, CompactStepFaith
<1>2. CASE CompactFinish \/ SingleFinish
  BY <1>2, StillFaith DEF CompactFinish, SingleFinish, Accept
<1>3. CASE CompactRefuse
  BY <1>3, RestartFaith DEF CompactRefuse, Running
<1>4. CASE SingleOpen
  BY <1>4, SingleOpenFaith
<1>5. CASE SingleField
  BY <1>5, SingleFieldFaith
<1>6. CASE SingleClose
  BY <1>6, SingleCloseFaith
<1>7. CASE SingleRefuse
  BY <1>7, RestartFaith DEF SingleRefuse, Running
<1>8. CASE SerdeOpen
  BY <1>8, SerdeOpenFaith
<1>9. CASE SerdeField
  BY <1>9, SerdeFieldFaith
<1>10. CASE SerdeClose
  BY <1>10, SerdeCloseFaith
<1>11. CASE SerdeFinish
  BY <1>11, StillFaith DEF SerdeFinish
<1>12. CASE SerdeRefuse
  <2>1. ~WellFormed
    BY <1>12, RefusesNoneWellFormed
  <2>2. result' = "error" /\ UNCHANGED <<body, strategy, pos, section, vals>>
    BY <1>12 DEF SerdeRefuse
  <2> QED BY <2>1, <2>2, StillFaith
<1>13. CASE UNCHANGED vars
  <2>1. UNCHANGED <<body, strategy, pos, section, vals>> /\ result' = result
    BY <1>13 DEF vars
  <2> QED BY <1>0, <2>1, StillFaith
<1> QED BY <1>1, <1>2, <1>3, <1>4, <1>5, <1>6, <1>7, <1>8, <1>9, <1>10, <1>11, <1>12, <1>13 DEF Next

-----------------------------------------------------------------------------
(* The calendar: days_from_civil counts days as they are.                  *)

(* The leap years of the years 1 .. y.                                     *)
LeapsTo(y) == y \div 4 - y \div 100 + y \div 400

LEMMA DivStep ==
  ASSUME NEW y \in Nat \ {0}
  PROVE  /\ y \div 4 = (y - 1) \div 4 + (IF y % 4 = 0 THEN 1 ELSE 0)
         /\ y \div 100 = (y - 1) \div 100 + (IF y % 100 = 0 THEN 1 ELSE 0)
         /\ y \div 400 = (y - 1) \div 400 + (IF y % 400 = 0 THEN 1 ELSE 0)
  OBVIOUS

LEMMA ModSteps ==
  ASSUME NEW y \in Nat
  PROVE  (y % 400 = 0 => y % 100 = 0) /\ (y % 100 = 0 => y % 4 = 0)
  OBVIOUS

LEMMA LeapStep ==
  ASSUME NEW y \in Nat \ {0}
  PROVE  LeapsTo(y) = LeapsTo(y - 1) + (IF IsLeap(y) THEN 1 ELSE 0)
<1> DEFINE a == y \div 4
           b == y \div 100
           c == y \div 400
           p == (y - 1) \div 4
           q == (y - 1) \div 100
           r == (y - 1) \div 400
<1>1. a \in Int /\ b \in Int /\ c \in Int /\ p \in Int /\ q \in Int /\ r \in Int
  OBVIOUS
<1>2. /\ a = p + (IF y % 4 = 0 THEN 1 ELSE 0)
      /\ b = q + (IF y % 100 = 0 THEN 1 ELSE 0)
      /\ c = r + (IF y % 400 = 0 THEN 1 ELSE 0)
  BY DivStep
<1>3. (y % 400 = 0 => y % 100 = 0) /\ (y % 100 = 0 => y % 4 = 0)
  BY ModSteps
<1>4. IsLeap(y) <=> y % 4 = 0 /\ (y % 100 # 0 \/ y % 400 = 0)
  BY DEF IsLeap
<1>5. LeapsTo(y) = a - b + c /\ LeapsTo(y - 1) = p - q + r
  BY DEF LeapsTo
<1> HIDE DEF a, b, c, p, q, r
<1> QED BY <1>1, <1>2, <1>3, <1>4, <1>5

LEMMA LeapYears ==
  ASSUME NEW y \in Nat, y >= 1970
  PROVE  Cardinality({x \in 1970 .. y - 1 : IsLeap(x)}) = LeapsTo(y - 1) - 477
<1> DEFINE L(n) == {x \in 1970 .. 1970 + n - 1 : IsLeap(x)}
           T == {n \in Nat : IsFiniteSet(L(n)) /\ Cardinality(L(n)) = LeapsTo(1970 + n - 1) - 477}
<1>1. 0 \in T
  <2>1. L(0) = {}
    OBVIOUS
  <2>2. LeapsTo(1970 + 0 - 1) = 477
    <3>1. 1970 + 0 - 1 = 1969
      OBVIOUS
    <3>2. 1969 \div 4 = 492 /\ 1969 \div 100 = 19 /\ 1969 \div 400 = 4
      OBVIOUS
    <3> QED BY <3>1, <3>2 DEF LeapsTo
  <2>3. IsFiniteSet(L(0)) /\ Cardinality(L(0)) = 0
    BY <2>1, FS_EmptySet
  <2> HIDE DEF L
  <2> QED BY <2>2, <2>3
<1>2. ASSUME NEW n \in Nat, n \in T PROVE n + 1 \in T
  <2> DEFINE z == 1970 + n
  <2>1. z \in Nat \ {0} /\ 1970 + (n + 1) - 1 = z /\ 1970 + n - 1 = z - 1
    OBVIOUS
  <2>2. L(n + 1) = IF IsLeap(z) THEN L(n) \cup {z} ELSE L(n)
    <3>1. \A x : x \in 1970 .. z <=> x \in 1970 .. z - 1 \/ x = z
      BY <2>1
    <3> HIDE DEF z
    <3> QED BY <2>1, <3>1
  <2>3. z \notin L(n)
    BY <2>1
  <2>4. IsFiniteSet(L(n)) /\ Cardinality(L(n)) = LeapsTo(z - 1) - 477 /\ Cardinality(L(n)) \in Nat
    BY <1>2, <2>1, FS_CardinalityType
  <2>5. /\ IsFiniteSet(L(n + 1))
        /\ Cardinality(L(n + 1)) = Cardinality(L(n)) + (IF IsLeap(z) THEN 1 ELSE 0)
    <3> HIDE DEF L, z
    <3>1. CASE IsLeap(z)
      BY <2>2, <2>3, <2>4, <3>1, FS_AddElement
    <3>2. CASE ~IsLeap(z)
      BY <2>2, <2>4, <3>2
    <3> QED BY <3>1, <3>2
  <2>6. LeapsTo(z) = LeapsTo(z - 1) + (IF IsLeap(z) THEN 1 ELSE 0)
    BY <2>1, LeapStep
  <2>7. LeapsTo(z - 1) \in Int
    <3>1. z - 1 \in Int
      BY <2>1
    <3> DEFINE w == z - 1
    <3> HIDE DEF w
    <3>2. w \in Int => LeapsTo(w) \in Int
      BY DEF LeapsTo
    <3> QED BY <3>1, <3>2 DEF w
  <2> HIDE DEF L, z
  <2>8. Cardinality(L(n + 1)) = LeapsTo(z) - 477
    BY <2>4, <2>5, <2>6, <2>7
  <2> QED BY <2>1, <2>5, <2>8
<1>3. y - 1970 \in T
  <2> HIDE DEF T
  <2>1. \A n \in Nat : n \in T
    BY <1>1, <1>2, AllNumbersOfSet
  <2> QED BY <2>1
<1>4. 1970 + (y - 1970) - 1 = y - 1
  OBVIOUS
<1> QED BY <1>3, <1>4

February(y) == IF IsLeap(y) THEN 29 ELSE 28

LEMMA MonthDaysAre ==
  ASSUME NEW y
  PROVE  /\ \A m \in {1, 3, 5, 7, 8, 10, 12} : MonthDays(y, m) = 31
         /\ \A m \in {4, 6, 9, 11} : MonthDays(y, m) = 30
         /\ MonthDays(y, 2) = February(y)
<1>1. ASSUME NEW m \in {1, 3, 5, 7, 8, 10, 12} PROVE MonthDays(y, m) = 31
  <2>1. m # 2 /\ m \notin {4, 6, 9, 11}
    OBVIOUS
  <2> QED BY <2>1 DEF MonthDays
<1>2. ASSUME NEW m \in {4, 6, 9, 11} PROVE MonthDays(y, m) = 30
  <2>1. m # 2
    OBVIOUS
  <2> QED BY <1>2, <2>1 DEF MonthDays
<1>3. MonthDays(y, 2) = February(y)
  BY DEF MonthDays, February
<1> QED BY <1>1, <1>2, <1>3

(* The days of the months before m.                                        *)
DaysBefore(y, m) ==
  Cardinality({md \in (1 .. m - 1) \X (1 .. 31) : md[2] <= MonthDays(y, md[1])})

LEMMA DaysBeforeStep ==
  ASSUME NEW y, NEW m \in 1 .. 12,
         IsFiniteSet({md \in (1 .. m - 1) \X (1 .. 31) : md[2] <= MonthDays(y, md[1])})
  PROVE  /\ IsFiniteSet({md \in (1 .. m) \X (1 .. 31) : md[2] <= MonthDays(y, md[1])})
         /\ DaysBefore(y, m + 1) = DaysBefore(y, m) + MonthDays(y, m)
         /\ DaysBefore(y, m) \in Nat
<1> DEFINE A == {md \in (1 .. m - 1) \X (1 .. 31) : md[2] <= MonthDays(y, md[1])}
           B == {m} \X (1 .. MonthDays(y, m))
           C == {md \in (1 .. m) \X (1 .. 31) : md[2] <= MonthDays(y, md[1])}
<1>1. MonthDays(y, m) \in 28 .. 31
  <2>1. m \in {1, 3, 5, 7, 8, 10, 12} \/ m \in {4, 6, 9, 11} \/ m = 2
    OBVIOUS
  <2>2. February(y) \in 28 .. 31
    BY DEF February
  <2> QED BY <2>1, <2>2, MonthDaysAre
<1>2. A \cup B = C
  <2>1. \A n : n \in 1 .. m <=> n \in 1 .. m - 1 \/ n = m
    OBVIOUS
  <2> DEFINE D == 1 .. MonthDays(y, m)
  <2>2. \A n : n \in D <=> n \in 1 .. 31 /\ n <= MonthDays(y, m)
    BY <1>1
  <2>3. ASSUME NEW md \in A PROVE md \in C
    BY <2>1
  <2>4. ASSUME NEW md \in B PROVE md \in C
    <3>1. md = <<md[1], md[2]>> /\ md[1] = m /\ md[2] \in D
      OBVIOUS
    <3>2. md[1] \in 1 .. m /\ md[2] \in 1 .. 31 /\ md[2] <= MonthDays(y, md[1])
      BY <2>2, <3>1
    <3> QED BY <3>1, <3>2
  <2>5. ASSUME NEW md \in C PROVE md \in A \cup B
    <3>1. md = <<md[1], md[2]>> /\ md[1] \in 1 .. m /\ md[2] \in 1 .. 31 /\ md[2] <= MonthDays(y, md[1])
      OBVIOUS
    <3>2. CASE md[1] = m
      <4>1. md[2] \in D
        BY <2>2, <3>1, <3>2
      <4> QED BY <3>1, <3>2, <4>1
    <3>3. CASE md[1] \in 1 .. m - 1
      BY <3>1, <3>3
    <3> QED BY <2>1, <3>1, <3>2, <3>3
  <2> HIDE DEF A, B, C
  <2> QED BY <2>3, <2>4, <2>5
<1>3. A \cap B = {}
  OBVIOUS
<1>4. IsFiniteSet(B) /\ Cardinality(B) = MonthDays(y, m)
  <2>1. IsFiniteSet({m}) /\ Cardinality({m}) = 1
    BY FS_Singleton
  <2> DEFINE k == MonthDays(y, m)
  <2>2. k \in Nat /\ 1 \in Int /\ k \in Int /\ ~(1 > k) /\ k - 1 + 1 = k
    BY <1>1
  <2> HIDE DEF k
  <2>3. IsFiniteSet(1 .. k) /\ Cardinality(1 .. k) = k
    <3>1. Cardinality(1 .. k) = IF 1 > k THEN 0 ELSE k - 1 + 1
      BY <2>2, FS_Interval
    <3> QED BY <2>2, <3>1, FS_Interval
  <2>4. IsFiniteSet({m} \X (1 .. k)) /\ Cardinality({m} \X (1 .. k)) = 1 * k
    <3> PICK S, T : S = {m} /\ T = 1 .. k
      OBVIOUS
    <3>1. IsFiniteSet(S) /\ Cardinality(S) = 1 /\ IsFiniteSet(T) /\ Cardinality(T) = k
      BY <2>1, <2>3
    <3>2. IsFiniteSet(S \X T) /\ Cardinality(S \X T) = Cardinality(S) * Cardinality(T)
      BY <3>1, FS_Product
    <3> QED BY <3>1, <3>2
  <2> QED BY <2>2, <2>4 DEF k
<1>5. IsFiniteSet(A) /\ Cardinality(A) \in Nat
  BY FS_CardinalityType
<1>6. IsFiniteSet(C) /\ Cardinality(C) = Cardinality(A) + MonthDays(y, m)
  <2>1. Cardinality({}) = 0
    BY FS_EmptySet
  <2> HIDE DEF A, B, C
  <2>2. /\ IsFiniteSet(A \cup B)
        /\ Cardinality(A \cup B) = Cardinality(A) + Cardinality(B) - Cardinality(A \cap B)
    BY <1>4, <1>5, FS_Union
  <2>3. Cardinality(A \cap B) = 0
    BY <1>3, <2>1
  <2>4. Cardinality(A \cup B) = Cardinality(A) + MonthDays(y, m) - 0
    BY <1>4, <2>2, <2>3
  <2>5. Cardinality(A) + MonthDays(y, m) - 0 = Cardinality(A) + MonthDays(y, m)
    BY <1>1, <1>5
  <2> QED BY <1>2, <2>2, <2>4, <2>5
<1>7. (m + 1) - 1 = m
  OBVIOUS
<1>8. DaysBefore(y, m + 1) = Cardinality(C) /\ DaysBefore(y, m) = Cardinality(A)
  BY <1>7 DEF DaysBefore
<1> QED BY <1>5, <1>6, <1>8

(* The days before each month, by the length of February.                  *)
LEMMA DaysBeforeMonths ==
  ASSUME NEW y
  PROVE  /\ DaysBefore(y, 1) = 0 /\ DaysBefore(y, 2) = 31
         /\ DaysBefore(y, 3) = 31 + February(y) /\ DaysBefore(y, 4) = 62 + February(y)
         /\ DaysBefore(y, 5) = 92 + February(y) /\ DaysBefore(y, 6) = 123 + February(y)
         /\ DaysBefore(y, 7) = 153 + February(y) /\ DaysBefore(y, 8) = 184 + February(y)
         /\ DaysBefore(y, 9) = 215 + February(y) /\ DaysBefore(y, 10) = 245 + February(y)
         /\ DaysBefore(y, 11) = 276 + February(y) /\ DaysBefore(y, 12) = 306 + February(y)
<1> DEFINE Fin(m) == IsFiniteSet({md \in (1 .. m - 1) \X (1 .. 31) : md[2] <= MonthDays(y, md[1])})
<1>1. Fin(1) /\ DaysBefore(y, 1) = 0
  <2>1. {md \in (1 .. 1 - 1) \X (1 .. 31) : md[2] <= MonthDays(y, md[1])} = {}
    OBVIOUS
  <2> QED BY <2>1, FS_EmptySet DEF DaysBefore
<1>2. \A m \in 1 .. 12 : Fin(m) => Fin(m + 1) /\ DaysBefore(y, m + 1) = DaysBefore(y, m) + MonthDays(y, m)
  <2> SUFFICES ASSUME NEW m \in 1 .. 12, Fin(m)
               PROVE  Fin(m + 1) /\ DaysBefore(y, m + 1) = DaysBefore(y, m) + MonthDays(y, m)
    OBVIOUS
  <2>1. (m + 1) - 1 = m
    OBVIOUS
  <2>2. IsFiniteSet({md \in (1 .. m) \X (1 .. 31) : md[2] <= MonthDays(y, md[1])})
    BY DaysBeforeStep
  <2>3. DaysBefore(y, m + 1) = DaysBefore(y, m) + MonthDays(y, m)
    BY DaysBeforeStep
  <2> QED BY <2>1, <2>2, <2>3
<1>3. February(y) \in Int
  BY DEF February
<1> HIDE DEF Fin
<1>4. /\ \A m \in {1, 3, 5, 7, 8, 10, 12} : MonthDays(y, m) = 31
      /\ \A m \in {4, 6, 9, 11} : MonthDays(y, m) = 30
      /\ MonthDays(y, 2) = February(y)
  BY MonthDaysAre
<1>5. Fin(2) /\ DaysBefore(y, 2) = 31
  BY <1>1, <1>2, <1>4
<1>6. Fin(3) /\ DaysBefore(y, 3) = 31 + February(y)
  BY <1>2, <1>3, <1>4, <1>5
<1>7. Fin(4) /\ DaysBefore(y, 4) = 62 + February(y)
  BY <1>2, <1>3, <1>4, <1>6
<1>8. Fin(5) /\ DaysBefore(y, 5) = 92 + February(y)
  BY <1>2, <1>3, <1>4, <1>7
<1>9. Fin(6) /\ DaysBefore(y, 6) = 123 + February(y)
  BY <1>2, <1>3, <1>4, <1>8
<1>10. Fin(7) /\ DaysBefore(y, 7) = 153 + February(y)
  BY <1>2, <1>3, <1>4, <1>9
<1>11. Fin(8) /\ DaysBefore(y, 8) = 184 + February(y)
  BY <1>2, <1>3, <1>4, <1>10
<1>12. Fin(9) /\ DaysBefore(y, 9) = 215 + February(y)
  BY <1>2, <1>3, <1>4, <1>11
<1>13. Fin(10) /\ DaysBefore(y, 10) = 245 + February(y)
  BY <1>2, <1>3, <1>4, <1>12
<1>14. Fin(11) /\ DaysBefore(y, 11) = 276 + February(y)
  BY <1>2, <1>3, <1>4, <1>13
<1>15. Fin(12) /\ DaysBefore(y, 12) = 306 + February(y)
  BY <1>2, <1>3, <1>4, <1>14
<1> QED BY <1>1, <1>5, <1>6, <1>7, <1>8, <1>9, <1>10, <1>11, <1>12, <1>13, <1>14, <1>15

(* The days of whole years, by the era, the year of the era and the leap   *)
(* years.                                                                  *)
LEMMA YearsOfEra ==
  ASSUME NEW y \in Nat
  PROVE  (y \div 400) * 146097 + (y - (y \div 400) * 400) * 365
           + (y - (y \div 400) * 400) \div 4 - (y - (y \div 400) * 400) \div 100
         = 365 * y + LeapsTo(y)
<1> DEFINE e == y \div 400
           r == y - 400 * e
<1>1. e \in Nat /\ r \in Nat /\ y = 400 * e + r /\ y \div 400 = e
  OBVIOUS
<1>2. y - (y \div 400) * 400 = r
  BY <1>1
<1> HIDE DEF e, r
<1>3. y \div 4 = 100 * e + r \div 4
  BY <1>1
<1>4. y \div 100 = 4 * e + r \div 100
  BY <1>1
<1> DEFINE p == r \div 4
           q == r \div 100
<1>5. p \in Int /\ q \in Int
  BY <1>1
<1>6. LeapsTo(y) = (100 * e + p) - (4 * e + q) + e
  BY <1>1, <1>3, <1>4 DEF LeapsTo
<1> SUFFICES e * 146097 + r * 365 + p - q = 365 * y + LeapsTo(y)
  BY <1>1, <1>2
<1> HIDE DEF p, q
<1>7. e * 146097 + r * 365 + p - q = 365 * (400 * e + r) + ((100 * e + p) - (4 * e + q) + e)
  BY <1>1, <1>5
<1> QED BY <1>1, <1>6, <1>7

LEMMA CivilDays ==
  ASSUME NEW t \in Dates, MarchYear(t) \in Nat, DayOfMarchYear(t) \in Int
  PROVE  DaysFromCivil(t) = 365 * MarchYear(t) + LeapsTo(MarchYear(t)) + DayOfMarchYear(t) - 719468
<1> PICK y \in Nat, d \in Int : y = MarchYear(t) /\ d = DayOfMarchYear(t)
  OBVIOUS
<1> DEFINE e == y \div 400
           r == y - e * 400
           p == r \div 4
           q == r \div 100
<1>1. Era(t) = e /\ YearOfEra(t) = r /\ DayOfEra(t) = r * 365 + p - q + d
  BY DEF Era, YearOfEra, DayOfEra
<1>2. DaysFromCivil(t) = e * 146097 + (r * 365 + p - q + d) - 719468
  BY <1>1 DEF DaysFromCivil
<1>3. e * 146097 + r * 365 + p - q = 365 * y + LeapsTo(y)
  BY YearsOfEra
<1>4. e \in Int /\ r \in Int
  OBVIOUS
<1>5. p \in Int /\ q \in Int
  <2> HIDE DEF r
  <2> QED BY <1>4
<1>6. LeapsTo(y) \in Int
  BY DEF LeapsTo
<1> HIDE DEF e, r, p, q
<1>7. DaysFromCivil(t) = 365 * y + LeapsTo(y) + d - 719468
  BY <1>2, <1>3, <1>4, <1>5, <1>6
<1> QED BY <1>7

(* The days of a year that begins in March before each month.              *)
LEMMA MarchDays ==
  ASSUME NEW t \in Dates, NEW m, NEW d \in Int, m = t.month, d = t.day
  PROVE  /\ m = 1 => DayOfMarchYear(t) = 306 + d - 1
         /\ m = 2 => DayOfMarchYear(t) = 337 + d - 1
         /\ m = 3 => DayOfMarchYear(t) = 0 + d - 1
         /\ m = 4 => DayOfMarchYear(t) = 31 + d - 1
         /\ m = 5 => DayOfMarchYear(t) = 61 + d - 1
         /\ m = 6 => DayOfMarchYear(t) = 92 + d - 1
         /\ m = 7 => DayOfMarchYear(t) = 122 + d - 1
         /\ m = 8 => DayOfMarchYear(t) = 153 + d - 1
         /\ m = 9 => DayOfMarchYear(t) = 184 + d - 1
         /\ m = 10 => DayOfMarchYear(t) = 214 + d - 1
         /\ m = 11 => DayOfMarchYear(t) = 245 + d - 1
         /\ m = 12 => DayOfMarchYear(t) = 275 + d - 1
<1>2. m = 1 => DayOfMarchYear(t) = 306 + d - 1
  <2> SUFFICES ASSUME m = 1 PROVE DayOfMarchYear(t) = 306 + d - 1
    OBVIOUS
  <2>1. DayOfMarchYear(t) = (153 * 10 + 2) \div 5 + d - 1
    BY DEF DayOfMarchYear
  <2>2. (153 * 10 + 2) \div 5 = 306
    OBVIOUS
  <2> QED BY <2>1, <2>2
<1>3. m = 2 => DayOfMarchYear(t) = 337 + d - 1
  <2> SUFFICES ASSUME m = 2 PROVE DayOfMarchYear(t) = 337 + d - 1
    OBVIOUS
  <2>1. DayOfMarchYear(t) = (153 * 11 + 2) \div 5 + d - 1
    BY DEF DayOfMarchYear
  <2>2. (153 * 11 + 2) \div 5 = 337
    OBVIOUS
  <2> QED BY <2>1, <2>2
<1>4. m = 3 => DayOfMarchYear(t) = 0 + d - 1
  <2> SUFFICES ASSUME m = 3 PROVE DayOfMarchYear(t) = 0 + d - 1
    OBVIOUS
  <2>1. DayOfMarchYear(t) = (153 * 0 + 2) \div 5 + d - 1
    BY DEF DayOfMarchYear
  <2>2. (153 * 0 + 2) \div 5 = 0
    OBVIOUS
  <2> QED BY <2>1, <2>2
<1>5. m = 4 => DayOfMarchYear(t) = 31 + d - 1
  <2> SUFFICES ASSUME m = 4 PROVE DayOfMarchYear(t) = 31 + d - 1
    OBVIOUS
  <2>1. DayOfMarchYear(t) = (153 * 1 + 2) \div 5 + d - 1
    BY DEF DayOfMarchYear
  <2>2. (153 * 1 + 2) \div 5 = 31
    OBVIOUS
  <2> QED BY <2>1, <2>2
<1>6. m = 5 => DayOfMarchYear(t) = 61 + d - 1
  <2> SUFFICES ASSUME m = 5 PROVE DayOfMarchYear(t) = 61 + d - 1
    OBVIOUS
  <2>1. DayOfMarchYear(t) = (153 * 2 + 2) \div 5 + d - 1
    BY DEF DayOfMarchYear
  <2>2. (153 * 2 + 2) \div 5 = 61
    OBVIOUS
  <2> QED BY <2>1, <2>2
<1>7. m = 6 => DayOfMarchYear(t) = 92 + d - 1
  <2> SUFFICES ASSUME m = 6 PROVE DayOfMarchYear(t) = 92 + d - 1
    OBVIOUS
  <2>1. DayOfMarchYear(t) = (153 * 3 + 2) \div 5 + d - 1
    BY DEF DayOfMarchYear
  <2>2. (153 * 3 + 2) \div 5 = 92
    OBVIOUS
  <2> QED BY <2>1, <2>2
<1>8. m = 7 => DayOfMarchYear(t) = 122 + d - 1
  <2> SUFFICES ASSUME m = 7 PROVE DayOfMarchYear(t) = 122 + d - 1
    OBVIOUS
  <2>1. DayOfMarchYear(t) = (153 * 4 + 2) \div 5 + d - 1
    BY DEF DayOfMarchYear
  <2>2. (153 * 4 + 2) \div 5 = 122
    OBVIOUS
  <2> QED BY <2>1, <2>2
<1>9. m = 8 => DayOfMarchYear(t) = 153 + d - 1
  <2> SUFFICES ASSUME m = 8 PROVE DayOfMarchYear(t) = 153 + d - 1
    OBVIOUS
  <2>1. DayOfMarchYear(t) = (153 * 5 + 2) \div 5 + d - 1
    BY DEF DayOfMarchYear
  <2>2. (153 * 5 + 2) \div 5 = 153
    OBVIOUS
  <2> QED BY <2>1, <2>2
<1>10. m = 9 => DayOfMarchYear(t) = 184 + d - 1
  <2> SUFFICES ASSUME m = 9 PROVE DayOfMarchYear(t) = 184 + d - 1
    OBVIOUS
  <2>1. DayOfMarchYear(t) = (153 * 6 + 2) \div 5 + d - 1
    BY DEF DayOfMarchYear
  <2>2. (153 * 6 + 2) \div 5 = 184
    OBVIOUS
  <2> QED BY <2>1, <2>2
<1>11. m = 10 => DayOfMarchYear(t) = 214 + d - 1
  <2> SUFFICES ASSUME m = 10 PROVE DayOfMarchYear(t) = 214 + d - 1
    OBVIOUS
  <2>1. DayOfMarchYear(t) = (153 * 7 + 2) \div 5 + d - 1
    BY DEF DayOfMarchYear
  <2>2. (153 * 7 + 2) \div 5 = 214
    OBVIOUS
  <2> QED BY <2>1, <2>2
<1>12. m = 11 => DayOfMarchYear(t) = 245 + d - 1
  <2> SUFFICES ASSUME m = 11 PROVE DayOfMarchYear(t) = 245 + d - 1
    OBVIOUS
  <2>1. DayOfMarchYear(t) = (153 * 8 + 2) \div 5 + d - 1
    BY DEF DayOfMarchYear
  <2>2. (153 * 8 + 2) \div 5 = 245
    OBVIOUS
  <2> QED BY <2>1, <2>2
<1>13. m = 12 => DayOfMarchYear(t) = 275 + d - 1
  <2> SUFFICES ASSUME m = 12 PROVE DayOfMarchYear(t) = 275 + d - 1
    OBVIOUS
  <2>1. DayOfMarchYear(t) = (153 * 9 + 2) \div 5 + d - 1
    BY DEF DayOfMarchYear
  <2>2. (153 * 9 + 2) \div 5 = 275
    OBVIOUS
  <2> QED BY <2>1, <2>2
<1> QED BY <1>2, <1>3, <1>4, <1>5, <1>6, <1>7, <1>8, <1>9, <1>10, <1>11, <1>12, <1>13

(* A day of the calendar is as many days from 1970-01-01 as                *)
(* days_from_civil says.                                                   *)
LEMMA CivilIsCalendar ==
  ASSUME NEW t \in Dates, IsCalendarDay(t)
  PROVE  DaysFromCivil(t) = CalendarDays(t) /\ CalendarDays(t) \in Nat
<1> PICK y \in Nat, m \in 1 .. 12, d \in Nat \ {0} :
      y = t.year /\ m = t.month /\ d = t.day /\ y >= 1970
  <2>1. MonthDays(t.year, t.month) \in Int
    <3>1. t.month \in {1, 3, 5, 7, 8, 10, 12} \/ t.month \in {4, 6, 9, 11} \/ t.month = 2
      BY DEF IsCalendarDay
    <3>2. February(t.year) \in Int
      BY DEF February
    <3> QED BY <3>1, <3>2, MonthDaysAre
  <2> QED BY <2>1 DEF IsCalendarDay, Dates
<1> DEFINE leap == IF IsLeap(y) THEN 1 ELSE 0
           l == LeapsTo(y - 1)
           b == DaysBefore(y, m)
           c == Cardinality({x \in 1970 .. y - 1 : IsLeap(x)})
<1>1. leap \in Nat /\ February(y) = 28 + leap
  BY DEF February
<1>2. l \in Int
  <2>1. \A w \in Int : LeapsTo(w) \in Int
    BY DEF LeapsTo
  <2> QED BY <2>1
<1>3. LeapsTo(y) = l + leap
  BY LeapStep
<1>4. c = l - 477 /\ c \in Nat
  <2>1. c = l - 477
    BY LeapYears
  <2>2. IsFiniteSet(1970 .. y - 1)
    <3> DEFINE z == y - 1
    <3>1. z \in Int /\ 1970 \in Int
      OBVIOUS
    <3> HIDE DEF z
    <3>2. IsFiniteSet(1970 .. z)
      BY <3>1, FS_Interval
    <3> QED BY <3>2 DEF z
  <2>3. {x \in 1970 .. y - 1 : IsLeap(x)} \in SUBSET (1970 .. y - 1)
    OBVIOUS
  <2>4. c \in Nat
    <3> DEFINE U == {x \in 1970 .. y - 1 : IsLeap(x)}
               V == 1970 .. y - 1
    <3>1. U \in SUBSET V /\ IsFiniteSet(V)
      BY <2>2, <2>3
    <3> HIDE DEF U, V
    <3>2. Cardinality(U) \in Nat
      BY <3>1, FS_Subset, FS_CardinalityType
    <3> QED BY <3>2 DEF U
  <2> QED BY <2>1, <2>4
<1>5. CalendarDays(t) = 365 * (y - 1970) + c + b + d - 1
  BY DEF CalendarDays, DaysBefore
<1> HIDE DEF leap, l, c
<1>6. MarchYear(t) = IF m <= 2 THEN y - 1 ELSE y
  BY DEF MarchYear
<1>7. /\ m = 1 => DayOfMarchYear(t) = 306 + d - 1
      /\ m = 2 => DayOfMarchYear(t) = 337 + d - 1
      /\ m = 3 => DayOfMarchYear(t) = 0 + d - 1
      /\ m = 4 => DayOfMarchYear(t) = 31 + d - 1
      /\ m = 5 => DayOfMarchYear(t) = 61 + d - 1
      /\ m = 6 => DayOfMarchYear(t) = 92 + d - 1
      /\ m = 7 => DayOfMarchYear(t) = 122 + d - 1
      /\ m = 8 => DayOfMarchYear(t) = 153 + d - 1
      /\ m = 9 => DayOfMarchYear(t) = 184 + d - 1
      /\ m = 10 => DayOfMarchYear(t) = 214 + d - 1
      /\ m = 11 => DayOfMarchYear(t) = 245 + d - 1
      /\ m = 12 => DayOfMarchYear(t) = 275 + d - 1
  BY MarchDays
<1>8. CASE m = 1
  <2>1. DayOfMarchYear(t) = 306 + d - 1
    BY <1>7, <1>8
  <2>2. b = 0
    BY <1>8, DaysBeforeMonths
  <2>3. MarchYear(t) = y - 1 /\ MarchYear(t) \in Nat /\ DayOfMarchYear(t) \in Int
    BY <1>6, <1>8, <2>1
  <2>4. DaysFromCivil(t) = 365 * (y - 1) + l + (306 + d - 1) - 719468
    BY <2>1, <2>3, CivilDays DEF l
  <2> HIDE DEF b
  <2> QED BY <1>1, <1>2, <1>4, <1>5, <2>2, <2>4
<1>9. CASE m = 2
  <2>1. DayOfMarchYear(t) = 337 + d - 1
    BY <1>7, <1>9
  <2>2. b = 31
    BY <1>9, DaysBeforeMonths
  <2>3. MarchYear(t) = y - 1 /\ MarchYear(t) \in Nat /\ DayOfMarchYear(t) \in Int
    BY <1>6, <1>9, <2>1
  <2>4. DaysFromCivil(t) = 365 * (y - 1) + l + (337 + d - 1) - 719468
    BY <2>1, <2>3, CivilDays DEF l
  <2> HIDE DEF b
  <2> QED BY <1>1, <1>2, <1>4, <1>5, <2>2, <2>4
<1>10. CASE m = 3
  <2>1. DayOfMarchYear(t) = 0 + d - 1
    BY <1>7, <1>10
  <2>2. b = 31 + February(y)
    BY <1>10, DaysBeforeMonths
  <2>3. MarchYear(t) = y /\ MarchYear(t) \in Nat /\ DayOfMarchYear(t) \in Int
    BY <1>6, <1>10, <2>1
  <2>4. DaysFromCivil(t) = 365 * (y) + (l + leap) + (0 + d - 1) - 719468
    BY <1>3, <2>1, <2>3, CivilDays DEF l
  <2> HIDE DEF b
  <2> QED BY <1>1, <1>2, <1>4, <1>5, <2>2, <2>4
<1>11. CASE m = 4
  <2>1. DayOfMarchYear(t) = 31 + d - 1
    BY <1>7, <1>11
  <2>2. b = 62 + February(y)
    BY <1>11, DaysBeforeMonths
  <2>3. MarchYear(t) = y /\ MarchYear(t) \in Nat /\ DayOfMarchYear(t) \in Int
    BY <1>6, <1>11, <2>1
  <2>4. DaysFromCivil(t) = 365 * (y) + (l + leap) + (31 + d - 1) - 719468
    BY <1>3, <2>1, <2>3, CivilDays DEF l
  <2> HIDE DEF b
  <2> QED BY <1>1, <1>2, <1>4, <1>5, <2>2, <2>4
<1>12. CASE m = 5
  <2>1. DayOfMarchYear(t) = 61 + d - 1
    BY <1>7, <1>12
  <2>2. b = 92 + February(y)
    BY <1>12, DaysBeforeMonths
  <2>3. MarchYear(t) = y /\ MarchYear(t) \in Nat /\ DayOfMarchYear(t) \in Int
    BY <1>6, <1>12, <2>1
  <2>4. DaysFromCivil(t) = 365 * (y) + (l + leap) + (61 + d - 1) - 719468
    BY <1>3, <2>1, <2>3, CivilDays DEF l
  <2> HIDE DEF b
  <2> QED BY <1>1, <1>2, <1>4, <1>5, <2>2, <2>4
<1>13. CASE m = 6
  <2>1. DayOfMarchYear(t) = 92 + d - 1
    BY <1>7, <1>13
  <2>2. b = 123 + February(y)
    BY <1>13, DaysBeforeMonths
  <2>3. MarchYear(t) = y /\ MarchYear(t) \in Nat /\ DayOfMarchYear(t) \in Int
    BY <1>6, <1>13, <2>1
  <2>4. DaysFromCivil(t) = 365 * (y) + (l + leap) + (92 + d - 1) - 719468
    BY <1>3, <2>1, <2>3, CivilDays DEF l
  <2> HIDE DEF b
  <2> QED BY <1>1, <1>2, <1>4, <1>5, <2>2, <2>4
<1>14. CASE m = 7
  <2>1. DayOfMarchYear(t) = 122 + d - 1
    BY <1>7, <1>14
  <2>2. b = 153 + February(y)
    BY <1>14, DaysBeforeMonths
  <2>3. MarchYear(t) = y /\ MarchYear(t) \in Nat /\ DayOfMarchYear(t) \in Int
    BY <1>6, <1>14, <2>1
  <2>4. DaysFromCivil(t) = 365 * (y) + (l + leap) + (122 + d - 1) - 719468
    BY <1>3, <2>1, <2>3, CivilDays DEF l
  <2> HIDE DEF b
  <2> QED BY <1>1, <1>2, <1>4, <1>5, <2>2, <2>4
<1>15. CASE m = 8
  <2>1. DayOfMarchYear(t) = 153 + d - 1
    BY <1>7, <1>15
  <2>2. b = 184 + February(y)
    BY <1>15, DaysBeforeMonths
  <2>3. MarchYear(t) = y /\ MarchYear(t) \in Nat /\ DayOfMarchYear(t) \in Int
    BY <1>6, <1>15, <2>1
  <2>4. DaysFromCivil(t) = 365 * (y) + (l + leap) + (153 + d - 1) - 719468
    BY <1>3, <2>1, <2>3, CivilDays DEF l
  <2> HIDE DEF b
  <2> QED BY <1>1, <1>2, <1>4, <1>5, <2>2, <2>4
<1>16. CASE m = 9
  <2>1. DayOfMarchYear(t) = 184 + d - 1
    BY <1>7, <1>16
  <2>2. b = 215 + February(y)
    BY <1>16, DaysBeforeMonths
  <2>3. MarchYear(t) = y /\ MarchYear(t) \in Nat /\ DayOfMarchYear(t) \in Int
    BY <1>6, <1>16, <2>1
  <2>4. DaysFromCivil(t) = 365 * (y) + (l + leap) + (184 + d - 1) - 719468
    BY <1>3, <2>1, <2>3, CivilDays DEF l
  <2> HIDE DEF b
  <2> QED BY <1>1, <1>2, <1>4, <1>5, <2>2, <2>4
<1>17. CASE m = 10
  <2>1. DayOfMarchYear(t) = 214 + d - 1
    BY <1>7, <1>17
  <2>2. b = 245 + February(y)
    BY <1>17, DaysBeforeMonths
  <2>3. MarchYear(t) = y /\ MarchYear(t) \in Nat /\ DayOfMarchYear(t) \in Int
    BY <1>6, <1>17, <2>1
  <2>4. DaysFromCivil(t) = 365 * (y) + (l + leap) + (214 + d - 1) - 719468
    BY <1>3, <2>1, <2>3, CivilDays DEF l
  <2> HIDE DEF b
  <2> QED BY <1>1, <1>2, <1>4, <1>5, <2>2, <2>4
<1>18. CASE m = 11
  <2>1. DayOfMarchYear(t) = 245 + d - 1
    BY <1>7, <1>18
  <2>2. b = 276 + February(y)
    BY <1>18, DaysBeforeMonths
  <2>3. MarchYear(t) = y /\ MarchYear(t) \in Nat /\ DayOfMarchYear(t) \in Int
    BY <1>6, <1>18, <2>1
  <2>4. DaysFromCivil(t) = 365 * (y) + (l + leap) + (245 + d - 1) - 719468
    BY <1>3, <2>1, <2>3, CivilDays DEF l
  <2> HIDE DEF b
  <2> QED BY <1>1, <1>2, <1>4, <1>5, <2>2, <2>4
<1>19. CASE m = 12
  <2>1. DayOfMarchYear(t) = 275 + d - 1
    BY <1>7, <1>19
  <2>2. b = 306 + February(y)
    BY <1>19, DaysBeforeMonths
  <2>3. MarchYear(t) = y /\ MarchYear(t) \in Nat /\ DayOfMarchYear(t) \in Int
    BY <1>6, <1>19, <2>1
  <2>4. DaysFromCivil(t) = 365 * (y) + (l + leap) + (275 + d - 1) - 719468
    BY <1>3, <2>1, <2>3, CivilDays DEF l
  <2> HIDE DEF b
  <2> QED BY <1>1, <1>2, <1>4, <1>5, <2>2, <2>4
<1> QED BY <1>8, <1>9, <1>10, <1>11, <1>12, <1>13, <1>14, <1>15, <1>16, <1>17, <1>18, <1>19

(* What features 4 and 5 are computed from, and what they should be.       *)
LEMMA WeekdayIsRight ==
  ASSUME NEW t \in Dates, IsCalendarDay(t)
  PROVE  DayOfWeek(t) = Weekday(t)
<1> PICK n \in Nat : n = CalendarDays(t) /\ n = DaysFromCivil(t)
  BY CivilIsCalendar
<1>1. DayOfWeek(t) = IF n + 3 >= 0 THEN (n + 3) % 7 ELSE -((-(n + 3)) % 7)
  BY DEF DayOfWeek
<1>2. n + 3 >= 0
  OBVIOUS
<1>3. DayOfWeek(t) = (n + 3) % 7
  BY <1>1, <1>2
<1>4. Weekday(t) = (n + 3) % 7
  BY DEF Weekday
<1> QED BY <1>3, <1>4

LEMMA MinutesAreRight ==
  ASSUME NEW t \in Dates, NEW u \in Dates, IsCalendarDay(t), IsCalendarDay(u)
  PROVE  EpochMinute(u) - EpochMinute(t) = MinutesBetween(t, u)
<1> PICK n \in Nat, k \in Nat : /\ n = CalendarDays(t) /\ n = DaysFromCivil(t)
                                /\ k = CalendarDays(u) /\ k = DaysFromCivil(u)
  BY CivilIsCalendar
<1> PICK p \in Int, q \in Int, r \in Int, s \in Int :
      p = t.hour /\ q = t.minute /\ r = u.hour /\ s = u.minute
  BY DEF Dates
<1>1. EpochMinute(t) = n * 1440 + p * 60 + q /\ EpochMinute(u) = k * 1440 + r * 60 + s
  BY DEF EpochMinute
<1>2. MinutesBetween(t, u) = 1440 * (k - n) + 60 * (r - p) + s - q
  BY DEF MinutesBetween
<1>3. (k * 1440 + r * 60 + s) - (n * 1440 + p * 60 + q) = 1440 * (k - n) + 60 * (r - p) + s - q
  OBVIOUS
<1>4. EpochMinute(u) - EpochMinute(t) = (k * 1440 + r * 60 + s) - (n * 1440 + p * 60 + q)
  BY <1>1
<1> QED BY <1>2, <1>3, <1>4

-----------------------------------------------------------------------------
(* What is kept of an unambiguous body is what it says.                    *)

LEMMA WrapKeeps ==
  ASSUME NEW n \in -IntMax - 1 .. IntMax
  PROVE  Wrap(n) = n
<1>1. IntMax \in Nat \ {0}
  BY ParsingAssumption
<1> DEFINE m == 2 * (IntMax + 1)
           k == n + IntMax + 1
<1>2. m \in Nat \ {0} /\ k \in 0 .. m - 1 /\ k - IntMax - 1 = n
  BY <1>1
<1>3. Wrap(n) = (k % m) - IntMax - 1
  BY DEF Wrap
<1> HIDE DEF m, k
<1>4. k % m = k
  BY <1>2
<1> QED BY <1>2, <1>3, <1>4

LEMMA FirstKnownIsAll ==
  ASSUME NEW n \in Nat, NEW names, names = [k \in 1 .. n |-> names[k]], n <= MaxKnown
  PROVE  FirstKnown(names) = {names[k] : k \in 1 .. n}
<1>1. MaxKnown \in Nat
  BY ParsingAssumption
<1>2. Len(names) = n
  OBVIOUS
<1>3. (IF Len(names) < MaxKnown THEN Len(names) ELSE MaxKnown) = n
  BY <1>1, <1>2
<1> QED BY <1>3 DEF FirstKnown

(* What the body says of a field.                                          *)
Says(f, x) ==
  /\ FieldType[f] \in {"int", "double", "bool"} => x = Value(f).val
  /\ FieldType[f] \in {"str", "date"} => x = Value(f).text
  /\ FieldType[f] = "date" => IsCalendarDay(x)
  /\ FieldType[f] = "list" => x = {Value(f).items[k].text : k \in DOMAIN Value(f).items}

LEMMA UnambiguousSays ==
  ASSUME Unambiguous, NEW f \in Fields, Occurrences(f) # {}, NEW v, v = Value(f),
         v.kind = KindOf(FieldType[f])
  PROVE  /\ FieldType[f] = "int" => v.val \in -IntMax - 1 .. IntMax
         /\ FieldType[f] = "date" /\ v.text # NotADate => IsCalendarDay(v.text)
         /\ FieldType[f] = "str" => v.raw = v.text
         /\ FieldType[f] = "list" => /\ Len(v.items) <= MaxKnown
                                     /\ \A k \in DOMAIN v.items : v.items[k].raw = v.items[k].text
<1>1. CASE FieldType[f] = "int"
  <2>1. v.kind = "num"
    BY <1>1 DEF KindOf
  <2>2. v.kind = "num" => v.plain /\ v.val \in -IntMax - 1 .. IntMax
    BY <1>1 DEF Unambiguous
  <2> QED BY <1>1, <2>1, <2>2
<1>2. CASE FieldType[f] = "date"
  <2>1. v.kind = "str"
    BY <1>2 DEF KindOf
  <2>2. v.kind = "str" /\ v.text # NotADate => IsCalendarDay(v.text)
    BY <1>2 DEF Unambiguous
  <2> QED BY <1>2, <2>1, <2>2
<1>3. CASE FieldType[f] = "str"
  <2>1. v.kind = "str"
    BY <1>3 DEF KindOf
  <2>2. v.kind = "str" => v.raw = v.text
    BY <1>3 DEF Unambiguous
  <2> QED BY <1>3, <2>1, <2>2
<1>4. CASE FieldType[f] = "list"
  <2>1. v.kind = "list"
    BY <1>4 DEF KindOf
  <2>2. v.kind = "list" => /\ Len(v.items) <= MaxKnown
                           /\ \A k \in DOMAIN v.items : v.items[k].raw = v.items[k].text
    BY <1>4 DEF Unambiguous
  <2> QED BY <1>4, <2>1, <2>2
<1> QED BY <1>1, <1>2, <1>3, <1>4

LEMMA KeptIsSaid ==
  ASSUME IsBody(body), Unambiguous, NEW f \in Fields, NEW i, NEW x, Kept(f, i, x),
         FieldType[f] = "date" => x # NotADate
  PROVE  Says(f, x)
<1> PICK v : v = Tokens[i].value
  OBVIOUS
<1>1. i \in Occurrences(f) /\ v.kind = KindOf(FieldType[f])
  BY DEF Kept
<1>2. v = Value(f)
  BY <1>1, UnambiguousIsSingle, ValueOfField
<1>3. IsValue(f[2], v)
  <2>1. i \in DOMAIN Tokens /\ Tokens[i].kind = "field" /\ f[2] = Tokens[i].key
    BY <1>1 DEF Occurrences, Positions
  <2> QED BY <2>1 DEF IsBody, Tokens
<1>4. \/ x = SerdeValue(f, v)
      \/ x = BytesOf(f, v) /\ (FieldType[f] = "date" => v.raw # NotADate)
  <2>1. CASE strategy = "serde"
    BY <2>1 DEF Kept
  <2>2. CASE strategy # "serde"
    BY <2>2 DEF Kept
  <2> QED BY <2>1, <2>2
<1>5. /\ FieldType[f] = "int" => v.val \in -IntMax - 1 .. IntMax
      /\ FieldType[f] = "date" /\ v.text # NotADate => IsCalendarDay(v.text)
      /\ FieldType[f] = "str" => v.raw = v.text
      /\ FieldType[f] = "list" => /\ Len(v.items) <= MaxKnown
                                  /\ \A k \in DOMAIN v.items : v.items[k].raw = v.items[k].text
  BY <1>1, <1>2, UnambiguousSays
<1>6. CASE FieldType[f] = "int"
  <2>1. BytesOf(f, v) = Wrap(v.val) /\ SerdeValue(f, v) = v.val
    BY <1>6 DEF BytesOf, SerdeValue
  <2>2. Wrap(v.val) = v.val
    BY <1>5, <1>6, WrapKeeps
  <2> QED BY <1>2, <1>4, <1>6, <2>1, <2>2 DEF Says
<1>7. CASE FieldType[f] \in {"double", "bool"}
  <2>1. BytesOf(f, v) = v.val /\ SerdeValue(f, v) = v.val
    BY <1>7 DEF BytesOf, SerdeValue
  <2> QED BY <1>2, <1>4, <1>7, <2>1 DEF Says
<1>8. CASE FieldType[f] = "str"
  <2>1. BytesOf(f, v) = v.raw /\ SerdeValue(f, v) = v.text
    BY <1>8 DEF BytesOf, SerdeValue
  <2> QED BY <1>2, <1>4, <1>5, <1>8, <2>1 DEF Says
<1>9. CASE FieldType[f] = "date"
  <2>1. BytesOf(f, v) = v.raw /\ SerdeValue(f, v) = v.text
    BY <1>9 DEF BytesOf, SerdeValue
  <2>2. v.kind = "str"
    BY <1>1, <1>9 DEF KindOf
  <2>3. v.raw = NotADate \/ v.raw = v.text
    BY <1>3, <1>9, <2>2, TypesAre DEF IsValue
  <2>4. x = v.text /\ x # NotADate
    BY <1>4, <1>9, <2>1, <2>3
  <2> QED BY <1>2, <1>5, <1>9, <2>4 DEF Says
<1>10. CASE FieldType[f] = "list"
  <2> DEFINE its == v.items
             texts == [k \in DOMAIN its |-> its[k].text]
             raws == [k \in DOMAIN its |-> its[k].raw]
  <2>1. BytesOf(f, v) = FirstKnown(raws) /\ SerdeValue(f, v) = FirstKnown(texts)
    BY <1>10 DEF BytesOf, SerdeValue
  <2>2. PICK n \in Nat : DOMAIN its = 1 .. n /\ n <= MaxKnown
    <3>1. v.kind = "list"
      BY <1>1, <1>10 DEF KindOf
    <3> DEFINE S == {its[k] : k \in DOMAIN its}
    <3>2. its \in Seq(S)
      BY <1>3, <3>1 DEF IsValue
    <3> HIDE DEF S
    <3>3. Len(its) \in Nat /\ DOMAIN its = 1 .. Len(its)
      BY <3>2
    <3> QED BY <1>5, <1>10, <3>3
  <2>3. raws = texts
    BY <1>5, <1>10
  <2>4. texts = [k \in 1 .. n |-> texts[k]] /\ \A k \in 1 .. n : texts[k] = its[k].text
    BY <2>2
  <2>5. FirstKnown(texts) = {texts[k] : k \in 1 .. n}
    <3> HIDE DEF texts
    <3> QED BY <2>2, <2>4, FirstKnownIsAll
  <2>6. {texts[k] : k \in 1 .. n} = {its[k].text : k \in 1 .. n}
    BY <2>4
  <2>7. x = {its[k].text : k \in DOMAIN its}
    <3> HIDE DEF texts, raws, its
    <3> QED BY <1>4, <2>1, <2>2, <2>3, <2>5, <2>6
  <2> QED BY <1>2, <1>10, <2>7 DEF Says
<1> QED BY TypesAre, <1>6, <1>7, <1>8, <1>9, <1>10

-----------------------------------------------------------------------------
(* The vector, feature by feature.                                         *)

LEMMA FeatureOwners ==
  ASSUME NEW f \in Fields, NEW v, NEW n \in DOMAIN FieldFeatures(f, v)
  PROVE  \/ n = 0 /\ f = <<"transaction", "amount">>
         \/ n = 1 /\ f = <<"transaction", "installments">>
         \/ n \in {3, 4} /\ f = <<"transaction", "requested_at">>
         \/ n = 8 /\ f = <<"customer", "tx_count_24h">>
         \/ n = 12 /\ f = <<"merchant", "mcc">>
         \/ n = 13 /\ f = <<"merchant", "avg_amount">>
         \/ n = 9 /\ f = <<"terminal", "is_online">>
         \/ n = 10 /\ f = <<"terminal", "card_present">>
         \/ n = 7 /\ f = <<"terminal", "km_from_home">>
<1>1. CASE f \in {<<"customer", "avg_amount">>, <<"customer", "known_merchants">>, <<"merchant", "id">>,
                  <<"last_transaction", "timestamp">>, <<"last_transaction", "km_from_current">>}
  <2>1. FieldFeatures(f, v) = << >>
    BY <1>1, FeaturesByField
  <2>2. DOMAIN FieldFeatures(f, v) = {}
    BY <2>1
  <2> QED BY <2>2
<1>2. CASE f = <<"transaction", "amount">>
  BY <1>2, FeatureDomains
<1>3. CASE f = <<"transaction", "installments">>
  BY <1>3, FeatureDomains
<1>4. CASE f = <<"transaction", "requested_at">>
  BY <1>4, FeatureDomains
<1>5. CASE f = <<"customer", "tx_count_24h">>
  BY <1>5, FeatureDomains
<1>6. CASE f = <<"merchant", "mcc">>
  BY <1>6, FeatureDomains
<1>7. CASE f = <<"merchant", "avg_amount">>
  BY <1>7, FeatureDomains
<1>8. CASE f = <<"terminal", "is_online">>
  BY <1>8, FeatureDomains
<1>9. CASE f = <<"terminal", "card_present">>
  BY <1>9, FeatureDomains
<1>10. CASE f = <<"terminal", "km_from_home">>
  BY <1>10, FeatureDomains
<1> QED BY FieldsAre, <1>1, <1>2, <1>3, <1>4, <1>5, <1>6, <1>7, <1>8, <1>9, <1>10

LEMMA FeaturesApart ==
  ASSUME NEW f \in Fields, NEW g \in Fields, NEW v, NEW w,
         NEW n, n \in DOMAIN FieldFeatures(f, v), n \in DOMAIN FieldFeatures(g, w)
  PROVE  f = g
<1>1. \/ n = 0 /\ f = <<"transaction", "amount">>
      \/ n = 1 /\ f = <<"transaction", "installments">>
      \/ n \in {3, 4} /\ f = <<"transaction", "requested_at">>
      \/ n = 8 /\ f = <<"customer", "tx_count_24h">>
      \/ n = 12 /\ f = <<"merchant", "mcc">>
      \/ n = 13 /\ f = <<"merchant", "avg_amount">>
      \/ n = 9 /\ f = <<"terminal", "is_online">>
      \/ n = 10 /\ f = <<"terminal", "card_present">>
      \/ n = 7 /\ f = <<"terminal", "km_from_home">>
  BY FeatureOwners
<1>2. \/ n = 0 /\ g = <<"transaction", "amount">>
      \/ n = 1 /\ g = <<"transaction", "installments">>
      \/ n \in {3, 4} /\ g = <<"transaction", "requested_at">>
      \/ n = 8 /\ g = <<"customer", "tx_count_24h">>
      \/ n = 12 /\ g = <<"merchant", "mcc">>
      \/ n = 13 /\ g = <<"merchant", "avg_amount">>
      \/ n = 9 /\ g = <<"terminal", "is_online">>
      \/ n = 10 /\ g = <<"terminal", "card_present">>
      \/ n = 7 /\ g = <<"terminal", "km_from_home">>
  BY FeatureOwners
<1> QED BY <1>1, <1>2

(* The features of the fields that are read are in the vector.             *)
Written(o, w) ==
  \A f \in DOMAIN w : \A n \in DOMAIN FieldFeatures(f, w[f]) : o[n] = FieldFeatures(f, w[f])[n]

(* One field more, read and written.                                       *)
LEMMA OneMoreWritten ==
  ASSUME NEW w, NEW o, Written(o, w), DOMAIN w \subseteq Fields, DOMAIN o = Features,
         NEW p \in Fields, NEW v, IsPart(FieldFeatures(p, v))
  PROVE  Written(FieldFeatures(p, v) ++ o, Only(p, v) ++ w)
<1> PICK ff : ff = FieldFeatures(p, v)
  OBVIOUS
<1> PICK o1 : o1 = ff ++ o
  OBVIOUS
<1> PICK w1 : w1 = Only(p, v) ++ w
  OBVIOUS
<1>1. /\ DOMAIN w1 = {p} \cup DOMAIN w /\ w1[p] = v
      /\ \A f \in DOMAIN w : f # p => w1[f] = w[f]
  BY DEF ++, Only
<1>2. /\ \A n \in DOMAIN ff : o1[n] = ff[n]
      /\ \A n \in Features : n \notin DOMAIN ff => o1[n] = o[n]
  BY DEF ++
<1> SUFFICES ASSUME NEW f \in DOMAIN w1, NEW n \in DOMAIN FieldFeatures(f, w1[f])
             PROVE  o1[n] = FieldFeatures(f, w1[f])[n]
  BY DEF Written
<1>3. CASE f = p
  <2>1. FieldFeatures(f, w1[f]) = ff
    BY <1>1, <1>3
  <2> QED BY <1>2, <2>1
<1>4. CASE f # p
  <2>1. f \in DOMAIN w /\ w1[f] = w[f] /\ f \in Fields
    BY <1>1, <1>4
  <2>2. n \notin DOMAIN ff
    BY <1>4, <2>1, FeaturesApart
  <2>3. n \in Features
    <3>1. n \in 0 .. 13
      BY <2>1, FeatureOwners
    <3> QED BY <3>1 DEF Features
  <2>4. o[n] = FieldFeatures(f, w[f])[n]
    BY <2>1 DEF Written
  <2> QED BY <1>2, <2>1, <2>2, <2>3, <2>4
<1> QED BY <1>3, <1>4

(* The last parser writes all of them.                                     *)
LEMMA EveryFieldWritten ==
  ASSUME NEW w, AllRead(w)
  PROVE  Written(EveryFieldFeature(w), w)
<1> DEFINE D == UNION {DOMAIN FieldFeatures(f, w[f]) : f \in Required}
           Of(n) == CHOOSE f \in Required : n \in DOMAIN FieldFeatures(f, w[f])
<1>1. EveryFieldFeature(w) = [n \in D |-> FieldFeatures(Of(n), w[Of(n)])[n]]
  BY Zenon DEF EveryFieldFeature
<1>2. \A f \in Required : \A n \in DOMAIN FieldFeatures(f, w[f]) : n \in D
  OBVIOUS
<1>3. ASSUME NEW f \in Required, NEW n \in DOMAIN FieldFeatures(f, w[f]) PROVE Of(n) = f
  <2>1. Of(n) \in Required /\ n \in DOMAIN FieldFeatures(Of(n), w[Of(n)])
    BY Zenon
  <2> HIDE DEF Of
  <2>2. Of(n) \in Fields /\ f \in Fields
    BY <2>1 DEF Required
  <2> PICK h : h = Of(n)
    OBVIOUS
  <2>3. h \in Fields /\ n \in DOMAIN FieldFeatures(h, w[h])
    BY <2>1, <2>2
  <2>4. h = f
    BY <2>2, <2>3, FeaturesApart
  <2> QED BY <2>4
<1> HIDE DEF D, Of
<1> SUFFICES ASSUME NEW f \in DOMAIN w, NEW n \in DOMAIN FieldFeatures(f, w[f])
             PROVE  EveryFieldFeature(w)[n] = FieldFeatures(f, w[f])[n]
  BY DEF Written
<1>4. f \in Required
  <2>1. f \in Fields
    BY DEF AllRead
  <2>2. f[1] # "last_transaction"
    BY <2>1, FeatureOwners
  <2> QED BY <2>1, <2>2, RequiredAre
<1>5. n \in D /\ Of(n) = f
  BY <1>2, <1>3, <1>4
<1> QED BY <1>1, <1>5

LEMMA TwoValues ==
  ASSUME NEW n, NEW x, NEW m, NEW y, n # m
  PROVE  (Only(n, x) ++ Only(m, y))[n] = x /\ (Only(n, x) ++ Only(m, y))[m] = y
  BY DEF Only, ++

LEMMA OneValue ==
  ASSUME NEW n, NEW x
  PROVE  Only(n, x)[n] = x
  BY DEF Only

(* The ten features that depend on one field.                              *)
PlainFeatures(o, w) ==
  /\ o[0] = Quantize(w[<<"transaction", "amount">>], 10000)
  /\ o[1] = Quantize(w[<<"transaction", "installments">>], 12)
  /\ o[3] = Quantize(w[<<"transaction", "requested_at">>].hour, 23)
  /\ o[4] = Quantize(DayOfWeek(w[<<"transaction", "requested_at">>]), 6)
  /\ o[7] = Quantize(w[<<"terminal", "km_from_home">>], 1000)
  /\ o[8] = Quantize(w[<<"customer", "tx_count_24h">>], 20)
  /\ o[9] = (IF w[<<"terminal", "is_online">>] THEN Scale ELSE 0)
  /\ o[10] = (IF w[<<"terminal", "card_present">>] THEN Scale ELSE 0)
  /\ o[12] = Quantize(RiskOf(w[<<"merchant", "mcc">>]), 100)
  /\ o[13] = Quantize(w[<<"merchant", "avg_amount">>], 10000)

LEMMA WrittenFeature ==
  ASSUME NEW w, NEW o, Written(o, w), NEW f \in DOMAIN w, NEW n, NEW x, FieldFeatures(f, w[f]) = Only(n, x)
  PROVE  o[n] = x
<1>1. n \in DOMAIN FieldFeatures(f, w[f]) /\ FieldFeatures(f, w[f])[n] = x
  BY DEF Only
<1> QED BY <1>1 DEF Written

LEMMA PlainAreWritten ==
  ASSUME NEW w, NEW o, Written(o, w), Required \subseteq DOMAIN w
  PROVE  PlainFeatures(o, w)
<1>1. /\ <<"transaction", "amount">> \in DOMAIN w /\ <<"transaction", "installments">> \in DOMAIN w
      /\ <<"transaction", "requested_at">> \in DOMAIN w /\ <<"customer", "tx_count_24h">> \in DOMAIN w
      /\ <<"merchant", "mcc">> \in DOMAIN w /\ <<"merchant", "avg_amount">> \in DOMAIN w
      /\ <<"terminal", "is_online">> \in DOMAIN w /\ <<"terminal", "card_present">> \in DOMAIN w
      /\ <<"terminal", "km_from_home">> \in DOMAIN w
  BY RequiredAre, FieldTypes
<1>2. o[0] = Quantize(w[<<"transaction", "amount">>], 10000)
  <2> PICK f : f = <<"transaction", "amount">>
    OBVIOUS
  <2> DEFINE x == Quantize(w[f], 10000)
  <2>1. FieldFeatures(f, w[f]) = Only(0, x)
    BY FeaturesByField
  <2> HIDE DEF x
  <2>2. o[0] = x
    BY <1>1, <2>1, WrittenFeature
  <2> QED BY <2>2 DEF x
<1>3. o[1] = Quantize(w[<<"transaction", "installments">>], 12)
  <2> PICK f : f = <<"transaction", "installments">>
    OBVIOUS
  <2> DEFINE x == Quantize(w[f], 12)
  <2>1. FieldFeatures(f, w[f]) = Only(1, x)
    BY FeaturesByField
  <2> HIDE DEF x
  <2>2. o[1] = x
    BY <1>1, <2>1, WrittenFeature
  <2> QED BY <2>2 DEF x
<1>4. o[7] = Quantize(w[<<"terminal", "km_from_home">>], 1000)
  <2> PICK f : f = <<"terminal", "km_from_home">>
    OBVIOUS
  <2> DEFINE x == Quantize(w[f], 1000)
  <2>1. FieldFeatures(f, w[f]) = Only(7, x)
    BY FeaturesByField
  <2> HIDE DEF x
  <2>2. o[7] = x
    BY <1>1, <2>1, WrittenFeature
  <2> QED BY <2>2 DEF x
<1>5. o[8] = Quantize(w[<<"customer", "tx_count_24h">>], 20)
  <2> PICK f : f = <<"customer", "tx_count_24h">>
    OBVIOUS
  <2> DEFINE x == Quantize(w[f], 20)
  <2>1. FieldFeatures(f, w[f]) = Only(8, x)
    BY FeaturesByField
  <2> HIDE DEF x
  <2>2. o[8] = x
    BY <1>1, <2>1, WrittenFeature
  <2> QED BY <2>2 DEF x
<1>6. o[9] = (IF w[<<"terminal", "is_online">>] THEN Scale ELSE 0)
  <2> PICK f : f = <<"terminal", "is_online">>
    OBVIOUS
  <2> DEFINE x == IF w[f] THEN Scale ELSE 0
  <2>1. FieldFeatures(f, w[f]) = Only(9, x)
    BY FeaturesByField
  <2> HIDE DEF x
  <2>2. o[9] = x
    BY <1>1, <2>1, WrittenFeature
  <2> QED BY <2>2 DEF x
<1>7. o[10] = (IF w[<<"terminal", "card_present">>] THEN Scale ELSE 0)
  <2> PICK f : f = <<"terminal", "card_present">>
    OBVIOUS
  <2> DEFINE x == IF w[f] THEN Scale ELSE 0
  <2>1. FieldFeatures(f, w[f]) = Only(10, x)
    BY FeaturesByField
  <2> HIDE DEF x
  <2>2. o[10] = x
    BY <1>1, <2>1, WrittenFeature
  <2> QED BY <2>2 DEF x
<1>8. o[12] = Quantize(RiskOf(w[<<"merchant", "mcc">>]), 100)
  <2> PICK f : f = <<"merchant", "mcc">>
    OBVIOUS
  <2> DEFINE x == Quantize(RiskOf(w[f]), 100)
  <2>1. FieldFeatures(f, w[f]) = Only(12, x)
    BY FeaturesByField
  <2> HIDE DEF x
  <2>2. o[12] = x
    BY <1>1, <2>1, WrittenFeature
  <2> QED BY <2>2 DEF x
<1>9. o[13] = Quantize(w[<<"merchant", "avg_amount">>], 10000)
  <2> PICK f : f = <<"merchant", "avg_amount">>
    OBVIOUS
  <2> DEFINE x == Quantize(w[f], 10000)
  <2>1. FieldFeatures(f, w[f]) = Only(13, x)
    BY FeaturesByField
  <2> HIDE DEF x
  <2>2. o[13] = x
    BY <1>1, <2>1, WrittenFeature
  <2> QED BY <2>2 DEF x
<1>10. /\ o[3] = Quantize(w[<<"transaction", "requested_at">>].hour, 23)
       /\ o[4] = Quantize(DayOfWeek(w[<<"transaction", "requested_at">>]), 6)
  <2> PICK f : f = <<"transaction", "requested_at">>
    OBVIOUS
  <2> DEFINE x == Quantize(w[f].hour, 23)
             y == Quantize(DayOfWeek(w[f]), 6)
  <2>1. FieldFeatures(f, w[f]) = Only(3, x) ++ Only(4, y)
    BY FeaturesByField
  <2> HIDE DEF x, y
  <2>2. DOMAIN FieldFeatures(f, w[f]) = {3, 4}
    <3>1. DOMAIN (Only(3, x) ++ Only(4, y)) = {3, 4}
      BY ZenonT(30), TwoDomain
    <3> QED BY <2>1, <3>1
  <2>3. FieldFeatures(f, w[f])[3] = x /\ FieldFeatures(f, w[f])[4] = y
    <3>1. (Only(3, x) ++ Only(4, y))[3] = x /\ (Only(3, x) ++ Only(4, y))[4] = y
      BY SMTT(30), TwoValues
    <3> QED BY <2>1, <3>1
  <2>4. o[3] = x /\ o[4] = y
    BY <1>1, <2>2, <2>3 DEF Written
  <2> QED BY <2>4 DEF x, y
<1> QED BY <1>2, <1>3, <1>4, <1>5, <1>6, <1>7, <1>8, <1>9, <1>10 DEF PlainFeatures

(* The vector of what was read: the features above, those of finish_vector *)
(* and those of last_transaction.                                          *)
VectorOf(v, w) ==
  /\ PlainFeatures(v, w)
  /\ v[2] = (IF w[<<"customer", "avg_amount">>] > 0
             THEN Quantize(w[<<"transaction", "amount">>], 10 * w[<<"customer", "avg_amount">>])
             ELSE Scale)
  /\ v[11] = (IF w[<<"merchant", "id">>] \in w[<<"customer", "known_merchants">>] THEN 0 ELSE Scale)
  /\ LastFields \subseteq DOMAIN w =>
       /\ v[5] = Quantize(EpochMinute(w[<<"transaction", "requested_at">>])
                            - EpochMinute(w[<<"last_transaction", "timestamp">>]), 1440)
       /\ v[6] = Quantize(w[<<"last_transaction", "km_from_current">>], 1000)
  /\ ~(LastFields \subseteq DOMAIN w) => v[5] = -Scale /\ v[6] = -Scale

LEMMA FinishValues ==
  ASSUME NEW w
  PROVE  /\ FinishVector(w)[2] = (IF w[<<"customer", "avg_amount">>] > 0
              THEN Quantize(w[<<"transaction", "amount">>], 10 * w[<<"customer", "avg_amount">>])
              ELSE Scale)
         /\ FinishVector(w)[11] =
              (IF w[<<"merchant", "id">>] \in w[<<"customer", "known_merchants">>] THEN 0 ELSE Scale)
<1> DEFINE ratio == IF w[<<"customer", "avg_amount">>] > 0
                    THEN Quantize(w[<<"transaction", "amount">>], 10 * w[<<"customer", "avg_amount">>])
                    ELSE Scale
           stranger == IF w[<<"merchant", "id">>] \in w[<<"customer", "known_merchants">>]
                       THEN 0 ELSE Scale
<1>1. FinishVector(w) = Only(2, ratio) ++ Only(11, stranger)
  BY Zenon DEF FinishVector
<1> HIDE DEF ratio, stranger
<1>2. (Only(2, ratio) ++ Only(11, stranger))[2] = ratio /\ (Only(2, ratio) ++ Only(11, stranger))[11] = stranger
  BY TwoValues
<1>3. FinishVector(w)[2] = ratio /\ FinishVector(w)[11] = stranger
  BY <1>1, <1>2
<1> QED BY <1>3 DEF ratio, stranger

LEMMA LastValues ==
  ASSUME NEW w
  PROVE  /\ LastFields \subseteq DOMAIN w =>
              /\ LastFeatures(w)[5] = Quantize(EpochMinute(w[<<"transaction", "requested_at">>])
                                        - EpochMinute(w[<<"last_transaction", "timestamp">>]), 1440)
              /\ LastFeatures(w)[6] = Quantize(w[<<"last_transaction", "km_from_current">>], 1000)
         /\ ~(LastFields \subseteq DOMAIN w) => LastFeatures(w)[5] = -Scale /\ LastFeatures(w)[6] = -Scale
<1> DEFINE x == Quantize(EpochMinute(w[<<"transaction", "requested_at">>])
                           - EpochMinute(w[<<"last_transaction", "timestamp">>]), 1440)
           y == Quantize(w[<<"last_transaction", "km_from_current">>], 1000)
           z == -Scale
<1>1. LastFields \subseteq DOMAIN w => LastFeatures(w) = Only(5, x) ++ Only(6, y)
  BY DEF LastFeatures
<1>2. ~(LastFields \subseteq DOMAIN w) => LastFeatures(w) = Only(5, z) ++ Only(6, z)
  BY DEF LastFeatures
<1> HIDE DEF x, y, z
<1>3. /\ (Only(5, x) ++ Only(6, y))[5] = x /\ (Only(5, x) ++ Only(6, y))[6] = y
      /\ (Only(5, z) ++ Only(6, z))[5] = z /\ (Only(5, z) ++ Only(6, z))[6] = z
  BY TwoValues
<1>4. /\ LastFields \subseteq DOMAIN w => LastFeatures(w)[5] = x /\ LastFeatures(w)[6] = y
      /\ ~(LastFields \subseteq DOMAIN w) => LastFeatures(w)[5] = z /\ LastFeatures(w)[6] = z
  BY <1>1, <1>2, <1>3
<1> QED BY <1>4 DEF x, y, z

LEMMA Assembled ==
  ASSUME NEW w, AllRead(w), NEW o, Written(o, w), Features \ {2, 5, 6, 11} \subseteq DOMAIN o
  PROVE  VectorOf(FinishVector(w) ++ LastFeatures(w) ++ o, w)
<1> PICK a, b, c : /\ a = FinishVector(w) /\ b = LastFeatures(w)
                   /\ c = FinishVector(w) ++ LastFeatures(w) ++ o
  OBVIOUS
<1>1. DOMAIN a = {2, 11} /\ DOMAIN b = {5, 6}
  BY FinishIsPart, LastFeaturesArePart
<1>2. c = (a ++ b) ++ o
  OBVIOUS
<1> PICK d : d = a ++ b
  OBVIOUS
<1>3. DOMAIN d = {2, 5, 6, 11} /\ d[2] = a[2] /\ d[11] = a[11] /\ d[5] = b[5] /\ d[6] = b[6]
  BY <1>1 DEF ++
<1>4. /\ c[2] = d[2] /\ c[11] = d[11] /\ c[5] = d[5] /\ c[6] = d[6]
      /\ \A n \in DOMAIN o : n \notin {2, 5, 6, 11} => c[n] = o[n]
  BY <1>2, <1>3 DEF ++
<1>5. \A n \in {0, 1, 3, 4, 7, 8, 9, 10, 12, 13} : c[n] = o[n]
  BY <1>4 DEF Features
<1>6. PlainFeatures(o, w)
  BY PlainAreWritten DEF AllRead
<1>7. PlainFeatures(c, w)
  BY <1>5, <1>6 DEF PlainFeatures
<1>8. c[2] = FinishVector(w)[2] /\ c[11] = FinishVector(w)[11]
      /\ c[5] = LastFeatures(w)[5] /\ c[6] = LastFeatures(w)[6]
  BY <1>3, <1>4
<1>9. VectorOf(c, w)
  BY <1>7, <1>8, FinishValues, LastValues DEF VectorOf
<1> QED BY <1>9

-----------------------------------------------------------------------------
(* What a body means, feature by feature.                                  *)

HasPrevious == \A f \in LastFields : Occurrences(f) # {}

MeaningByFeature ==
  /\ Meaning = [n \in Features |-> Meaning[n]]
  /\ Meaning[0] = Quantize(Value(<<"transaction", "amount">>).val, 10000)
  /\ Meaning[1] = Quantize(Value(<<"transaction", "installments">>).val, 12)
  /\ Meaning[2] = (IF Value(<<"customer", "avg_amount">>).val > 0
                   THEN Quantize(Value(<<"transaction", "amount">>).val,
                                 10 * Value(<<"customer", "avg_amount">>).val)
                   ELSE Scale)
  /\ Meaning[3] = Quantize(Value(<<"transaction", "requested_at">>).text.hour, 23)
  /\ Meaning[4] = Quantize(Weekday(Value(<<"transaction", "requested_at">>).text), 6)
  /\ Meaning[5] = (IF HasPrevious
                   THEN Quantize(MinutesBetween(Value(<<"last_transaction", "timestamp">>).text,
                                                Value(<<"transaction", "requested_at">>).text), 1440)
                   ELSE -Scale)
  /\ Meaning[6] = (IF HasPrevious
                   THEN Quantize(Value(<<"last_transaction", "km_from_current">>).val, 1000)
                   ELSE -Scale)
  /\ Meaning[7] = Quantize(Value(<<"terminal", "km_from_home">>).val, 1000)
  /\ Meaning[8] = Quantize(Value(<<"customer", "tx_count_24h">>).val, 20)
  /\ Meaning[9] = (IF Value(<<"terminal", "is_online">>).val THEN Scale ELSE 0)
  /\ Meaning[10] = (IF Value(<<"terminal", "card_present">>).val THEN Scale ELSE 0)
  /\ Meaning[11] = (IF \E k \in DOMAIN Value(<<"customer", "known_merchants">>).items :
                         Value(<<"customer", "known_merchants">>).items[k].text
                           = Value(<<"merchant", "id">>).text
                    THEN 0 ELSE Scale)
  /\ Meaning[12] = Quantize(RiskOf(Value(<<"merchant", "mcc">>).text), 100)
  /\ Meaning[13] = Quantize(Value(<<"merchant", "avg_amount">>).val, 10000)

LEMMA MeaningValues == MeaningByFeature
<1>1. Meaning = [n \in Features |-> Meaning[n]]
  <2> DEFINE num(s, k) == Value(<<s, k>>).val
             requested == Value(<<"transaction", "requested_at">>).text
             last == Value(<<"last_transaction", "timestamp">>).text
             avg == num("customer", "avg_amount")
             merchants == Value(<<"customer", "known_merchants">>).items
             known == \E k \in DOMAIN merchants : merchants[k].text = Value(<<"merchant", "id">>).text
             hasPrevious == \A f \in LastFields : Occurrences(f) # {}
             flag(b) == IF b THEN Scale ELSE 0
             M(n) ==
               CASE n = 0 -> Quantize(num("transaction", "amount"), 10000)
                 [] n = 1 -> Quantize(num("transaction", "installments"), 12)
                 [] n = 2 -> IF avg > 0 THEN Quantize(num("transaction", "amount"), 10 * avg) ELSE Scale
                 [] n = 3 -> Quantize(requested.hour, 23)
                 [] n = 4 -> Quantize(Weekday(requested), 6)
                 [] n = 5 -> IF hasPrevious THEN Quantize(MinutesBetween(last, requested), 1440) ELSE -Scale
                 [] n = 6 -> IF hasPrevious THEN Quantize(num("last_transaction", "km_from_current"), 1000)
                             ELSE -Scale
                 [] n = 7 -> Quantize(num("terminal", "km_from_home"), 1000)
                 [] n = 8 -> Quantize(num("customer", "tx_count_24h"), 20)
                 [] n = 9 -> flag(num("terminal", "is_online"))
                 [] n = 10 -> flag(num("terminal", "card_present"))
                 [] n = 11 -> flag(~known)
                 [] n = 12 -> Quantize(RiskOf(Value(<<"merchant", "mcc">>).text), 100)
                 [] n = 13 -> Quantize(num("merchant", "avg_amount"), 10000)
  <2>1. Meaning = [n \in Features |-> M(n)]
    BY DEF Meaning
  <2> HIDE DEF M
  <2> QED BY <2>1
<1>2. Meaning[0] = Quantize(Value(<<"transaction", "amount">>).val, 10000)
  BY DEF Meaning, Features
<1>3. Meaning[1] = Quantize(Value(<<"transaction", "installments">>).val, 12)
  BY DEF Meaning, Features
<1>4. Meaning[2] = (IF Value(<<"customer", "avg_amount">>).val > 0
                     THEN Quantize(Value(<<"transaction", "amount">>).val,
                                   10 * Value(<<"customer", "avg_amount">>).val)
                     ELSE Scale)
  BY DEF Meaning, Features
<1>5. Meaning[3] = Quantize(Value(<<"transaction", "requested_at">>).text.hour, 23)
  BY DEF Meaning, Features
<1>6. Meaning[4] = Quantize(Weekday(Value(<<"transaction", "requested_at">>).text), 6)
  BY DEF Meaning, Features
<1>7. Meaning[5] = (IF HasPrevious
                     THEN Quantize(MinutesBetween(Value(<<"last_transaction", "timestamp">>).text,
                                                  Value(<<"transaction", "requested_at">>).text), 1440)
                     ELSE -Scale)
  BY DEF Meaning, Features, HasPrevious
<1>8. Meaning[6] = (IF HasPrevious
                     THEN Quantize(Value(<<"last_transaction", "km_from_current">>).val, 1000)
                     ELSE -Scale)
  BY DEF Meaning, Features, HasPrevious
<1>9. Meaning[7] = Quantize(Value(<<"terminal", "km_from_home">>).val, 1000)
  BY DEF Meaning, Features
<1>10. Meaning[8] = Quantize(Value(<<"customer", "tx_count_24h">>).val, 20)
  BY DEF Meaning, Features
<1>11. Meaning[9] = (IF Value(<<"terminal", "is_online">>).val THEN Scale ELSE 0)
  BY DEF Meaning, Features
<1>12. Meaning[10] = (IF Value(<<"terminal", "card_present">>).val THEN Scale ELSE 0)
  BY DEF Meaning, Features
<1>13. Meaning[11] = (IF \E k \in DOMAIN Value(<<"customer", "known_merchants">>).items :
                           Value(<<"customer", "known_merchants">>).items[k].text
                             = Value(<<"merchant", "id">>).text
                      THEN 0 ELSE Scale)
  BY DEF Meaning, Features
<1>14. Meaning[12] = Quantize(RiskOf(Value(<<"merchant", "mcc">>).text), 100)
  BY DEF Meaning, Features
<1>15. Meaning[13] = Quantize(Value(<<"merchant", "avg_amount">>).val, 10000)
  BY DEF Meaning, Features
<1> QED BY <1>1, <1>2, <1>3, <1>4, <1>5, <1>6, <1>7, <1>8, <1>9, <1>10, <1>11, <1>12, <1>13, <1>14, <1>15 DEF MeaningByFeature

(* The fields the vector depends on, once read, are what the body says.    *)
LEMMA SaidFields ==
  ASSUME NEW w, AllRead(w), \A f \in DOMAIN w : Says(f, w[f])
  PROVE  /\ w[<<"transaction", "amount">>] = Value(<<"transaction", "amount">>).val
         /\ w[<<"transaction", "installments">>] = Value(<<"transaction", "installments">>).val
         /\ w[<<"transaction", "requested_at">>] = Value(<<"transaction", "requested_at">>).text
         /\ w[<<"transaction", "requested_at">>] \in Dates
         /\ IsCalendarDay(w[<<"transaction", "requested_at">>])
         /\ w[<<"customer", "avg_amount">>] = Value(<<"customer", "avg_amount">>).val
         /\ w[<<"customer", "tx_count_24h">>] = Value(<<"customer", "tx_count_24h">>).val
         /\ w[<<"customer", "known_merchants">>]
              = {Value(<<"customer", "known_merchants">>).items[k].text :
                   k \in DOMAIN Value(<<"customer", "known_merchants">>).items}
         /\ w[<<"merchant", "id">>] = Value(<<"merchant", "id">>).text
         /\ w[<<"merchant", "mcc">>] = Value(<<"merchant", "mcc">>).text
         /\ w[<<"merchant", "avg_amount">>] = Value(<<"merchant", "avg_amount">>).val
         /\ w[<<"terminal", "is_online">>] = Value(<<"terminal", "is_online">>).val
         /\ w[<<"terminal", "card_present">>] = Value(<<"terminal", "card_present">>).val
         /\ w[<<"terminal", "km_from_home">>] = Value(<<"terminal", "km_from_home">>).val
         /\ LastFields \subseteq DOMAIN w =>
              /\ w[<<"last_transaction", "timestamp">>] = Value(<<"last_transaction", "timestamp">>).text
              /\ w[<<"last_transaction", "timestamp">>] \in Dates
              /\ IsCalendarDay(w[<<"last_transaction", "timestamp">>])
              /\ w[<<"last_transaction", "km_from_current">>]
                   = Value(<<"last_transaction", "km_from_current">>).val
<1>1. /\ <<"transaction", "amount">> \in DOMAIN w /\ <<"transaction", "installments">> \in DOMAIN w
      /\ <<"transaction", "requested_at">> \in DOMAIN w /\ <<"customer", "avg_amount">> \in DOMAIN w
      /\ <<"customer", "tx_count_24h">> \in DOMAIN w /\ <<"customer", "known_merchants">> \in DOMAIN w
      /\ <<"merchant", "id">> \in DOMAIN w /\ <<"merchant", "mcc">> \in DOMAIN w
      /\ <<"merchant", "avg_amount">> \in DOMAIN w /\ <<"terminal", "is_online">> \in DOMAIN w
      /\ <<"terminal", "card_present">> \in DOMAIN w /\ <<"terminal", "km_from_home">> \in DOMAIN w
  BY RequiredAre, FieldTypes DEF AllRead
<1>2. /\ \A f \in DOMAIN w : FieldType[f] \in {"int", "double", "bool"} => w[f] = Value(f).val
      /\ \A f \in DOMAIN w : FieldType[f] \in {"str", "date"} => w[f] = Value(f).text
      /\ \A f \in DOMAIN w : FieldType[f] = "date" => w[f] \in Dates /\ IsCalendarDay(w[f])
      /\ \A f \in DOMAIN w : FieldType[f] = "list" =>
           w[f] = {Value(f).items[k].text : k \in DOMAIN Value(f).items}
  BY DEF Says, AllRead
<1>3. /\ w[<<"transaction", "amount">>] = Value(<<"transaction", "amount">>).val
      /\ w[<<"transaction", "installments">>] = Value(<<"transaction", "installments">>).val
  BY <1>1, <1>2, FieldTypes
<1>4. /\ w[<<"transaction", "requested_at">>] = Value(<<"transaction", "requested_at">>).text
      /\ w[<<"transaction", "requested_at">>] \in Dates
      /\ IsCalendarDay(w[<<"transaction", "requested_at">>])
  BY <1>1, <1>2, FieldTypes
<1>5. /\ w[<<"customer", "avg_amount">>] = Value(<<"customer", "avg_amount">>).val
      /\ w[<<"customer", "tx_count_24h">>] = Value(<<"customer", "tx_count_24h">>).val
  BY <1>1, <1>2, FieldTypes
<1>6. w[<<"customer", "known_merchants">>]
        = {Value(<<"customer", "known_merchants">>).items[k].text :
             k \in DOMAIN Value(<<"customer", "known_merchants">>).items}
  <2> PICK f : f = <<"customer", "known_merchants">>
    OBVIOUS
  <2>1. FieldType[f] = "list" /\ f \in DOMAIN w
    BY <1>1, FieldTypes
  <2>2. w[f] = {Value(f).items[k].text : k \in DOMAIN Value(f).items}
    BY <1>2, <2>1
  <2> QED BY <2>2
<1>7. /\ w[<<"merchant", "id">>] = Value(<<"merchant", "id">>).text
      /\ w[<<"merchant", "mcc">>] = Value(<<"merchant", "mcc">>).text
      /\ w[<<"merchant", "avg_amount">>] = Value(<<"merchant", "avg_amount">>).val
  BY <1>1, <1>2, FieldTypes
<1>8. /\ w[<<"terminal", "is_online">>] = Value(<<"terminal", "is_online">>).val
      /\ w[<<"terminal", "card_present">>] = Value(<<"terminal", "card_present">>).val
      /\ w[<<"terminal", "km_from_home">>] = Value(<<"terminal", "km_from_home">>).val
  BY <1>1, <1>2, FieldTypes
<1>9. ASSUME LastFields \subseteq DOMAIN w
      PROVE  /\ w[<<"last_transaction", "timestamp">>] = Value(<<"last_transaction", "timestamp">>).text
             /\ w[<<"last_transaction", "timestamp">>] \in Dates
             /\ IsCalendarDay(w[<<"last_transaction", "timestamp">>])
             /\ w[<<"last_transaction", "km_from_current">>]
                  = Value(<<"last_transaction", "km_from_current">>).val
  <2>1. /\ <<"last_transaction", "timestamp">> \in DOMAIN w
        /\ <<"last_transaction", "km_from_current">> \in DOMAIN w
    BY <1>9, RequiredAre
  <2> QED BY <1>2, <2>1, FieldTypes
<1> QED BY <1>3, <1>4, <1>5, <1>6, <1>7, <1>8, <1>9

(* The vector of what was read of an unambiguous body is the meaning of    *)
(* the body, but for the features of last_transaction when the parser has  *)
(* not read it.                                                            *)
LEMMA MeaningOf ==
  ASSUME NEW w, AllRead(w), \A f \in DOMAIN w : Says(f, w[f]),
         NEW v, VectorOf(v, w), v \in [Features -> Range0]
  PROVE  /\ LastFields \subseteq DOMAIN w /\ HasPrevious => v = Meaning
         /\ ~(LastFields \subseteq DOMAIN w) => v = [Meaning EXCEPT ![5] = -Scale, ![6] = -Scale]
         /\ ~(LastFields \subseteq DOMAIN w) /\ ~HasPrevious => v = Meaning
<1> PICK m : m = Meaning
  OBVIOUS
<1>1. v[0] = m[0] /\ v[1] = m[1]
  BY SaidFields, MeaningValues DEF MeaningByFeature, VectorOf, PlainFeatures
<1>2. v[2] = m[2]
  <2>1. v[2] = (IF Value(<<"customer", "avg_amount">>).val > 0
                THEN Quantize(Value(<<"transaction", "amount">>).val,
                              10 * Value(<<"customer", "avg_amount">>).val)
                ELSE Scale)
    <3> PICK a, b : a = Value(<<"customer", "avg_amount">>).val /\ b = Value(<<"transaction", "amount">>).val
      OBVIOUS
    <3>1. w[<<"customer", "avg_amount">>] = a /\ w[<<"transaction", "amount">>] = b
      BY SaidFields
    <3>2. v[2] = (IF w[<<"customer", "avg_amount">>] > 0
                  THEN Quantize(w[<<"transaction", "amount">>], 10 * w[<<"customer", "avg_amount">>])
                  ELSE Scale)
      BY DEF VectorOf
    <3>3. v[2] = (IF a > 0 THEN Quantize(b, 10 * a) ELSE Scale)
      BY <3>1, <3>2
    <3> QED BY <3>3
  <2> QED BY <2>1, MeaningValues DEF MeaningByFeature
<1>3. v[3] = m[3]
  BY SaidFields, MeaningValues DEF MeaningByFeature, VectorOf, PlainFeatures
<1>4. v[4] = m[4]
  <2> PICK t : t = w[<<"transaction", "requested_at">>]
    OBVIOUS
  <2>1. t \in Dates /\ IsCalendarDay(t) /\ t = Value(<<"transaction", "requested_at">>).text
    BY SaidFields
  <2>2. DayOfWeek(t) = Weekday(t)
    BY <2>1, WeekdayIsRight
  <2>3. v[4] = Quantize(DayOfWeek(t), 6)
    BY DEF VectorOf, PlainFeatures
  <2>4. m[4] = Quantize(Weekday(t), 6)
    BY <2>1, MeaningValues DEF MeaningByFeature
  <2> QED BY <2>2, <2>3, <2>4
<1>5. v[7] = m[7] /\ v[8] = m[8]
  BY SaidFields, MeaningValues DEF MeaningByFeature, VectorOf, PlainFeatures
<1>6. v[9] = m[9] /\ v[10] = m[10]
  BY SaidFields, MeaningValues DEF MeaningByFeature, VectorOf, PlainFeatures
<1>7. v[11] = m[11]
  <2> PICK its : its = Value(<<"customer", "known_merchants">>).items
    OBVIOUS
  <2> PICK id : id = Value(<<"merchant", "id">>).text
    OBVIOUS
  <2>1. v[11] = (IF id \in {its[k].text : k \in DOMAIN its} THEN 0 ELSE Scale)
    <3>1. w[<<"customer", "known_merchants">>] = {its[k].text : k \in DOMAIN its}
      BY SaidFields
    <3>2. w[<<"merchant", "id">>] = id
      BY SaidFields
    <3>3. v[11] = (IF w[<<"merchant", "id">>] \in w[<<"customer", "known_merchants">>] THEN 0 ELSE Scale)
      BY DEF VectorOf
    <3> QED BY <3>1, <3>2, <3>3
  <2>2. m[11] = (IF \E k \in DOMAIN its : its[k].text = id THEN 0 ELSE Scale)
    BY MeaningValues DEF MeaningByFeature
  <2>3. id \in {its[k].text : k \in DOMAIN its} <=> \E k \in DOMAIN its : its[k].text = id
    OBVIOUS
  <2> QED BY <2>1, <2>2, <2>3
<1>8. v[12] = m[12] /\ v[13] = m[13]
  BY SaidFields, MeaningValues DEF MeaningByFeature, VectorOf, PlainFeatures
<1>9. ASSUME LastFields \subseteq DOMAIN w, HasPrevious
      PROVE  v[5] = m[5] /\ v[6] = m[6]
  <2> PICK t, u : /\ t = w[<<"last_transaction", "timestamp">>]
                  /\ u = w[<<"transaction", "requested_at">>]
    OBVIOUS
  <2>1. /\ t \in Dates /\ IsCalendarDay(t) /\ t = Value(<<"last_transaction", "timestamp">>).text
        /\ w[<<"last_transaction", "km_from_current">>] = Value(<<"last_transaction", "km_from_current">>).val
    BY <1>9, SaidFields
  <2>2. u \in Dates /\ IsCalendarDay(u) /\ u = Value(<<"transaction", "requested_at">>).text
    BY SaidFields
  <2>3. EpochMinute(u) - EpochMinute(t) = MinutesBetween(t, u)
    BY <2>1, <2>2, MinutesAreRight
  <2>4. /\ v[5] = Quantize(EpochMinute(u) - EpochMinute(t), 1440)
        /\ v[6] = Quantize(w[<<"last_transaction", "km_from_current">>], 1000)
    BY <1>9 DEF VectorOf
  <2>5. /\ m[5] = Quantize(MinutesBetween(t, u), 1440)
        /\ m[6] = Quantize(Value(<<"last_transaction", "km_from_current">>).val, 1000)
    BY <1>9, <2>1, <2>2, MeaningValues DEF MeaningByFeature
  <2> QED BY <2>1, <2>3, <2>4, <2>5
<1>10. ASSUME ~(LastFields \subseteq DOMAIN w) PROVE v[5] = -Scale /\ v[6] = -Scale
  BY <1>10 DEF VectorOf
<1>11. ASSUME ~HasPrevious PROVE m[5] = -Scale /\ m[6] = -Scale
  BY <1>11, MeaningValues DEF MeaningByFeature
<1>12. m = [n \in Features |-> m[n]] /\ v = [n \in Features |-> v[n]]
  BY MeaningValues DEF MeaningByFeature
<1>13. \A n \in Features : n \notin {5, 6} => v[n] = m[n]
  BY <1>1, <1>2, <1>3, <1>4, <1>5, <1>6, <1>7, <1>8 DEF Features
<1>14. 5 \in Features /\ 6 \in Features
  BY DEF Features
<1>15. ASSUME v[5] = m[5], v[6] = m[6] PROVE v = m
  BY <1>12, <1>13, <1>15
<1>16. ASSUME v[5] = -Scale, v[6] = -Scale PROVE v = [m EXCEPT ![5] = -Scale, ![6] = -Scale]
  <2> DEFINE z == -Scale
             e == [m EXCEPT ![5] = z, ![6] = z]
  <2>1. v[5] = z /\ v[6] = z
    BY <1>16
  <2> HIDE DEF z
  <2>2. e = [n \in Features |-> e[n]] /\ e[5] = z /\ e[6] = z
        /\ \A n \in Features : n \notin {5, 6} => e[n] = m[n]
    BY <1>12, <1>14
  <2> HIDE DEF e
  <2>3. v = e
    BY <1>12, <1>13, <2>1, <2>2
  <2> QED BY <2>3 DEF e, z
<1> QED BY <1>9, <1>10, <1>11, <1>15, <1>16

-----------------------------------------------------------------------------
(* The vector that is returned.                                            *)

(* A fast parser has written the features of every field it has read.      *)
ReadIsWritten ==
  strategy # "serde" /\ result = "running" => Written(out, vals)

LEMMA NothingIsWritten ==
  ASSUME NEW w, DOMAIN w = {}, NEW o
  PROVE  Written(o, w)
  BY DEF Written

LEMMA FreshIsWritten == Fresh => ReadIsWritten
<1> SUFFICES ASSUME Fresh PROVE ReadIsWritten
  OBVIOUS
<1>1. DOMAIN vals = {}
  BY DEF Fresh
<1>2. Written(out, vals)
  BY <1>1, NothingIsWritten
<1> QED BY <1>2 DEF ReadIsWritten

LEMMA ReadAndWritten ==
  ASSUME ParserType, InPlace, ReadFromBody, More, IsField, Written(out, vals),
         Token.value.kind = KindOf(FieldType[Path]),
         FieldType[Path] = "date" => Token.value.raw # NotADate,
         vals' = Only(Path, BytesOf(Path, Token.value)) ++ vals,
         out' = FieldFeatures(Path, BytesOf(Path, Token.value)) ++ out
  PROVE  Written(out', vals')
<1> PICK p, t : p = Path /\ t = Token.value
  OBVIOUS
<1>1. p \in Fields /\ IsValue(p[2], t)
  <2>1. Token.kind = "field" /\ Path \in Fields
    BY DEF IsField
  <2>2. IsValue(Token.key, Token.value)
    BY <2>1, TokenFacts
  <2> QED BY <2>1, <2>2 DEF Path
<1> PICK v : v = BytesOf(p, t)
  OBVIOUS
<1>2. IsRead(p, v) /\ (FieldType[p] = "date" => v \in Dates)
  BY <1>1, BytesAreRead
<1>3. IsPart(FieldFeatures(p, v))
  BY <1>1, <1>2, FieldFeaturesArePart
<1>4. DOMAIN out = Features /\ DOMAIN vals \subseteq Fields
  BY DEF ParserType, ReadFromBody
<1>5. Written(FieldFeatures(p, v) ++ out, Only(p, v) ++ vals)
  BY <1>1, <1>3, <1>4, OneMoreWritten
<1>6. vals' = Only(p, v) ++ vals /\ out' = FieldFeatures(p, v) ++ out
  OBVIOUS
<1> QED BY <1>5, <1>6

LEMMA WrittenStep ==
  ASSUME ParserInv, ReadIsWritten, [Next]_vars
  PROVE  ReadIsWritten'
<1>1. CASE CompactStep
  <2>1. /\ ParserType /\ InPlace /\ ReadFromBody /\ More /\ CompactTakes /\ Written(out, vals)
    BY <1>1 DEF ParserInv, CompactStep, Running, ReadIsWritten
  <2>2. CASE IsField
    <3>1. /\ Token.value.kind = KindOf(FieldType[Path])
          /\ FieldType[Path] = "date" => Token.value.raw # NotADate
      BY <2>1, <2>2 DEF CompactTakes, CompactReads
    <3>2. /\ vals' = Only(Path, BytesOf(Path, Token.value)) ++ vals
          /\ out' = FieldFeatures(Path, BytesOf(Path, Token.value)) ++ out
      BY <1>1, <2>2 DEF CompactStep
    <3>3. Written(out', vals')
      BY <2>1, <2>2, <3>1, <3>2, ReadAndWritten
    <3> QED BY <3>3 DEF ReadIsWritten
  <2>3. CASE ~IsField
    <3>1. vals' = vals /\ out' = out
      BY <1>1, <2>3 DEF CompactStep
    <3> QED BY <2>1, <3>1 DEF ReadIsWritten
  <2> QED BY <2>2, <2>3
<1>2. CASE SingleField
  <2>1. /\ ParserType /\ InPlace /\ ReadFromBody /\ More /\ SingleTakes /\ Written(out, vals)
    BY <1>2 DEF ParserInv, SingleField, Running, ReadIsWritten
  <2>2. CASE IsField /\ Token.exact
    <3>1. /\ Token.value.kind = KindOf(FieldType[Path])
          /\ FieldType[Path] = "date" => Token.value.raw # NotADate
      BY <2>1, <2>2 DEF SingleTakes, SingleReads
    <3>2. /\ vals' = Only(Path, BytesOf(Path, Token.value)) ++ vals
          /\ out' = FieldFeatures(Path, BytesOf(Path, Token.value)) ++ out
      BY <1>2, <2>2 DEF SingleField
    <3>3. Written(out', vals')
      BY <2>1, <2>2, <3>1, <3>2, ReadAndWritten
    <3> QED BY <3>3 DEF ReadIsWritten
  <2>3. CASE ~(IsField /\ Token.exact)
    <3>1. vals' = vals /\ out' = out
      BY <1>2, <2>3 DEF SingleField
    <3> QED BY <2>1, <3>1 DEF ReadIsWritten
  <2> QED BY <2>2, <2>3
<1>3. CASE CompactRefuse \/ SingleRefuse
  <2>1. vals' = << >>
    BY <1>3 DEF CompactRefuse, SingleRefuse, TryNext
  <2>2. DOMAIN vals' = {}
    BY <2>1
  <2>3. Written(out', vals')
    BY <2>2, NothingIsWritten
  <2> QED BY <2>3 DEF ReadIsWritten
<1>4. CASE SingleOpen \/ SingleClose
  BY <1>4 DEF SingleOpen, SingleClose, Running, Advance, ReadIsWritten
<1>5. CASE CompactFinish \/ SingleFinish \/ SerdeFinish \/ SerdeRefuse
  BY <1>5 DEF CompactFinish, SingleFinish, SerdeFinish, SerdeRefuse, Accept, ReadIsWritten
<1>6. CASE SerdeOpen \/ SerdeField \/ SerdeClose
  BY <1>6 DEF SerdeOpen, SerdeField, SerdeClose, Running, Advance, ReadIsWritten
<1>7. CASE UNCHANGED vars
  BY <1>7 DEF vars, ReadIsWritten
<1> QED BY <1>1, <1>2, <1>3, <1>4, <1>5, <1>6, <1>7 DEF Next

(* The single-pass parser reads last_transaction as a whole only where all *)
(* its keys are spelled as in the code.                                    *)
LEMMA SkippedIsNotRead ==
  ASSUME ParserInv, Faithful, Single, SkipsLast
  PROVE  ~(LastFields \subseteq DOMAIN vals)
<1> SUFFICES ASSUME LastFields \subseteq DOMAIN vals PROVE FALSE
  OBVIOUS
<1>1. strategy = "single_pass"
  BY DEF SkipsLast
<1>2. ASSUME NEW f \in LastFields
      PROVE  /\ \A i \in Occurrences(f) : Tokens[i].exact
             /\ \A i \in Sectioned("last_transaction") : Tokens[i].exact
  <2>1. f \in DOMAIN vals /\ f \in Fields /\ f[1] = "last_transaction" /\ "last_transaction" \in Sections
    BY LastFieldsAre
  <2>2. PICK i \in Occurrences(f) : Kept(f, i, vals[f])
    BY <2>1 DEF Faithful, KeptValues
  <2>3. Tokens[i].exact /\ \E j \in Sectioned(f[1]) : Tokens[j].exact
    BY <1>1, <2>2 DEF Kept
  <2>4. \A k \in Occurrences(f) : k = i
    BY <2>1 DEF Single
  <2>5. PICK j \in Sectioned("last_transaction") : Tokens[j].exact
    BY <2>1, <2>3
  <2>6. \A k \in Sectioned("last_transaction") : k = j
    BY <2>1 DEF Single
  <2> QED BY <2>3, <2>4, <2>5, <2>6
<1>3. LastFields # {}
  BY LastFieldsAre
<1>4. PICK i \in Sectioned("last_transaction") \cup UNION {Occurrences(f) : f \in LastFields} :
        ~Tokens[i].exact
  BY DEF SkipsLast
<1> QED BY <1>2, <1>3, <1>4

(* At the end of a body a parser that does not skip them has both fields   *)
(* of last_transaction if they occur.                                      *)
LEMMA PreviousIsRead ==
  ASSUME ParserInv, Faithful, Single, ~SkipsLast,
         strategy = "compact" => section = "end",
         strategy # "compact" => AtEnd
  PROVE  LastFields \subseteq DOMAIN vals <=> HasPrevious
<1>0. LastFields # {} /\ LastFields \subseteq Fields
  BY LastFieldsAre
<1>1. ASSUME LastFields \subseteq DOMAIN vals PROVE HasPrevious
  BY <1>1 DEF HasPrevious, ParserInv, ReadFromBody
<1>2. ASSUME HasPrevious PROVE LastFields \subseteq DOMAIN vals
  <2>0. strategy \in {"compact", "single_pass", "serde"} /\ ParserType /\ InPlace
    BY DEF ParserInv, ParserType
  <2>1. CASE strategy = "compact"
    BY <1>0, <1>2, <2>1, CompactIsWhole DEF HasPrevious
  <2>2. CASE strategy = "single_pass"
    <3>1. LastIsExact
      BY <2>2 DEF SkipsLast, LastIsExact
    <3>2. \A f \in LastFields : \A i \in Occurrences(f) : i < pos => f \in DOMAIN vals
      BY <2>2, <3>1 DEF ParserInv, LastIsRead
    <3>3. \A f : \A i \in Occurrences(f) : i < pos
      BY <2>0, <2>2, EndOfBody
    <3> QED BY <1>2, <3>2, <3>3 DEF HasPrevious
  <2>3. CASE strategy = "serde"
    <3>1. \A f \in Fields : \A i \in Occurrences(f) : i < pos => f \in DOMAIN vals
      BY <2>3 DEF Faithful, HasAllBehind
    <3>2. \A f : \A i \in Occurrences(f) : i < pos
      BY <2>0, <2>3, EndOfBody
    <3> QED BY <1>0, <1>2, <3>1, <3>2 DEF HasPrevious
  <2> QED BY <2>0, <2>1, <2>2, <2>3
<1> QED BY <1>1, <1>2

(* What a parser has read at the end of an unambiguous body makes the      *)
(* vector that the body means.                                             *)
LEMMA EndMeansBody ==
  ASSUME ParserInv, Faithful, Unambiguous, Required \subseteq DOMAIN vals,
         strategy = "compact" => section = "end",
         strategy # "compact" => AtEnd,
         strategy = "serde" => \A f \in DOMAIN vals : FieldType[f] = "date" => vals[f] # NotADate,
         NEW v, VectorOf(v, vals), v \in [Features -> Range0]
  PROVE  v = IF SkipsLast THEN [Meaning EXCEPT ![5] = -Scale, ![6] = -Scale] ELSE Meaning
<1>1. IsBody(body) /\ Single
  BY UnambiguousIsSingle DEF ParserInv, ParserType
<1>2. AllRead(vals)
  BY AllIsRead
<1>3. ASSUME NEW f \in DOMAIN vals PROVE Says(f, vals[f])
  <2>1. f \in Fields
    BY DEF ParserInv, ReadFromBody
  <2>2. PICK i \in Occurrences(f) : Kept(f, i, vals[f])
    BY DEF Faithful, KeptValues
  <2>3. FieldType[f] = "date" => vals[f] # NotADate
    <3> SUFFICES ASSUME FieldType[f] = "date" PROVE vals[f] # NotADate
      OBVIOUS
    <3>1. CASE strategy = "serde"
      BY <3>1
    <3>2. CASE strategy # "serde"
      BY <2>2, <3>2 DEF Kept, BytesOf
    <3> QED BY <3>1, <3>2
  <2> QED BY <1>1, <2>1, <2>2, <2>3, KeptIsSaid
<1>4. /\ LastFields \subseteq DOMAIN vals /\ HasPrevious => v = Meaning
      /\ ~(LastFields \subseteq DOMAIN vals) => v = [Meaning EXCEPT ![5] = -Scale, ![6] = -Scale]
      /\ ~(LastFields \subseteq DOMAIN vals) /\ ~HasPrevious => v = Meaning
  BY <1>2, <1>3, MeaningOf
<1>5. CASE SkipsLast
  BY <1>1, <1>4, <1>5, SkippedIsNotRead
<1>6. CASE ~SkipsLast
  <2>1. LastFields \subseteq DOMAIN vals <=> HasPrevious
    BY <1>1, <1>6, PreviousIsRead
  <2> QED BY <1>4, <1>6, <2>1
<1> QED BY <1>5, <1>6

LEMMA SameMeaning ==
  ASSUME body' = body, strategy' = strategy
  PROVE  Meaning' = Meaning /\ SkipsLast' = SkipsLast
<1>1. \A f : Occurrences(f)' = Occurrences(f)
  BY SameBody
<1>2. \A f : Value(f)' = Value(f)
  BY <1>1, SameBody DEF Value
<1>3. HasPrevious' = HasPrevious
  BY <1>1 DEF HasPrevious
<1>4. MeaningByFeature /\ MeaningByFeature'
  BY MeaningValues, PTL
<1> PICK m, n : m = Meaning /\ n = Meaning'
  OBVIOUS
<1>5. m = [k \in Features |-> m[k]] /\ n = [k \in Features |-> n[k]]
  BY <1>4 DEF MeaningByFeature
<1>6. n[0] = m[0] /\ n[1] = m[1] /\ n[2] = m[2] /\ n[3] = m[3] /\ n[4] = m[4]
  BY <1>2, <1>4 DEF MeaningByFeature
<1>7. n[5] = m[5] /\ n[6] = m[6]
  BY <1>2, <1>3, <1>4 DEF MeaningByFeature
<1>8. n[7] = m[7] /\ n[8] = m[8] /\ n[9] = m[9] /\ n[10] = m[10]
  BY <1>2, <1>4 DEF MeaningByFeature
<1>9. n[11] = m[11] /\ n[12] = m[12] /\ n[13] = m[13]
  BY <1>2, <1>4 DEF MeaningByFeature
<1>10. \A k \in Features : n[k] = m[k]
  BY <1>6, <1>7, <1>8, <1>9 DEF Features
<1>11. n = m
  BY <1>5, <1>10
<1>12. SkipsLast' = SkipsLast
  BY <1>1, SameText DEF SkipsLast
<1> QED BY <1>11, <1>12

(* A step that takes the body at its end, and those that do not.           *)
LEMMA TakenMeansBody ==
  ASSUME ParserInv, Faithful, Required \subseteq DOMAIN vals,
         strategy = "compact" => section = "end",
         strategy # "compact" => AtEnd,
         strategy = "serde" => \A f \in DOMAIN vals : FieldType[f] = "date" => vals[f] # NotADate,
         body' = body, strategy' = strategy, VectorOf(out', vals), out' \in [Features -> Range0]
  PROVE  AcceptedMeansBody'
<1> SUFFICES ASSUME Unambiguous'
             PROVE  out' = IF SkipsLast' THEN [Meaning' EXCEPT ![5] = -Scale, ![6] = -Scale] ELSE Meaning'
  BY DEF AcceptedMeansBody
<1>1. Unambiguous
  BY SameText
<1> PICK v : v = out'
  OBVIOUS
<1>2. v = IF SkipsLast THEN [Meaning EXCEPT ![5] = -Scale, ![6] = -Scale] ELSE Meaning
  BY <1>1, EndMeansBody
<1> QED BY <1>2, SameMeaning

LEMMA NotTakenYet ==
  ASSUME result' # "ok"
  PROVE  AcceptedMeansBody'
  BY DEF AcceptedMeansBody

LEMMA MeansBodyStep ==
  ASSUME ParserInv, Faithful, ReadIsWritten, AcceptedMeansBody, [Next]_vars
  PROVE  AcceptedMeansBody'
<1>1. CASE CompactStep \/ CompactRefuse \/ SingleOpen \/ SingleField \/ SingleClose \/ SingleRefuse
           \/ SerdeOpen \/ SerdeField \/ SerdeClose \/ SerdeRefuse
  <2>1. result' # "ok"
    BY <1>1 DEF CompactStep, CompactRefuse, SingleOpen, SingleField, SingleClose, SingleRefuse,
                SerdeOpen, SerdeField, SerdeClose, SerdeRefuse, Running, Advance, TryNext
  <2> QED BY <2>1, NotTakenYet
<1>2. CASE CompactFinish \/ SingleFinish
  <2>1. /\ result = "running" /\ Accept(vals) /\ strategy \in {"compact", "single_pass"}
        /\ strategy = "compact" => section = "end"
        /\ strategy # "compact" => AtEnd /\ SingleComplete
    BY <1>2 DEF CompactFinish, SingleFinish, Running
  <2>2. /\ body' = body /\ strategy' = strategy
        /\ out' = FinishVector(vals) ++ LastFeatures(vals) ++ out
    BY <2>1 DEF Accept
  <2>3. Required \subseteq DOMAIN vals
    BY <2>1, CompactIsWhole DEF SingleComplete
  <2>4. AllRead(vals) /\ out \in [Features -> Range0]
    BY <2>1, <2>3, AllIsRead
  <2>5. Written(out, vals)
    BY <2>1 DEF ReadIsWritten
  <2>6. VectorOf(out', vals)
    BY <2>2, <2>4, <2>5, Assembled
  <2>7. out' \in [Features -> Range0]
    BY <2>2, <2>4, AcceptedVector
  <2> QED BY <2>1, <2>2, <2>3, <2>6, <2>7, TakenMeansBody
<1>3. CASE SerdeFinish
  <2>1. /\ strategy = "serde" /\ AtEnd /\ SerdeComplete
        /\ body' = body /\ strategy' = strategy
        /\ out' = FinishVector(vals) ++ LastFeatures(vals) ++ EveryFieldFeature(vals)
    BY <1>3 DEF SerdeFinish, Running
  <2>2. /\ Required \subseteq DOMAIN vals
        /\ \A f \in DOMAIN vals : FieldType[f] = "date" => vals[f] # NotADate
    BY <2>1 DEF SerdeComplete
  <2>3. AllRead(vals)
    BY <2>2, AllIsRead
  <2> PICK o : o = EveryFieldFeature(vals)
    OBVIOUS
  <2>4. Written(o, vals) /\ Features \ {2, 5, 6, 11} \subseteq DOMAIN o
    BY <2>3, EveryFieldWritten, EveryFeatureIsPart
  <2>5. VectorOf(out', vals)
    BY <2>1, <2>3, <2>4, Assembled
  <2>6. out' \in [Features -> Range0]
    BY <2>1, <2>3, WrittenVector
  <2> QED BY <2>1, <2>2, <2>5, <2>6, TakenMeansBody
<1>4. CASE UNCHANGED vars
  <2>1. body' = body /\ strategy' = strategy /\ result' = result /\ out' = out
    BY <1>4 DEF vars
  <2>2. Unambiguous' = Unambiguous
    BY <2>1, SameText
  <2> QED BY <2>1, <2>2, SameMeaning DEF AcceptedMeansBody
<1> QED BY <1>1, <1>2, <1>3, <1>4 DEF Next

(* Together: what a parser reads, writes, takes and refuses.               *)
ReadingInv ==
  /\ ParserInv
  /\ Faithful
  /\ ReadIsWritten
  /\ AcceptedMeansBody

LEMMA AtStartOfReading == Fresh => ReadingInv
<1> SUFFICES ASSUME Fresh PROVE ReadingInv
  OBVIOUS
<1>1. AcceptedMeansBody
  BY DEF Fresh, AcceptedMeansBody
<1> QED BY <1>1, AtStart, FreshIsFaithful, FreshIsWritten DEF ReadingInv

LEMMA ReadingStep ==
  ASSUME ReadingInv, [Next]_vars
  PROVE  ReadingInv'
  BY ParserStep, FaithfulStep, WrittenStep, MeansBodyStep DEF ReadingInv

LEMMA ReadingImplies == ReadingInv => WellFormedIsAccepted /\ AcceptedMeansBody
  BY DEF ReadingInv, Faithful

=============================================================================
