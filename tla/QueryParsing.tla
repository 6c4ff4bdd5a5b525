---------------------------- MODULE QueryParsing ----------------------------
(***************************************************************************)
(* From the body of a request to the vector that is searched: parse_query  *)
(* of src/src/vector/mod.rs and the three parsers it tries in turn.        *)
(*                                                                         *)
(* A body is a sequence of tokens: a key that opens a section, a key with  *)
(* its value, a closing brace (the last one closes the body). Each token   *)
(* tells what the parsers tell apart: whether the key is spelled as in the *)
(* code or only in a way that field_matches accepts, whether white space   *)
(* precedes it, and whether the comma before it is not where JSON wants it *)
(* (missing between two members, or left over before a brace).             *)
(***************************************************************************)
EXTENDS Integers, Sequences, FiniteSets

CONSTANTS
  Scale,     (* SCALE.                                                      *)
  MaxKnown,  (* Length of known_hashes: 64.                                 *)
  IntMax,    (* i32::MAX.                                                   *)
  NotADate   (* A string that parse_datetime refuses.                       *)

ASSUME ParsingAssumption ==
  /\ Scale \in Nat \ {0}
  /\ MaxKnown \in Nat \ {0}
  /\ IntMax \in Nat \ {0}

(* One entry, and entries written over others: :> and @@ of TLC, which the *)
(* provers do not know.                                                    *)
Only(x, v) == [y \in {x} |-> v]
f ++ g == [x \in DOMAIN f \cup DOMAIN g |-> IF x \in DOMAIN f THEN f[x] ELSE g[x]]

VARIABLES
  body,      (* payload.                                                    *)
  strategy,  (* The parser that runs.                                       *)
  pos,       (* i: the token it reads next.                                 *)
  section,   (* The object it is in.                                        *)
  vals,      (* Its locals: the value of every field it has read.           *)
  hasLast,   (* has_last_transaction.                                       *)
  out,       (* The vector.                                                 *)
  result     (* What parse_query returns.                                   *)

vars == <<body, strategy, pos, section, vals, hasLast, out, result>>

-----------------------------------------------------------------------------
(* Fields, sections and features.                                          *)

Features == 0 .. 13

(* Every field the vector depends on, and the type the parsers expect.     *)
Fields ==
  ({"transaction"} \X {"amount", "installments", "requested_at"})
  \cup ({"customer"} \X {"avg_amount", "tx_count_24h", "known_merchants"})
  \cup ({"merchant"} \X {"id", "mcc", "avg_amount"})
  \cup ({"terminal"} \X {"is_online", "card_present", "km_from_home"})
  \cup ({"last_transaction"} \X {"timestamp", "km_from_current"})

FieldType ==
  [f \in Fields |->
     CASE f[2] \in {"installments", "tx_count_24h"} -> "int"
       [] f[2] \in {"requested_at", "timestamp"} -> "date"
       [] f[2] \in {"id", "mcc"} -> "str"
       [] f[2] \in {"is_online", "card_present"} -> "bool"
       [] f[2] = "known_merchants" -> "list"
       [] OTHER -> "double"]

Sections == {f[1] : f \in Fields}
FieldsOf(s) == {f \in Fields : f[1] = s}
LastFields == FieldsOf("last_transaction")
Required == Fields \ LastFields

-----------------------------------------------------------------------------
(* Numbers and dates.                                                      *)

(* Fault: the upper clamp is forgotten.                                   *)
QuantizeUnclamped(n, d) ==
  CASE n <= -d -> -Scale
    [] n > -d /\ n <= 0 -> 0
    [] OTHER -> (2 * n * Scale + d) \div (2 * d)

(* quantize: the fraction n/d, clamped to -1, 0 and 1, times SCALE and     *)
(* rounded.                                                                *)
Quantize(n, d) ==
  CASE n <= -d -> -Scale
    [] n > -d /\ n <= 0 -> 0
    [] n >= d -> Scale
    [] OTHER -> (2 * n * Scale + d) \div (2 * d)

(* An i32 read digit by digit with wrapping_mul and wrapping_add.          *)
Wrap(n) == ((n + IntMax + 1) % (2 * (IntMax + 1))) - IntMax - 1

(* The parts of days_from_civil, in years that begin in March.             *)
MarchYear(t) == IF t.month <= 2 THEN t.year - 1 ELSE t.year
Era(t) == MarchYear(t) \div 400
YearOfEra(t) == MarchYear(t) - Era(t) * 400
DayOfMarchYear(t) ==
  LET shiftedMonth == IF t.month > 2 THEN t.month - 3 ELSE t.month + 9
  IN (153 * shiftedMonth + 2) \div 5 + t.day - 1
DayOfEra(t) ==
  YearOfEra(t) * 365 + YearOfEra(t) \div 4 - YearOfEra(t) \div 100 + DayOfMarchYear(t)

(* Fault: every fourth year of a century is a leap year.                  *)
DaysFromJulian(t) ==
  Era(t) * 146097 + DayOfEra(t) + YearOfEra(t) \div 100 - 719468

(* days_from_civil: days from 1970-01-01.                                  *)
DaysFromCivil(t) == Era(t) * 146097 + DayOfEra(t) - 719468

EpochMinute(t) == DaysFromCivil(t) * 1440 + t.hour * 60 + t.minute

(* The remainder of i64, which has the sign of the dividend.               *)
DayOfWeek(t) ==
  LET n == DaysFromCivil(t) + 3 IN IF n >= 0 THEN n % 7 ELSE -((-n) % 7)

(* mcc_risk, in hundredths; a code that is malformed counts as unknown, and *)
(* an unknown one as 5999.                                                 *)
RiskOf(mcc) ==
  CASE mcc = "5411" -> 15 [] mcc = "5812" -> 30 [] mcc = "5912" -> 20 [] mcc = "5944" -> 45
    [] mcc = "7801" -> 80 [] mcc = "7802" -> 75 [] mcc = "7995" -> 85 [] mcc = "4511" -> 35
    [] mcc = "5311" -> 25 [] OTHER -> 50

-----------------------------------------------------------------------------
(* The features that follow from one field, and those that need several.   *)

TransactionFeatures(f, v) ==
  CASE f[2] = "amount" -> Only(0, Quantize(v, 10000))
    [] f[2] = "installments" -> Only(1, Quantize(v, 12))
    [] f[2] = "requested_at" ->
         Only(3, Quantize(v.hour, 23)) ++ Only(4, Quantize(DayOfWeek(v), 6))

CustomerFeatures(f, v) ==
  IF f[2] = "tx_count_24h" THEN Only(8, Quantize(v, 20)) ELSE <<>>

MerchantFeatures(f, v) ==
  CASE f[2] = "mcc" -> Only(12, Quantize(RiskOf(v), 100))
    [] f[2] = "avg_amount" -> Only(13, Quantize(v, 10000))
    [] OTHER -> <<>>

TerminalFeatures(f, v) ==
  CASE f[2] = "is_online" -> Only(9, IF v THEN Scale ELSE 0)
    [] f[2] = "card_present" -> Only(10, IF v THEN Scale ELSE 0)
    [] f[2] = "km_from_home" -> Only(7, Quantize(v, 1000))

FieldFeatures(f, v) ==
  CASE f[1] = "transaction" -> TransactionFeatures(f, v)
    [] f[1] = "customer" -> CustomerFeatures(f, v)
    [] f[1] = "merchant" -> MerchantFeatures(f, v)
    [] f[1] = "terminal" -> TerminalFeatures(f, v)
    [] OTHER -> <<>>

(* Features 5 and 6, once the end of the body is reached.                  *)
LastFeatures(w) ==
  IF LastFields \subseteq DOMAIN w
  THEN Only(5, Quantize(EpochMinute(w[<<"transaction", "requested_at">>])
                          - EpochMinute(w[<<"last_transaction", "timestamp">>]), 1440))
       ++ Only(6, Quantize(w[<<"last_transaction", "km_from_current">>], 1000))
  ELSE Only(5, -Scale) ++ Only(6, -Scale)

(* finish_vector: the amount against the customer's average, and whether   *)
(* the customer knows the merchant. Hashes are taken to be injective.      *)
FinishVector(w) ==
  LET avg == w[<<"customer", "avg_amount">>]
      known == w[<<"customer", "known_merchants">>]
  IN Only(2, IF avg > 0 THEN Quantize(w[<<"transaction", "amount">>], 10 * avg) ELSE Scale)
     ++ Only(11, IF w[<<"merchant", "id">>] \in known THEN 0 ELSE Scale)

-----------------------------------------------------------------------------
(* What a value of a token is to a parser: whether it can be read, and as  *)
(* what. A string has its bytes (raw) and, if they hold escapes, a         *)
(* different text; a number is plain if fast_parse_f64 takes it and, for   *)
(* an integer, if it has neither fraction nor exponent.                    *)

(* The names that enter the table of known merchants.                      *)
FirstKnown(names) ==
  {names[k] : k \in 1 .. (IF Len(names) < MaxKnown THEN Len(names) ELSE MaxKnown)}

KindOf(type) ==
  CASE type \in {"double", "int"} -> "num"
    [] type \in {"str", "date"} -> "str"
    [] OTHER -> type

(* Strings without a backslash, numbers without an exponent.               *)
CompactReads(f, v) ==
  /\ v.kind = KindOf(FieldType[f])
  /\ v.kind = "num" => v.plain
  /\ v.kind = "str" => v.raw = v.text
  /\ v.kind = "list" => \A k \in DOMAIN v.items : v.items[k].raw = v.items[k].text
  /\ FieldType[f] = "date" => v.raw # NotADate

(* read_known_merchants_at ends the list at the first bracket, and finds   *)
(* no closing quote before it.                                             *)
SingleReads(f, v) ==
  /\ v.kind = KindOf(FieldType[f])
  /\ v.kind = "list" => \A k \in DOMAIN v.items : ~v.items[k].bracket
  /\ FieldType[f] = "date" => v.raw # NotADate

SerdeReads(f, v) ==
  /\ v.kind = KindOf(FieldType[f])
  /\ FieldType[f] = "int" => v.plain /\ v.val \in -IntMax - 1 .. IntMax

BytesOf(f, v) ==
  CASE FieldType[f] = "int" -> Wrap(v.val)
    [] FieldType[f] \in {"double", "bool"} -> v.val
    [] FieldType[f] \in {"str", "date"} -> v.raw
    [] FieldType[f] = "list" -> FirstKnown([k \in DOMAIN v.items |-> v.items[k].raw])

SerdeValue(f, v) ==
  CASE FieldType[f] \in {"int", "double", "bool"} -> v.val
    [] FieldType[f] \in {"str", "date"} -> v.text
    [] FieldType[f] = "list" -> FirstKnown([k \in DOMAIN v.items |-> v.items[k].text])

-----------------------------------------------------------------------------
(* The three parsers.                                                      *)

Start(b) ==
  /\ body = b
  /\ strategy = "compact"
  /\ pos = 1
  /\ section = "top"
  /\ vals = <<>>
  /\ hasLast = FALSE
  /\ out = [f \in Features |-> 0]
  /\ result = "running"

More == pos <= Len(body.tokens)
Token == body.tokens[pos]
Path == <<section, Token.key>>
IsField == Token.kind = "field" /\ Path \in Fields
Opens == Token.kind = "open" /\ section = "top"

Running(s) == result = "running" /\ strategy = s
Advance == pos' = pos + 1 /\ UNCHANGED <<body, strategy, result>>

(* A parser that fails leaves the vector as it is; the next one starts     *)
(* from zeroes and from the first byte.                                    *)
TryNext(s) ==
  /\ strategy' = s
  /\ pos' = 1
  /\ section' = "top"
  /\ vals' = <<>>
  /\ hasLast' = FALSE
  /\ out' = [f \in Features |-> 0]
  /\ UNCHANGED <<body, result>>

Accept(w) ==
  /\ result' = "ok"
  /\ out' = FinishVector(w) ++ LastFeatures(w) ++ out
  /\ UNCHANGED <<body, strategy, pos, section, vals, hasLast>>

(* The compact parser knows one order of the fields and no white space.    *)
CompactOrder ==
  << <<"field", "top", "id">>,
     <<"open", "top", "transaction">>, <<"field", "transaction", "amount">>,
     <<"field", "transaction", "installments">>,
     <<"field", "transaction", "requested_at">>, <<"close", "transaction", "">>,
     <<"open", "top", "customer">>, <<"field", "customer", "avg_amount">>,
     <<"field", "customer", "tx_count_24h">>,
     <<"field", "customer", "known_merchants">>, <<"close", "customer", "">>,
     <<"open", "top", "merchant">>, <<"field", "merchant", "id">>,
     <<"field", "merchant", "mcc">>, <<"field", "merchant", "avg_amount">>,
     <<"close", "merchant", "">>,
     <<"open", "top", "terminal">>, <<"field", "terminal", "is_online">>,
     <<"field", "terminal", "card_present">>,
     <<"field", "terminal", "km_from_home">>, <<"close", "terminal", "">>,
     <<"open", "top", "last_transaction">>,
     <<"field", "last_transaction", "timestamp">>,
     <<"field", "last_transaction", "km_from_current">>,
     <<"close", "last_transaction", "">>, <<"close", "top", "">> >>

LastPos == 22

IsNull == Token.kind = "field" /\ Path = <<"top", "last_transaction">> /\ Token.value.kind = "null"

(* After null only the brace that closes the body may follow.              *)
CompactExpects ==
  \/ pos <= Len(CompactOrder) /\ <<Token.kind, section, Token.key>> = CompactOrder[pos]
  \/ pos = LastPos /\ IsNull
  \/ pos = LastPos + 1 /\ section = "top" /\ Token.kind = "close"

CompactTakes ==
  /\ CompactExpects
  /\ Token.exact /\ ~Token.spaced /\ ~Token.loose
  /\ IsField => CompactReads(Path, Token.value)
  /\ Path = <<"top", "id">> => Token.value.kind = "str" /\ Token.value.raw = Token.value.text

SectionAfter(t) ==
  CASE t.kind = "open" -> t.key
    [] t.kind = "close" -> IF section = "top" THEN "end" ELSE "top"
    [] OTHER -> section

(* Feature 5 is written as soon as the timestamp is read, in this order    *)
(* after requested_at; here with feature 6, at the end.                    *)
CompactStep ==
  /\ Running("compact") /\ section # "end" /\ More
  /\ CompactTakes
  /\ Advance
  /\ section' = SectionAfter(Token)
  /\ IF IsField
     THEN LET v == BytesOf(Path, Token.value)
          IN vals' = Only(Path, v) ++ vals /\ out' = FieldFeatures(Path, v) ++ out
     ELSE UNCHANGED <<vals, out>>
  /\ UNCHANGED hasLast

CompactFinish ==
  /\ Running("compact") /\ section = "end" /\ ~body.tail
  /\ Accept(vals)

CompactRefuse ==
  /\ Running("compact")
  /\ \/ section # "end" /\ (More => ~CompactTakes)
     \/ section = "end" /\ body.tail
  /\ TryNext("single_pass")

(* The single-pass parser takes the keys in any order and skips the ones   *)
(* it does not know, a whole object where one of those opens it. It needs  *)
(* no comma, lets the last value of a field win, and keeps the fields of   *)
(* a section that occurs twice together.                                   *)
SkipsObject == Opens /\ ~(Token.exact /\ Token.key \in Sections)

SingleKnows == Token.exact /\ (Token.kind = "open" \/ IsField)

SingleTakes ==
  /\ IsField /\ Token.exact => SingleReads(Path, Token.value)
  /\ Token.kind = "field" /\ section = "top" /\ Token.exact /\ Token.key \in Sections =>
       IsNull

SingleOpen ==
  /\ Running("single_pass") /\ More /\ Opens
  /\ Advance
  /\ section' = IF SkipsObject THEN "skipped" ELSE Token.key
  /\ hasLast' = (hasLast \/ (~SkipsObject /\ Token.key = "last_transaction"))
  /\ UNCHANGED <<vals, out>>

SingleField ==
  /\ Running("single_pass") /\ More /\ Token.kind = "field"
  /\ SingleTakes
  /\ Advance
  /\ IF IsField /\ Token.exact
     THEN LET v == BytesOf(Path, Token.value)
          IN vals' = Only(Path, v) ++ vals /\ out' = FieldFeatures(Path, v) ++ out
     ELSE UNCHANGED <<vals, out>>
  /\ hasLast' = (hasLast \/ (IsNull /\ Token.exact))
  /\ UNCHANGED section

SingleClose ==
  /\ Running("single_pass") /\ More /\ Token.kind = "close" /\ section # "top"
  /\ Advance
  /\ section' = "top"
  /\ UNCHANGED <<vals, hasLast, out>>

AtEnd == More /\ Token.kind = "close" /\ section = "top"

(* Fault: one field of last_transaction is enough.                        *)
SingleCompleteEither ==
  Required \subseteq DOMAIN vals /\ hasLast

(* Either both fields of last_transaction or none.                         *)
SingleComplete ==
  /\ Required \subseteq DOMAIN vals
  /\ hasLast
  /\ LastFields \cap DOMAIN vals \in {{}, LastFields}

SingleFinish ==
  /\ Running("single_pass") /\ AtEnd /\ SingleComplete
  /\ Accept(vals)

(* Fault: the loop does not notice the end of a body cut short.           *)
SingleRefuseInside ==
  /\ Running("single_pass")
  /\ \/ More /\ Token.kind = "field" /\ ~SingleTakes
     \/ AtEnd /\ ~SingleComplete
  /\ TryNext("serde")

SingleRefuse ==
  /\ Running("single_pass")
  /\ \/ ~More
     \/ More /\ Token.kind = "field" /\ ~SingleTakes
     \/ AtEnd /\ ~SingleComplete
  /\ TryNext("serde")

(* serde_json takes the keys in any order and spelling, and JSON only. A   *)
(* section is a structure: it must be complete when it closes, and when it *)
(* occurs again it replaces the one before.                                *)
SerdeTakes ==
  /\ ~Token.loose
  /\ IsField => SerdeReads(Path, Token.value)
  /\ Token.kind = "field" /\ section = "top" /\ Token.key \in Sections => IsNull
  /\ Token.kind = "close" /\ section \in Sections => FieldsOf(section) \subseteq DOMAIN vals

Without(s) == [f \in DOMAIN vals \ FieldsOf(s) |-> vals[f]]

SerdeOpen ==
  /\ Running("serde") /\ More /\ Opens
  /\ SerdeTakes
  /\ Advance
  /\ section' = IF Token.key \in Sections THEN Token.key ELSE "skipped"
  /\ vals' = IF Token.key \in Sections THEN Without(Token.key) ELSE vals
  /\ UNCHANGED <<hasLast, out>>

SerdeField ==
  /\ Running("serde") /\ More /\ Token.kind = "field"
  /\ SerdeTakes
  /\ Advance
  /\ vals' = CASE IsField -> Only(Path, SerdeValue(Path, Token.value)) ++ vals
              [] IsNull -> Without("last_transaction")
              [] OTHER -> vals
  /\ UNCHANGED <<section, hasLast, out>>

SerdeClose ==
  /\ Running("serde") /\ More /\ Token.kind = "close" /\ section # "top"
  /\ SerdeTakes
  /\ Advance
  /\ section' = "top"
  /\ UNCHANGED <<vals, hasLast, out>>

(* Fault: a missing last_transaction is an error, and so is null.          *)
SerdeCompleteWithLast ==
  /\ ~Token.loose /\ ~body.tail
  /\ Fields \subseteq DOMAIN vals
  /\ \A f \in DOMAIN vals : FieldType[f] = "date" => vals[f] # NotADate

SerdeComplete ==
  /\ ~Token.loose /\ ~body.tail
  /\ Required \subseteq DOMAIN vals
  /\ \A f \in DOMAIN vals : FieldType[f] = "date" => vals[f] # NotADate

EveryFieldFeature(w) ==
  [n \in UNION {DOMAIN FieldFeatures(f, w[f]) : f \in Required} |->
     LET f == CHOOSE f \in Required : n \in DOMAIN FieldFeatures(f, w[f])
     IN FieldFeatures(f, w[f])[n]]

(* Every feature is written here; a body without last_transaction counts   *)
(* as one where it is null.                                                *)
SerdeFinish ==
  /\ Running("serde") /\ AtEnd /\ SerdeComplete
  /\ result' = "ok"
  /\ out' = FinishVector(vals) ++ LastFeatures(vals) ++ EveryFieldFeature(vals)
  /\ UNCHANGED <<body, strategy, pos, section, vals, hasLast>>

(* What the vector holds then is never read.                               *)
SerdeRefuse ==
  /\ Running("serde")
  /\ \/ ~More
     \/ More /\ ~AtEnd /\ ~SerdeTakes
     \/ AtEnd /\ ~SerdeComplete
  /\ result' = "error"
  /\ UNCHANGED <<body, strategy, pos, section, vals, hasLast, out>>

Next ==
  \/ CompactStep \/ CompactFinish \/ CompactRefuse
  \/ SingleOpen \/ SingleField \/ SingleClose \/ SingleFinish \/ SingleRefuse
  \/ SerdeOpen \/ SerdeField \/ SerdeClose \/ SerdeFinish \/ SerdeRefuse

-----------------------------------------------------------------------------
(* What a body means, whatever the parser: a reference in which fields     *)
(* have no order and days are counted along the calendar.                  *)

Tokens == body.tokens
Positions == DOMAIN Tokens

(* The section that the token at i is in.                                  *)
SectionIn(tokens, i) ==
  LET before == {j \in 1 .. i - 1 : tokens[j].kind \in {"open", "close"}}
      last == CHOOSE j \in before : \A k \in before : k <= j
  IN IF before # {} /\ tokens[last].kind = "open" THEN tokens[last].key ELSE "top"

SectionAt(i) == SectionIn(Tokens, i)

(* The bodies of this model: the objects in them hold no objects, nothing  *)
(* follows the brace that closes the body but the tail, and no object has  *)
(* the name of one of the places above; no comma stands before the first   *)
(* member of an object. A string whose bytes are a date has no escape      *)
(* among them: behind a backslash stands no digit.                         *)
Dates == [year : Int, month : Int, day : Int, hour : Int, minute : Int]

IsValue(key, v) ==
  /\ v.kind = "num" => v.val \in Int
  /\ v.kind = "bool" => v.val \in BOOLEAN
  /\ key \in {"requested_at", "timestamp"} /\ v.kind = "str" =>
       /\ v.text = NotADate \/ v.text \in Dates
       /\ v.raw = NotADate \/ v.raw = v.text
  /\ v.kind = "list" => v.items \in Seq({v.items[k] : k \in DOMAIN v.items})

IsBody(b) ==
  LET tokens == b.tokens
  IN /\ tokens \in Seq({tokens[i] : i \in DOMAIN tokens})
     /\ \A i \in DOMAIN tokens :
          /\ tokens[i].kind \in {"open", "field", "close"}
          /\ tokens[i].kind = "open" =>
               SectionIn(tokens, i) = "top" /\ tokens[i].key \notin {"top", "skipped", "end"}
          /\ tokens[i].kind = "close" /\ SectionIn(tokens, i) = "top" => i = Len(tokens)
          /\ tokens[i].kind = "field" => IsValue(tokens[i].key, tokens[i].value)
          /\ tokens[i].loose => i > 1 /\ tokens[i - 1].kind # "open"

Occurrences(f) ==
  {i \in Positions : Tokens[i].kind = "field" /\ <<SectionAt(i), Tokens[i].key>> = f}

Sectioned(s) == {i \in Positions : Tokens[i].kind = "open" /\ Tokens[i].key = s}
Nulls == Occurrences(<<"top", "last_transaction">>)
Value(f) == Tokens[CHOOSE i \in Occurrences(f) : TRUE].value

IsLeap(y) == y % 4 = 0 /\ (y % 100 # 0 \/ y % 400 = 0)
MonthDays(y, m) ==
  CASE m = 2 -> IF IsLeap(y) THEN 29 ELSE 28
    [] m \in {4, 6, 9, 11} -> 30
    [] OTHER -> 31

IsCalendarDay(t) ==
  /\ t.year >= 1970 /\ t.month \in 1 .. 12 /\ t.day \in 1 .. MonthDays(t.year, t.month)
  /\ t.hour \in 0 .. 23 /\ t.minute \in 0 .. 59

(* Days from 1970-01-01 to t: whole years, whole months, days.             *)
CalendarDays(t) ==
  365 * (t.year - 1970)
  + Cardinality({y \in 1970 .. t.year - 1 : IsLeap(y)})
  + Cardinality({md \in (1 .. t.month - 1) \X (1 .. 31) : md[2] <= MonthDays(t.year, md[1])})
  + t.day - 1

MinutesBetween(a, b) ==
  1440 * (CalendarDays(b) - CalendarDays(a)) + 60 * (b.hour - a.hour) + b.minute - a.minute

(* 1970-01-01 was a Thursday; the week begins on Monday.                   *)
Weekday(t) == (CalendarDays(t) + 3) % 7

(* Every field occurs at most once, each string is written without         *)
(* escapes, each integer is one and fits, dates are of the calendar, and   *)
(* the list of merchants fits.                                             *)
Unambiguous ==
  /\ \A f \in Fields : Cardinality(Occurrences(f)) <= 1
  /\ \A s \in Sections : Cardinality(Sectioned(s)) <= 1
  /\ Cardinality(Nulls \cup Sectioned("last_transaction")) <= 1
  /\ \A f \in Fields : Occurrences(f) # {} =>
       CASE FieldType[f] = "int" ->
              Value(f).kind = "num" => Value(f).plain /\ Value(f).val \in -IntMax - 1 .. IntMax
         [] FieldType[f] = "date" ->
              Value(f).kind = "str" /\ Value(f).text # NotADate => IsCalendarDay(Value(f).text)
         [] FieldType[f] = "str" -> Value(f).kind = "str" => Value(f).raw = Value(f).text
         [] FieldType[f] = "list" -> Value(f).kind = "list" =>
              /\ Len(Value(f).items) <= MaxKnown
              /\ \A k \in DOMAIN Value(f).items : Value(f).items[k].raw = Value(f).items[k].text
         [] OTHER -> TRUE

Meaning ==
  LET num(s, k) == Value(<<s, k>>).val
      requested == Value(<<"transaction", "requested_at">>).text
      last == Value(<<"last_transaction", "timestamp">>).text
      avg == num("customer", "avg_amount")
      merchants == Value(<<"customer", "known_merchants">>).items
      known == \E k \in DOMAIN merchants : merchants[k].text = Value(<<"merchant", "id">>).text
      hasPrevious == \A f \in LastFields : Occurrences(f) # {}
      flag(b) == IF b THEN Scale ELSE 0
  IN [n \in Features |->
       CASE n = 0 -> Quantize(num("transaction", "amount"), 10000)
         [] n = 1 -> Quantize(num("transaction", "installments"), 12)
         [] n = 2 -> IF avg > 0 THEN Quantize(num("transaction", "amount"), 10 * avg) ELSE Scale
         [] n = 3 -> Quantize(requested.hour, 23)
         [] n = 4 -> Quantize(Weekday(requested), 6)
         [] n = 5 -> IF hasPrevious THEN Quantize(MinutesBetween(last, requested), 1440) ELSE -Scale
         [] n = 6 -> IF hasPrevious THEN Quantize(num("last_transaction", "km_from_current"), 1000)
                     ELSE -Scale
         [] n = 7 -> Quantize(num("terminal", "km_from_home"), 1000)
         [] n = 8 -> Quantize(num("customer", "tx_count_24h"), 20)
         [] n = 9 -> flag(num("terminal", "is_online"))
         [] n = 10 -> flag(num("terminal", "card_present"))
         [] n = 11 -> flag(~known)
         [] n = 12 -> Quantize(RiskOf(Value(<<"merchant", "mcc">>).text), 100)
         [] n = 13 -> Quantize(num("merchant", "avg_amount"), 10000)]

(* JSON, each member once, every value of its type.                        *)
WellFormed ==
  /\ Tokens # <<>>
  /\ ~body.tail /\ \A i \in Positions : ~Tokens[i].loose
  /\ Tokens[Len(Tokens)].kind = "close" /\ SectionAt(Len(Tokens)) = "top"
  /\ \A s \in Sections \ {"last_transaction"} : Cardinality(Sectioned(s)) = 1
  /\ \A f \in Required : Cardinality(Occurrences(f)) = 1
  /\ Cardinality(Nulls \cup Sectioned("last_transaction")) = 1
  /\ \A f \in LastFields :
       Cardinality(Occurrences(f)) = Cardinality(Sectioned("last_transaction"))
  /\ \A i \in Nulls : Tokens[i].value.kind = "null"
  /\ \A i \in Occurrences(<<"top", "id">>) : Tokens[i].value.kind = "str"
  /\ \A s \in Sections \ {"last_transaction"} : Occurrences(<<"top", s>>) = {}
  /\ \A f \in Fields : Occurrences(f) # {} =>
       /\ Value(f).kind = KindOf(FieldType[f])
       /\ FieldType[f] = "int" => Value(f).plain /\ Value(f).val \in -IntMax - 1 .. IntMax
       /\ FieldType[f] = "date" => Value(f).text # NotADate

-----------------------------------------------------------------------------
(* Properties.                                                             *)

(* The single-pass parser skips a key of last_transaction that is spelled  *)
(* otherwise, as it skips any it does not know; the last parser, which     *)
(* knows it (field_matches of serde_fallback.rs), is then never asked.     *)
SkipsLast ==
  /\ strategy = "single_pass"
  /\ \E i \in Sectioned("last_transaction") \cup UNION {Occurrences(f) : f \in LastFields} :
       ~Tokens[i].exact

(* Whichever parser takes a body, in whatever order its members come and   *)
(* whatever an earlier parser wrote before it failed, the vector is the    *)
(* one the body means, but for the keys of last_transaction that are       *)
(* skipped: then it is that of a customer without a last transaction. The  *)
(* tests compare the parsers on one body (vector/tests.rs,                 *)
(* compact_ordered_matches_serde_fallback).                                *)
AcceptedMeansBody ==
  result = "ok" /\ Unambiguous =>
    out = IF SkipsLast THEN [Meaning EXCEPT ![5] = -Scale, ![6] = -Scale] ELSE Meaning

(* No parser takes a body without a field the vector needs, nor, but for   *)
(* the skipped keys, with one of the two of last_transaction: every has_   *)
(* flag of single_pass.rs and every missing_field of serde_fallback.rs is  *)
(* tested.                                                                 *)
AcceptedIsComplete ==
  result = "ok" =>
    /\ \A f \in Required : Occurrences(f) # {}
    /\ (\E f \in LastFields : Occurrences(f) # {}) =>
         SkipsLast \/ \A f \in LastFields : Occurrences(f) # {}

(* The vector of an accepted body is 14 numbers of -Scale .. Scale, also   *)
(* when an integer of the body has wrapped (helpers.rs): the search packs   *)
(* them into 16 bits and squares their differences in 32.                  *)
VectorInRange ==
  result = "ok" => out \in [Features -> -Scale .. Scale]

(* A body of JSON with every field of its type is taken, by one of the     *)
(* three: none of them is stricter than the last.                          *)
WellFormedIsAccepted ==
  result # "running" /\ WellFormed => result = "ok"

=============================================================================
