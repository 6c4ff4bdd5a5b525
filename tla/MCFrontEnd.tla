----------------------------- MODULE MCFrontEnd -----------------------------
(***************************************************************************)
(* Requests for TLC. Bodies: the baseline of src/src/vector/tests.rs, with *)
(* one edit of its layout and one of its values, each in one read. Heads:  *)
(* what clients may write around the baseline, in every way to cut it.     *)
(***************************************************************************)
EXTENDS FrontEnd

Token0(k, key, v) ==
  [kind |-> k, key |-> key, value |-> v, exact |-> TRUE, spaced |-> FALSE, loose |-> FALSE]

Null == [kind |-> "null"]
Num(n) == [kind |-> "num", val |-> n, plain |-> TRUE]
Float(n) == [kind |-> "num", val |-> n, plain |-> FALSE]
Bool(b) == [kind |-> "bool", val |-> b]
Str(t) == [kind |-> "str", raw |-> t, text |-> t, bracket |-> FALSE]
Escaped(t) == [kind |-> "str", raw |-> "escaped", text |-> t, bracket |-> FALSE]
List(items) == [kind |-> "list", items |-> items]
At(y, m, d, h, mi) == [year |-> y, month |-> m, day |-> d, hour |-> h, minute |-> mi]

Field(k, v) == Token0("field", k, v)
Close == Token0("close", "", Null)
Section(s, fields) == <<Token0("open", s, Null)>> \o fields \o <<Close>>

Id == <<Field("id", Str("tx-1"))>>
Transaction == Section("transaction",
  << Field("amount", Num(385)), Field("installments", Num(3)),
     Field("requested_at", Str(At(2026, 3, 11, 20, 23))) >>)
Customer == Section("customer",
  << Field("avg_amount", Num(770)), Field("tx_count_24h", Num(3)),
     Field("known_merchants", List(<<Str("MERC-009"), Str("MERC-001")>>)) >>)
Merchant == Section("merchant",
  << Field("id", Str("MERC-001")), Field("mcc", Str("5912")), Field("avg_amount", Num(299)) >>)
Terminal == Section("terminal",
  << Field("is_online", Bool(FALSE)), Field("card_present", Bool(TRUE)),
     Field("km_from_home", Num(14)) >>)
LastTransaction == Section("last_transaction",
  << Field("timestamp", Str(At(2026, 3, 11, 14, 58))), Field("km_from_current", Num(19)) >>)

Parts == <<Id, Transaction, Customer, Merchant, Terminal, LastTransaction>>
Whole(parts) == FlattenSeq(parts) \o <<Close>>
Baseline == Whole(Parts)
Size == Len(Baseline)

(* The layouts: what a client may do to the baseline without touching its  *)
(* values. A key may be spaced, spelled otherwise or lack its comma; a     *)
(* member may be missing or occur twice; the sections come in other        *)
(* orders; the body may be cut short or followed by more.                  *)
Plain(ts) == [tokens |-> ts, tail |-> FALSE]
Orders == {<<1, 2, 3, 4, 5, 6>>, <<3, 1, 6, 4, 5, 2>>, <<6, 5, 4, 3, 2, 1>>}
Marked(i) ==
  {Plain([Baseline EXCEPT ![i].spaced = TRUE]),
   Plain([Baseline EXCEPT ![i].loose = Baseline[i - 1].kind # "open"]),
   Plain([Baseline EXCEPT ![i].exact = Baseline[i].kind = "close"])}
Layouts ==
  {Plain(Whole([k \in 1 .. 6 |-> Parts[o[k]]])) : o \in Orders}
  \cup UNION {Marked(i) : i \in 2 .. Size}
  \cup {Plain(RemoveAt(Baseline, i)) : i \in {j \in 1 .. Size : Baseline[j].kind = "field"}}
  \cup {Plain(SubSeq(Baseline, 1, n)) : n \in {Size - 1, Size - 2, 9}}
  \cup {Plain(Whole(SelectSeq(Parts, LAMBDA p : p # Parts[k]))) : k \in 1 .. 6}
  \cup {Plain(Whole(Parts \o <<Parts[k]>>)) : k \in 2 .. 6}
  \cup {[tokens |-> Baseline, tail |-> TRUE]}

(* The values: each replaces the one of its field wherever it occurs.      *)
Values ==
  {<<"transaction", "amount", v>> :
     v \in {Num(0), Num(9999), Num(12000), Num(-5), Float(770), Str("384.88")}}
  \cup {<<"transaction", "installments", v>> :
     v \in {Num(12), Num(300), Num(-1), Num(-300), Float(3), Bool(TRUE)}}
  \cup {<<"transaction", "requested_at", Str(t)>> :
     t \in {At(2024, 2, 29, 0, 0), At(2024, 3, 1, 23, 59), At(2000, 12, 31, 12, 0),
            At(2100, 3, 1, 0, 1), At(2026, 3, 12, 14, 57), NotADate}}
  \cup {<<"transaction", "requested_at", [Str(At(2026, 3, 11, 20, 23)) EXCEPT !.raw = NotADate]>>}
  \cup {<<"customer", "avg_amount", v>> : v \in {Num(0), Num(20)}}
  \cup {<<"customer", "known_merchants", List(l)>> :
     l \in {<<>>, <<Str("MERC-009")>>, <<Str("MERC-009"), Str("MERC-010"), Str("MERC-001")>>,
            <<[Str("MERC]") EXCEPT !.bracket = TRUE], Str("MERC-001")>>,
            <<Escaped("MERC-001")>>}}
  \cup {<<"merchant", "id", v>> : v \in {Str("MERC-002"), Escaped("MERC-001")}}
  \cup {<<"merchant", "mcc", v>> : v \in {Str("7995"), Str("none"), Num(5912)}}
  \cup {<<"terminal", "is_online", v>> : v \in {Bool(TRUE), Null}}
  \cup {<<"last_transaction", "timestamp", Str(t)>> :
     t \in {At(2024, 2, 28, 23, 59), At(2026, 3, 10, 20, 23), At(2026, 3, 13, 0, 0), NotADate}}
  \cup {<<"last_transaction", "km_from_current", v>> : v \in {Num(1000), Str("far")}}

WithValue(b, e) ==
  [b EXCEPT !.tokens =
     [i \in DOMAIN b.tokens |->
        IF b.tokens[i].kind = "field" /\ <<SectionIn(b.tokens, i), b.tokens[i].key>> = <<e[1], e[2]>>
        THEN [b.tokens[i] EXCEPT !.value = e[3]] ELSE b.tokens[i]]]

(* last_transaction: null, and members that no parser knows.               *)
NullLast == <<Field("last_transaction", Null)>>
Unknown == <<Field("channel", Str("web"))>>
UnknownObject == Section("device", <<Field("amount", Str("none"))>>)
Others ==
  {Plain(Whole(SubSeq(Parts, 1, 5) \o ps)) :
     ps \in {<<NullLast>>, <<NullLast, Unknown>>, <<UnknownObject, NullLast>>, <<LastTransaction, NullLast>>,
             <<NullLast, LastTransaction>>, <<NullLast, Transaction>>, <<Section("last_transaction", <<>>)>>}}

(* Keys of last_transaction that only the last parser knows: single_pass.rs *)
(* skips them, and finds an object with no field it knows.                 *)
Respelled ==
  {Plain([i \in 1 .. Size |-> [Baseline[i] EXCEPT !.exact = i \notin at]]) :
     at \in {{Size - 3, Size - 2}, {Size - 4, Size - 3, Size - 2}}}
  \cup {Plain(RemoveAt([Baseline EXCEPT ![i].exact = FALSE], j)) :
          i \in {Size - 3, Size - 2}, j \in {Size - 3, Size - 2}}

(* Values are combined with the orders, the other members, and a key that  *)
(* the faster parsers do not take or do not read alike.                    *)
Bodies ==
  LET varied == Others \cup Marked(3) \cup Marked(14)
                \cup {Plain(Whole([k \in 1 .. 6 |-> Parts[o[k]]])) : o \in Orders}
  IN Layouts \cup Others \cup Respelled \cup {WithValue(b, e) : b \in varied, e \in Values}

-----------------------------------------------------------------------------
(* Heads.                                                                  *)

Line(method, path) == <<method, " ", path, " ", "HTTP/1.1">>
Header(means, lexemes) == [means |-> means, lexemes |-> lexemes]
Length(name, blanks, digits) == Header("length", <<name>> \o blanks \o digits)
Host == Header("other", <<"Host: localhost">>)
StaysOpen == Header("other", <<"Connection: keep-alive">>)
ToClose(lexeme) == Header("close", <<lexeme>>)

Empty == [tokens |-> <<>>, tail |-> FALSE]
Digits(n) ==
  IF n > 9 THEN <<ToString(n \div 10), ToString(n % 10)>> ELSE <<ToString(n)>>

Request(line, fields, b) ==
  [line |-> line, method |-> IF line = <<>> THEN "none" ELSE line[1], fields |-> fields, body |-> b, next |-> <<>>,
   legal |-> TRUE, lies |-> FALSE, whole |-> FALSE]

Post(fields, b) == Request(Line("POST", "/fraud-score"), fields, b)
Get(fields) == Request(Line("GET", "/ready"), fields, Empty)

(* What the client that sends a body means by it does not depend on where  *)
(* the length stands, on its spelling or on the blanks around it.          *)
Lengths(b) ==
  {Length(name, before, Digits(BodyLength([body |-> b])) \o after) :
     name \in LengthNames, before \in {<<>>, <<" ">>, <<" ", "tab">>}, after \in {<<>>, <<" ">>}}
FieldOrders(length) ==
  {<<Host, length>>, <<length, Host>>, <<Host, length, StaysOpen>>}
  \cup {<<ToClose(c), length>> : c \in CloseHeaders}
  \cup {<<length, ToClose(c)>> : c \in CloseHeaders}

(* Bodies short enough to keep the number of cuts small.                   *)
ShortBody == [tokens |-> Id \o <<Close>>, tail |-> FALSE]
Following == {<<>>, Encoded(Get(<<ToClose("Connection: close")>>)),
              Encoded(Post(<<Length(ExactLength, <<" ">>, <<"2">>)>>, ShortBody))}

(* A body longer than MAX_BODY_LEN, which stays below BUF_SIZE with no     *)
(* head; and headers that fill the buffer to n lexemes or one more or less. *)
Ample == FlattenSeq([k \in 1 .. 5 |-> Transaction \o Customer \o Merchant])
BodyOf(n) == Plain(SubSeq(Ample, 1, n))
PostOf(n) == Post(<<Length(ExactLength, <<" ">>, Digits(n))>>, BodyOf(n))
Filling(r, n) ==
  [r EXCEPT !.fields = @ \o <<Header("other", <<"X-Trace: ">> \o [k \in 1 .. n - Len(Encoded(r)) - 3 |-> "0"])>>]

Legal ==
  {Post(fields, ShortBody) : fields \in UNION {FieldOrders(l) : l \in Lengths(ShortBody)}}
  \cup {Post(<<Length(ExactLength, <<" ">>, Digits(Size))>>, Plain(Baseline))}
  \cup {Get(fields) : fields \in {<<>>, <<Host>>, <<StaysOpen, Host>>, <<Length(ExactLength, <<" ">>, <<"0">>)>>}
                                 \cup {<<ToClose(c)>> : c \in CloseHeaders}}

(* At the limits of the body and of the buffer, alone and with others that *)
(* fill what is left of it.                                                *)
Long ==
  {PostOf(n) : n \in {MAX_BODY_LEN - 1, MAX_BODY_LEN, MAX_BODY_LEN + 1}}
  \cup {Filling(r, n) : r \in {Get(<<>>), Post(<<Length(ExactLength, <<" ">>, <<"2">>)>>, ShortBody)},
                        n \in {BUF_SIZE - 1, BUF_SIZE, BUF_SIZE + 1}}
Pipelined ==
  {[Get(<<Host>>) EXCEPT !.next = FlattenSeq([k \in 1 .. 6 |-> Encoded(Get(<<Host>>))])]}

(* Legal heads that the parser reads otherwise than they are meant.        *)
XLength(name, d) == Header("other", <<"X-", name, " ", d>>)
Two == Length(ExactLength, <<" ">>, <<"2">>)
Misread ==
  {Post(fields, ShortBody) : fields \in
     {<<XLength("content-length:", "1"), Two>>, <<XLength(ExactLength, "1"), Two>>,
      <<Two, XLength(ExactLength, "1")>>, <<Header("other", <<"Proxy-", "Connection: close">>), Two>>}
     \cup {<<ToClose(c), Two>> : c \in CloseField \ CloseHeaders}}
  \cup {[Post(<<XLength(ExactLength, "9"), Two>>, ShortBody) EXCEPT !.lies = TRUE]}

(* Heads that are not as HTTP asks, or that the server does not serve.     *)
BadLines ==
  {Line("GET", "/missing"), Line("POST", "/ready"), Line("PUT", "/fraud-score"), <<"GET">>,
   <<"GET", " ">>, <<"POST", " ", "/fraud-score">>, <<"POST", " ", " ", "HTTP/1.1">>, <<>>}
TooLong == Length(ExactLength, <<" ">>, <<"9", "9">>)
OddFields ==
  {<<>>, <<Host>>, <<TooLong>>, <<Length(ExactLength, <<>>, <<"1">>)>>,
   <<Length(ExactLength, <<" ">>, <<"nope">>)>>, <<Length(ExactLength, <<>>, <<>>)>>,
   <<Length(ExactLength, <<" ">>, <<"2", " ", "7">>)>>}
Odd ==
  {[Request(line, <<Two>>, ShortBody) EXCEPT !.legal = FALSE] : line \in BadLines}
  \cup {[Post(fields, ShortBody) EXCEPT !.legal = FALSE] : fields \in OddFields}
  \cup {[Get(<<Length(ExactLength, <<" ">>, <<"3">>)>>) EXCEPT !.legal = FALSE, !.lies = TRUE]}

MCRequests ==
  {[Post(<<Length(ExactLength, <<" ">>, Digits(BodyLength([body |-> b])))>>, b)
      EXCEPT !.whole = TRUE] : b \in Bodies}
  \cup {[r EXCEPT !.next = n] : r \in Legal \cup Long \cup Misread \cup Odd, n \in Following}
  \cup Pipelined
=============================================================================
