--------------------------- MODULE RequestFraming ---------------------------
(***************************************************************************)
(* Where a request ends: parse_request_result of src/src/http/parser.rs,   *)
(* tried again on the whole buffer after every read.                       *)
(*                                                                         *)
(* A buffer is a sequence of lexemes: a word of the first line, a blank,   *)
(* the name of a header in one of its spellings, a digit, CR, LF, a byte   *)
(* of a body; the buffer has room for BUF_SIZE of them. A request that a   *)
(* client sends carries both its lexemes and what the client means by it,  *)
(* which the code never sees.                                              *)
(***************************************************************************)
EXTENDS Naturals, Sequences, SequencesExt

CONSTANTS
  Requests,         (* What clients send: a request, and what follows it.   *)
  MAX_BODY_LEN,
  BUF_SIZE,
  AssumeKeepAlive   (* RINHA_ASSUME_KEEP_ALIVE.                             *)

ASSUME FramingAssumption ==
  /\ MAX_BODY_LEN \in Nat
  /\ BUF_SIZE \in Nat \ {0}
  /\ AssumeKeepAlive \in BOOLEAN

VARIABLES
  sent,       (* The request of the client.                                 *)
  arrived,    (* How many lexemes of the stream are in the buffer.          *)
  decision    (* The result of parse_request_result on them.                *)

framingVars == <<sent, arrived, decision>>

-----------------------------------------------------------------------------
(* The scan.                                                               *)

CRLF == <<"CR", "LF">>
Blanks == {" ", "tab"}
ExactLength == "Content-Length:"
LengthNames == {ExactLength, "content-length:", "CONTENT-LENGTH:"}
CloseHeaders == {"Connection: close", "connection: close", "CONNECTION: CLOSE"}
DigitValue ==
  [d \in {"0", "1", "2", "3", "4", "5", "6", "7", "8", "9"} |->
     CHOOSE n \in 0 .. 9 : d = <<"0", "1", "2", "3", "4", "5", "6", "7", "8", "9">>[n + 1]]

(* The first position from i on that holds one of these lexemes; one past  *)
(* the end when none does.                                                 *)
NextOf(buf, i, lexemes) ==
  Min({j \in i .. Len(buf) : buf[j] \in lexemes} \cup {Len(buf) + 1})

(* find_header_end: the end of the first empty line, 0 until it is there.  *)
HeaderEnd(buf) ==
  LET ends == {n \in 4 .. Len(buf) : SubSeq(buf, n - 3, n) = CRLF \o CRLF}
  IN IF ends = {} THEN 0 ELSE Min(ends)

(* parse_first_line: a method that is known, a path, a blank after each.   *)
LineEnd(buf) == NextOf(buf, 1, {"CR"})
MethodEnd(buf) == NextOf(buf, 1, {" "})
PathEnd(buf) == NextOf(buf, MethodEnd(buf) + 1, {" "})
Method(buf) == SubSeq(buf, 1, MethodEnd(buf) - 1)
RequestPath(buf) == SubSeq(buf, MethodEnd(buf) + 1, PathEnd(buf) - 1)

FirstLineIsRequest(buf) ==
  /\ Method(buf) \in {<<"GET">>, <<"POST">>}
  /\ RequestPath(buf) # <<>>
  /\ PathEnd(buf) < LineEnd(buf)

ValueStart(buf, i) ==
  Min({j \in i .. Len(buf) : buf[j] \notin Blanks} \cup {Len(buf) + 1})

(* The number that digits spell; what is not a number counts as 0.         *)
Number(digits) ==
  LET number[n \in 0 .. Len(digits)] ==
        IF n = 0 THEN 0 ELSE 10 * number[n - 1] + DigitValue[digits[n]]
  IN IF \A n \in DOMAIN digits : digits[n] \in DOMAIN DigitValue THEN number[Len(digits)] ELSE 0

(* parse_content_length_value, of the value from position i on.            *)
ContentLengthValue(buf, i) ==
  LET start == ValueStart(buf, i)
  IN Number(SubSeq(buf, start, NextOf(buf, start, Blanks \cup {"CR"}) - 1))

(* Fault: only the exact spelling is looked for.                          *)
FindContentLengthExact(buf, from, to) ==
  LET exact == NextOf(buf, from, {ExactLength})
  IN IF exact <= to THEN ContentLengthValue(buf, exact + 1) ELSE 0

(* find_content_length in buf[from .. to]: the exact spelling wins over    *)
(* another that comes before it.                                           *)
FindContentLength(buf, from, to) ==
  LET exact == NextOf(buf, from, {ExactLength})
      any == NextOf(buf, from, LengthNames)
  IN CASE exact <= to -> ContentLengthValue(buf, exact + 1)
       [] exact > to /\ any <= to -> ContentLengthValue(buf, any + 1)
       [] OTHER -> 0

(* Fault: whatever is in the buffer is searched.                          *)
ContentLengthInBuffer(buf) == FindContentLength(buf, LineEnd(buf) + 2, Len(buf))

ContentLength(buf) == FindContentLength(buf, LineEnd(buf) + 2, HeaderEnd(buf))

NeedMore == [kind |-> "need_more"]
Reject(response) == [kind |-> "reject", response |-> response]

(* early_rejection, before any byte of the body is waited for.             *)
EarlyRejection(method, path, length) ==
  CASE method = <<"GET">> /\ path = <<"/ready">> -> NeedMore
    [] method = <<"POST">> /\ path = <<"/fraud-score">> ->
         IF length <= MAX_BODY_LEN THEN NeedMore ELSE Reject("bad_request")
    [] OTHER -> Reject("not_found")

KeepAlive(buf) ==
  AssumeKeepAlive \/ NextOf(buf, 1, CloseHeaders) > HeaderEnd(buf)

(* The body is buf[from + 1 .. to]; to is also what the request consumes.  *)
Complete(buf, end) ==
  [kind |-> "complete", method |-> Method(buf)[1], from |-> HeaderEnd(buf), to |-> end,
   keepAlive |-> KeepAlive(buf)]

ParseRequest(buf) ==
  IF HeaderEnd(buf) = 0 THEN NeedMore
  ELSE IF ~FirstLineIsRequest(buf) THEN Reject("bad_request")
  ELSE LET early == EarlyRejection(Method(buf), RequestPath(buf), ContentLength(buf))
           end == HeaderEnd(buf) + ContentLength(buf)
       IN IF early # NeedMore \/ Len(buf) < end THEN early ELSE Complete(buf, end)

-----------------------------------------------------------------------------
(* The stream of the client, which comes in whatever pieces reads return   *)
(* it, and stays in the buffer until the request is decided.               *)

HeadOf(r) == r.line \o CRLF \o FlattenSeq([k \in DOMAIN r.fields |-> r.fields[k].lexemes \o CRLF]) \o CRLF
BodyLength(r) == Len(r.body.tokens) + (IF r.body.tail THEN 1 ELSE 0)
Encoded(r) == HeadOf(r) \o [k \in 1 .. BodyLength(r) |-> "byte"]
Stream == Encoded(sent) \o sent.next

(* A head ends at its first empty line: what stands behind one is body.    *)
ASSUME StreamAssumption ==
  \A r \in Requests :
    /\ HeadOf(r) \in Seq(STRING) /\ HeadOf(r) # <<>>
    /\ HeaderEnd(HeadOf(r)) = Len(HeadOf(r))
    /\ BodyLength(r) \in Nat
    /\ Encoded(r) \in Seq(STRING)
    /\ r.next \in Seq(STRING)

(* A header as HTTP means it, whose first lexeme is its name: a length is  *)
(* digits that spell it with blanks around them, the wish to close is a    *)
(* member of Connection, with or without a blank before it.                *)
LengthField == {"Content-Length:", "content-length:", "CONTENT-LENGTH:"}
CloseField ==
  {"Connection: close", "connection: close", "CONNECTION: CLOSE",
   "Connection:close", "Connection:  close", "Connection: keep-alive, close"}

IsLength(lexemes, n) ==
  \E i, j \in 2 .. Len(lexemes) :
    /\ i <= j /\ Number(SubSeq(lexemes, i, j)) = n
    /\ \A k \in 2 .. Len(lexemes) :
         lexemes[k] \in (IF k \in i .. j THEN DOMAIN DigitValue ELSE Blanks)

IsHeaderOf(r, f) ==
  /\ f.lexemes \in Seq(STRING) /\ f.lexemes # <<>>
  /\ f.means = "length" <=> f.lexemes[1] \in LengthField
  /\ f.means = "length" => IsLength(f.lexemes, BodyLength(r))
  /\ f.means = "close" <=> f.lexemes[1] \in CloseField

(* A request of HTTP/1.1 for a path of the service, its body not in        *)
(* chunks: the length of the body is in one header.                        *)
IsLegal(r) ==
  /\ \/ r.method = "GET" /\ r.line = <<"GET", " ", "/ready", " ", "HTTP/1.1">>
     \/ r.method = "POST" /\ r.line = <<"POST", " ", "/fraud-score", " ", "HTTP/1.1">>
  /\ Len(r.fields) \in Nat /\ DOMAIN r.fields = 1 .. Len(r.fields)
  /\ \A k \in DOMAIN r.fields : IsHeaderOf(r, r.fields[k])
  /\ \A k, l \in DOMAIN r.fields :
       r.fields[k].means = "length" /\ r.fields[l].means = "length" => k = l
  /\ (\E k \in DOMAIN r.fields : r.fields[k].means = "length") \/ BodyLength(r) = 0

ASSUME LegalAssumption == \A r \in Requests : r.legal => IsLegal(r)

FramingInit ==
  /\ sent \in Requests
  /\ arrived = 0
  /\ decision = NeedMore

(* A read takes no more than there is room for, and a full buffer is       *)
(* refused before anything in it is parsed.                                *)
Room == IF Len(Stream) < BUF_SIZE THEN Len(Stream) ELSE BUF_SIZE

Arrive ==
  /\ decision = NeedMore
  /\ arrived < Room
  /\ arrived' \in IF sent.whole THEN {Room} ELSE {arrived + 1, Room}
  /\ \E buf \in {SubSeq(Stream, 1, arrived')} :
       decision' = IF arrived' >= BUF_SIZE THEN Reject("bad_request") ELSE ParseRequest(buf)
  /\ UNCHANGED sent

-----------------------------------------------------------------------------
(* Properties.                                                             *)

LexemesOf(f) == {f.lexemes[k] : k \in DOMAIN f.lexemes}

(* The legal heads that the parser reads as they are meant. It looks for   *)
(* the name of the length anywhere in the head (parser.rs:153) and so      *)
(* takes X-Content-Length before Content-Length for the length; it finds   *)
(* the wish to close where the 17 bytes of CloseHeaders stand, in          *)
(* Proxy-Connection too, and in no other form (parser.rs:190).             *)
IsUnderstood(r) ==
  \A k \in DOMAIN r.fields : LET f == r.fields[k] IN
    /\ f.means # "length" => LexemesOf(f) \cap LengthNames = {}
    /\ f.means = "close" <=> LexemesOf(f) \cap CloseHeaders # {}

Means(r, what) == \E k \in DOMAIN r.fields : r.fields[k].means = what

IsTooLong(r) == r.method = "POST" /\ BodyLength(r) > MAX_BODY_LEN

(* A legal request that the parser understands is taken when its last byte *)
(* is there and not before, with the body and the wish to close its client *)
(* meant, whatever follows it in the buffer and however its headers are    *)
(* spelled and ordered (parser.rs:64); unless it is refused, as soon as    *)
(* its head announces a body that is too long, or when the buffer is full, *)
(* if only of what follows it (evented.rs:286). The tests parse whole      *)
(* requests in one spelling, in a buffer that is not full.                 *)
FramedAsSent ==
  sent.legal /\ IsUnderstood(sent) =>
    decision =
      IF arrived >= BUF_SIZE \/ (arrived >= Len(HeadOf(sent)) /\ IsTooLong(sent))
      THEN Reject("bad_request")
      ELSE IF arrived < Len(Encoded(sent)) THEN NeedMore
      ELSE [kind |-> "complete", method |-> sent.method,
            from |-> Len(HeadOf(sent)), to |-> Len(Encoded(sent)),
            keepAlive |-> AssumeKeepAlive \/ ~Means(sent, "close")]

(* The parser keeps nothing between two reads, so what it decides, on a    *)
(* request of any form, must not depend on where the reads happened to cut *)
(* the stream (evented.rs:301 tries again after each), as long as the      *)
(* buffer is not full.                                                     *)
ChunksDoNotMatter ==
  decision # NeedMore /\ arrived < BUF_SIZE =>
    \A buf \in {Stream} : decision = ParseRequest(buf)
=============================================================================
