------------------------- MODULE EventedConnProofs -------------------------
(***************************************************************************)
(* Theorems about EventedConn, for every set of streams and all sizes.     *)
(***************************************************************************)
EXTENDS EventedConn, TLAPS

(* The parts of the inductive invariant.                                   *)

(* The table holds a connection exactly while the loop waits for it, under *)
(* the interest that its state needs.                                      *)
SlotsAgree ==
  /\ pc = "wait" <=> slot # "none"
  /\ slot = "reading" \/ pc = "read" => interest = "in"
  /\ slot = "writing" => interest = "out"

(* The offsets into the buffer stay inside it.                             *)
OffsetsInside ==
  /\ pc = "parse" => processed <= Len(buf)
  /\ pc \in {"write", "armOut"} \/ slot = "writing"
       => processed + leftLen <= Len(buf)

Unread == taken < sent \/ (fin /\ ~eofSeen)

(* The batch being written ends with the connection closed.                *)
Closing == pc \in {"write", "armOut"} /\ ~keep /\ leftLen = 0

(* What may be unread without an event pending.                            *)
WakeupPending ==
  /\ interest = "in" /\ Unread
       /\ pc \in {"wait", "parse", "armIn", "write", "armOut"}
       => ready \/ Closing
  /\ interest = "out" /\ Writable /\ pc \in {"wait", "armOut"} => ready
  /\ rst /\ interest # "none" => ready

IInv == TypeOK /\ SlotsAgree /\ OffsetsInside /\ WakeupPending

-----------------------------------------------------------------------------
(* Arithmetic of responses laid one after another: byte k of n of them     *)
(* lies in one of the n.                                                   *)
LEMMA ByteInBatch ==
  ASSUME NEW n \in Nat, NEW L \in Nat \ {0}, NEW k \in 1..(n * L)
  PROVE  /\ ((k - 1) \div L) + 1 \in 1..n
         /\ ((k - 1) % L) + 1 \in 1..L
<1> DEFINE q == (k - 1) \div L
           r == (k - 1) % L
<1>1. k - 1 = L * q + r /\ r \in 0..(L - 1) /\ q \in Int
  BY SMT
<1>2. q >= 0
  <2>1. SUFFICES ASSUME q < 0 PROVE FALSE
    BY <1>1
  <2>2. q <= -1 
    BY <2>1, <1>1
  <2>3. L * q <= L * (-1)
    BY <2>2, <1>1, SMT
  <2> QED BY <2>3, <1>1, SMT
<1>3. q < n
  <2>1. SUFFICES ASSUME q >= n PROVE FALSE
    BY <1>1
  <2>2. L * q >= L * n
    BY <2>1, <1>1, SMT
  <2>3. L * n = n * L
    BY SMT
  <2> QED BY <2>2, <2>3, <1>1, SMT
<1> QED BY <1>1, <1>2, <1>3

-----------------------------------------------------------------------------
(* What the operators the actions share do to the typed variables.         *)

BufferTypeOK ==
  /\ pc \in {"handed", "new", "read", "parse", "write", "armIn", "armOut",
             "wait", "closed"}
  /\ buf \in Seq(Nat) /\ Len(buf) <= BUF_SIZE
  /\ processed \in Nat /\ leftLen \in Nat /\ written \in Nat
  /\ batch \in Seq(Nat) /\ Len(batch) <= MAX_PIPELINED_RESPONSES
  /\ keep \in BOOLEAN
  /\ replies \in Seq(Nat)

LEMMA SubSeqOfNat ==
  ASSUME NEW s \in Seq(Nat), NEW i \in Nat, NEW j \in Nat, j <= Len(s)
  PROVE  /\ SubSeq(s, i + 1, j) \in Seq(Nat)
         /\ Len(SubSeq(s, i + 1, j)) = IF i < j THEN j - i ELSE 0
         /\ \A k \in 1..Len(SubSeq(s, i + 1, j)) :
              SubSeq(s, i + 1, j)[k] = s[i + k]
  OBVIOUS

LEMMA DriveReadingType ==
  ASSUME TypeOK, NEW b \in Seq(Nat), Len(b) <= BUF_SIZE, DriveReading(b)
  PROVE  /\ BufferTypeOK'
         /\ pc' \in {"parse", "write"}
         /\ buf' = b /\ processed' = 0 /\ leftLen' = 0
         /\ pc' = "write" => ~keep'
<1>1. Append(replies, Bad) \in Seq(Nat) /\ <<Bad>> \in Seq(Nat) /\ Len(<<Bad>>) = 1
  BY DEF TypeOK, Bad
<1>2. CASE IsFull(b)
  <2>1. batch' = <<Bad>> /\ replies' \in Seq(Nat)
    BY <1>1, <1>2 DEF DriveReading
  <2>2. Len(batch') = 1 /\ batch' \in Seq(Nat)
    BY <2>1, <1>1
  <2>3. Len(batch') <= MAX_PIPELINED_RESPONSES
    BY <2>2, SizesAssumption
  <2> QED BY <1>2, <2>1, <2>2, <2>3 DEF BufferTypeOK, DriveReading
<1>3. CASE ~IsFull(b)
  BY <1>3, SizesAssumption DEF TypeOK, BufferTypeOK, DriveReading
<1> QED BY <1>2, <1>3

LEMMA EndParseType ==
  ASSUME TypeOK, NEW off \in Nat, off <= Len(buf),
         NEW rs \in Seq(Nat), Len(rs) <= MAX_PIPELINED_RESPONSES,
         NEW ka \in BOOLEAN, EndParse(off, rs, ka), replies' \in Seq(Nat)
  PROVE  /\ BufferTypeOK'
         /\ \/ pc' = "write" /\ processed' + leftLen' = Len(buf')
            \/ pc' = "armIn"
<1>1. /\ SubSeq(buf, off + 1, Len(buf)) \in Seq(Nat)
      /\ Len(SubSeq(buf, off + 1, Len(buf))) <= BUF_SIZE
  BY SMTT(30), SubSeqOfNat, SizesAssumption DEF TypeOK
<1>2. CASE rs # << >>
  BY <1>2 DEF TypeOK, BufferTypeOK, EndParse
<1>3. CASE rs = << >>
  <2>1. buf' = SubSeq(buf, off + 1, Len(buf)) /\ pc' = "armIn"
    BY <1>3 DEF EndParse
  <2>2. buf' \in Seq(Nat) /\ Len(buf') <= BUF_SIZE
    BY <1>1, <2>1
  <2> QED BY <1>3, <2>1, <2>2 DEF BufferTypeOK, EndParse
<1> QED BY <1>2, <1>3

(* What process_one_request says: it consumes what it has.                 *)
LEMMA ParseResultType ==
  ASSUME TypeOK, NEW b \in Seq(Nat), b # << >>,
         ParseResult(b).step = "respond"
  PROVE  /\ ParseResult(b).consumed \in 1..Len(b)
         /\ ParseResult(b).request \in DOMAIN stream
         /\ stream[ParseResult(b).request].first = b[1]
         /\ ParseResult(b).keep \in BOOLEAN
         /\ ParseResult(b).consumed = stream[ParseResult(b).request].last
                 - stream[ParseResult(b).request].first + 1
         /\ stream[ParseResult(b).request].kind # "reject"
<1>1. IsRequestStart(b[1])
  BY DEF ParseResult
<1> DEFINE r == RequestAt(b[1])
<1>2. r \in DOMAIN stream /\ stream[r].first = b[1]
  BY <1>1 DEF IsRequestStart, RequestAt
<1>3. stream \in Seq(Request) /\ Contiguous(stream)
  BY StreamsAssumption DEF TypeOK
<1>4. stream[r] \in Request
  BY <1>2, <1>3
<1>5. stream[r].first <= stream[r].last
  BY <1>2, <1>3, <1>4 DEF Contiguous, Request
<1>6. /\ ParseResult(b) = [step |-> "respond",
                           consumed |-> stream[r].last - stream[r].first + 1,
                           request |-> r, keep |-> stream[r].kind = "keep"]
      /\ Len(b) > stream[r].last - stream[r].first
      /\ stream[r].kind # "reject"
  BY <1>1 DEF ParseResult
<1> HIDE DEF r
<1>7. stream[r].first \in Nat /\ stream[r].last \in Nat
  BY <1>4 DEF Request
<1>8. stream[r].last - stream[r].first + 1 \in 1..Len(b)
  BY <1>5, <1>6, <1>7
<1> QED
  BY <1>2, <1>6, <1>8

-----------------------------------------------------------------------------
(* The invariant is inductive: one lemma per part of Next.                 *)

LEMMA EmptySeq ==
  /\ << >> \in Seq(Nat) /\ << >> \in Seq(Nat \X Nat)
  /\ Len(<< >>) = 0
OBVIOUS

LEMMA InitInv == Init => IInv
<1> SUFFICES ASSUME Init PROVE IInv
  OBVIOUS
<1>1. TypeOK
  <2>1. Len(wire) = 0 /\ Len(buf) = 0 /\ Len(batch) = 0
    BY EmptySeq DEF Init
  <2>2. wire \in Seq(Nat \X Nat) /\ {buf, batch, replies} \subseteq Seq(Nat)
    BY EmptySeq DEF Init
  <2>3. Len(buf) <= BUF_SIZE /\ Len(batch) <= MAX_PIPELINED_RESPONSES
    BY <2>1, SizesAssumption
  <2>4. acked <= Len(wire)
    BY <2>1 DEF Init
  <2> QED BY <2>2, <2>3, <2>4 DEF Init, TypeOK
<1> QED BY <1>1 DEF Init, IInv, SlotsAgree, OffsetsInside, WakeupPending

LEMMA ShutdownInv == IInv /\ ShutdownClient => IInv'
<1> SUFFICES ASSUME IInv, ShutdownClient PROVE IInv'
  OBVIOUS
<1>1. TypeOK'
  <2>1. Len(buf') = 0 /\ buf' \in Seq(Nat)
    BY EmptySeq DEF ShutdownClient
  <2>2. Len(buf') <= BUF_SIZE
    BY <2>1, SizesAssumption
  <2> QED
    BY <2>1, <2>2 DEF IInv, TypeOK, ShutdownClient, clientVars, batchVars
<1> QED
  BY <1>1 DEF IInv, ShutdownClient, SlotsAgree, OffsetsInside, WakeupPending

LEMMA ReadInv == IInv /\ Read => IInv'
<1> SUFFICES ASSUME IInv, Read PROVE IInv'
  OBVIOUS
<1> USE DEF IInv
<1>1. CASE OnNewClientFd
  <2>1. TypeOK'
    BY <1>1 DEF TypeOK, OnNewClientFd, clientVars, epollVars, batchVars
  <2> QED
    BY <2>1, <1>1 DEF OnNewClientFd, clientVars, epollVars, batchVars,
      SlotsAgree, OffsetsInside, WakeupPending, Unread, Closing, Writable, InFlight
<1>2. CASE GreedyReadData
  <2> DEFINE b == buf \o [k \in 1..ReadLen |-> taken + k]
  <2>1. /\ ReadLen \in Nat /\ ReadLen <= BUF_SIZE - Len(buf)
        /\ ReadLen <= sent - taken
    BY <1>2, SizesAssumption DEF TypeOK, GreedyReadData, ReadLen
  <2>2. b \in Seq(Nat) /\ Len(b) <= BUF_SIZE
    <3>1. [k \in 1..ReadLen |-> taken + k] \in Seq(Nat)
      BY <2>1 DEF TypeOK
    <3>2. Len([k \in 1..ReadLen |-> taken + k]) = ReadLen
      BY <2>1
    <3> QED BY <2>1, <3>1, <3>2, SizesAssumption DEF TypeOK
  <2>3. taken' \in Nat /\ taken' <= sent
    BY <1>2, <2>1 DEF TypeOK, GreedyReadData
  <2>4. CASE Len(b) >= BUF_SIZE
    <3>1. DriveReading(b)
      BY <1>2, <2>4 DEF GreedyReadData
    <3>2. BufferTypeOK' /\ pc' = "write" /\ ~keep' /\ leftLen' = 0 /\ processed' = 0
      BY <2>2, <2>4, <3>1, DriveReadingType DEF DriveReading, IsFull
    <3>3. TypeOK'
      BY <1>2, <2>3, <3>2 DEF TypeOK, BufferTypeOK, GreedyReadData, clientVars, epollVars
    <3> QED
      BY <1>2, <3>2, <3>3 DEF GreedyReadData, InGreedyRead, clientVars, epollVars, TypeOK,
        SlotsAgree, OffsetsInside, WakeupPending, Unread, Closing, Writable, InFlight
  <2>5. CASE ~(Len(b) >= BUF_SIZE)
    <3>1. buf' = b /\ UNCHANGED <<pc, batchVars, replies>>
      BY <1>2, <2>5 DEF GreedyReadData
    <3>2. TypeOK'
      <4> DEFINE c == b
      <4>1. buf' = c /\ c \in Seq(Nat) /\ Len(c) <= BUF_SIZE
        BY <2>2, <3>1
      <4> HIDE DEF c
      <4>2. UNCHANGED <<clientVars, wire, epollVars, slot, eofSeen, pc, batchVars, replies>>
        BY <1>2, <3>1 DEF GreedyReadData
      <4>3. buf' \in Seq(Nat) /\ Len(buf') <= BUF_SIZE
        BY <4>1
      <4> HIDE DEF IInv
      <4>4. TypeOK
        BY DEF IInv
      <4> QED BY <2>3, <4>2, <4>3, <4>4 DEF TypeOK, clientVars, epollVars, batchVars
    <3> QED
      BY <1>2, <3>1, <3>2 DEF GreedyReadData, InGreedyRead, clientVars, epollVars, batchVars,
        SlotsAgree, OffsetsInside, WakeupPending, Unread, Closing, Writable, InFlight
  <2> QED BY <2>4, <2>5
<1>3. CASE GreedyReadDrained
  <2>1. /\ BufferTypeOK' /\ pc' \in {"parse", "write"}
        /\ processed' = 0 /\ leftLen' = 0
    BY <1>3, DriveReadingType DEF TypeOK, GreedyReadDrained
  <2>2. TypeOK' /\ ~Unread'
    BY <1>3, <2>1 DEF TypeOK, BufferTypeOK, GreedyReadDrained, clientVars, epollVars, Unread
  <2> QED
    BY <1>3, <2>1, <2>2 DEF GreedyReadDrained, InGreedyRead, clientVars, epollVars, TypeOK,
      SlotsAgree, OffsetsInside, WakeupPending, Writable, InFlight
<1>4. CASE GreedyReadWouldBlock
  <2>1. TypeOK' /\ ~Unread'
    BY <1>4 DEF TypeOK, GreedyReadWouldBlock, clientVars, epollVars, batchVars, Unread
  <2> QED
    BY <1>4, <2>1 DEF GreedyReadWouldBlock, InGreedyRead, clientVars, epollVars, batchVars,
      SlotsAgree, OffsetsInside, WakeupPending, Writable, InFlight
<1>5. CASE GreedyReadClosed
  BY <1>5, ShutdownInv DEF GreedyReadClosed
<1> QED BY <1>1, <1>2, <1>3, <1>4, <1>5 DEF Read

(* A step of the parse loop leaves the descriptor as it is; it ends in     *)
(* start_write or in the registration for reading.                         *)
LEMMA EndParseInv ==
  ASSUME IInv, pc = "parse", ParseFrame,
         NEW off \in Nat, off <= Len(buf),
         NEW rs \in Seq(Nat), Len(rs) <= MAX_PIPELINED_RESPONSES,
         NEW ka \in BOOLEAN, EndParse(off, rs, ka), replies' \in Seq(Nat)
  PROVE  IInv'
<1>1. /\ BufferTypeOK'
      /\ \/ pc' = "write" /\ processed' + leftLen' = Len(buf')
         \/ pc' = "armIn"
  BY EndParseType DEF IInv
<1>2. TypeOK'
  BY <1>1 DEF IInv, TypeOK, BufferTypeOK, ParseFrame, clientVars, epollVars
<1>3. UNCHANGED <<sent, fin, rst, acked, taken, wire, interest, ready, slot, eofSeen>>
  BY DEF ParseFrame, clientVars, epollVars
<1>4. SlotsAgree'
  BY <1>1, <1>3 DEF IInv, SlotsAgree
<1>5. OffsetsInside'
  <2>1. slot' # "writing"
    BY <1>3 DEF IInv, SlotsAgree, TypeOK
  <2>2. Len(buf') \in Nat
    BY <1>2 DEF TypeOK
  <2> QED BY <1>1, <2>1, <2>2 DEF OffsetsInside
<1>6. WakeupPending'
  BY <1>1, <1>3 DEF IInv, WakeupPending, Unread, Closing
<1> QED BY <1>2, <1>4, <1>5, <1>6 DEF IInv

LEMMA ParseInv == IInv /\ Parse => IInv'
<1> SUFFICES ASSUME IInv, Parse PROVE IInv'
  OBVIOUS
<1>0. pc = "parse"
  BY DEF Parse, ProcessRespond, ProcessRespondOverflow, ProcessReject, ProcessNeedMore,
    ProcessedAll, Parsing
<1>1. /\ pc = "parse" /\ processed \in Nat /\ processed <= Len(buf)
      /\ buf \in Seq(Nat) /\ batch \in Seq(Nat) /\ replies \in Seq(Nat)
      /\ Len(batch) <= MAX_PIPELINED_RESPONSES /\ keep \in BOOLEAN
  BY <1>0 DEF IInv, TypeOK, OffsetsInside
<1>2. ASSUME Parsing("respond")
      PROVE  LET res == ParseResult(Unprocessed) IN
             /\ res.consumed \in Nat /\ processed + res.consumed <= Len(buf)
             /\ res.request \in Nat /\ res.keep \in BOOLEAN
  <2>1. Unprocessed \in Seq(Nat) /\ Len(Unprocessed) = Len(buf) - processed
    BY SMTT(30), <1>1, <1>2, SubSeqOfNat DEF Unprocessed, Parsing
  <2>2. Unprocessed # << >>
    BY <1>1, <1>2, <2>1 DEF Parsing
  <2>3. DOMAIN stream \subseteq Nat
    <3>1. stream \in Seq(Request)
      BY StreamsAssumption DEF IInv, TypeOK
    <3> QED BY <3>1
  <2>4. ParseResult(Unprocessed).step = "respond"
    BY <1>2 DEF Parsing
  <2>5. /\ ParseResult(Unprocessed).consumed \in 1..Len(Unprocessed)
        /\ ParseResult(Unprocessed).request \in DOMAIN stream
        /\ ParseResult(Unprocessed).keep \in BOOLEAN
    BY <2>1, <2>2, <2>4, ParseResultType DEF IInv
  <2> DEFINE res == ParseResult(Unprocessed)
             c == res.consumed
  <2>6. c \in 1..(Len(buf) - processed) /\ Len(buf) \in Nat
    BY <1>1, <2>1, <2>5
  <2>7. c \in Nat /\ processed + c <= Len(buf)
    <3> HIDE DEF c
    <3> QED BY <1>1, <2>6
  <2>8. res.request \in Nat
    BY <2>3, <2>5
  <2> QED BY <2>5, <2>7, <2>8
<1>3. Append(batch, Bad) \in Seq(Nat) /\ Append(replies, Bad) \in Seq(Nat)
      /\ Len(Append(batch, Bad)) = Len(batch) + 1
  BY <1>1 DEF Bad
<1>4. CASE ProcessRespond
  <2> DEFINE res == ParseResult(Unprocessed)
  <2>1. /\ res.consumed \in Nat /\ processed + res.consumed <= Len(buf)
        /\ res.request \in Nat /\ res.keep \in BOOLEAN
    BY <1>2, <1>4 DEF ProcessRespond
  <2> HIDE DEF res
  <2>2. /\ processed' = processed + res.consumed
        /\ batch' = Append(batch, res.request)
        /\ replies' = Append(replies, res.request)
        /\ keep' = (keep /\ res.keep)
        /\ Len(batch) < MAX_PIPELINED_RESPONSES
        /\ UNCHANGED <<pc, buf, leftLen, written>> /\ ParseFrame
    BY <1>4 DEF ProcessRespond, KeepAlive, res
  <2>3. /\ batch' \in Seq(Nat) /\ Len(batch') <= MAX_PIPELINED_RESPONSES
        /\ replies' \in Seq(Nat) /\ processed' \in Nat /\ keep' \in BOOLEAN
    BY <1>1, <2>1, <2>2, SizesAssumption
  <2>4. TypeOK'
    BY <2>2, <2>3 DEF IInv, TypeOK, ParseFrame, clientVars, epollVars
  <2> QED
    BY <1>1, <2>1, <2>2, <2>4 DEF IInv, TypeOK, ParseFrame, clientVars, epollVars,
      SlotsAgree, OffsetsInside, WakeupPending, Unread, Closing, Writable, InFlight
<1>5. CASE ProcessRespondOverflow
  <2>1. processed + ParseResult(Unprocessed).consumed \in Nat
        /\ processed + ParseResult(Unprocessed).consumed <= Len(buf)
    BY <1>1, <1>2, <1>5 DEF ProcessRespondOverflow
  <2> QED BY <1>1, <1>5, <2>1, EndParseInv DEF ProcessRespondOverflow
<1>6. CASE ProcessReject
  <2>1. /\ ParseFrame /\ Len(buf) \in Nat /\ Len(buf) <= Len(buf)
        /\ FALSE \in BOOLEAN
    BY <1>1, <1>6 DEF ProcessReject
  <2>2. ASSUME Len(batch) < MAX_PIPELINED_RESPONSES, replies' = Append(replies, Bad),
               EndParse(Len(buf), Append(batch, Bad), FALSE)
        PROVE  IInv'
    <3>1. Len(Append(batch, Bad)) <= MAX_PIPELINED_RESPONSES
      BY <1>1, <1>3, <2>2, SizesAssumption
    <3>2. replies' \in Seq(Nat)
      BY <1>3, <2>2
    <3> QED BY <1>1, <1>3, <2>1, <2>2, <3>1, <3>2, EndParseInv
  <2>3. ASSUME UNCHANGED replies, EndParse(Len(buf), batch, FALSE)
        PROVE  IInv'
    <3>1. replies' \in Seq(Nat)
      BY <1>1, <2>3
    <3> QED BY <1>1, <2>1, <2>3, <3>1, EndParseInv
  <2> QED BY <1>6, <2>2, <2>3 DEF ProcessReject
<1>7. CASE ProcessNeedMore
  BY <1>1, <1>7, EndParseInv DEF ProcessNeedMore
<1>8. CASE ProcessedAll
  BY <1>1, <1>8, EndParseInv DEF ProcessedAll
<1> QED BY <1>4, <1>5, <1>6, <1>7, <1>8 DEF Parse

LEMMA ConcatType ==
  ASSUME NEW T, NEW a \in Seq(T), NEW b \in Seq(T)
  PROVE  a \o b \in Seq(T) /\ Len(a \o b) = Len(a) + Len(b)
OBVIOUS

(* What writev puts on the wire keeps its type.                            *)
LEMMA WireType ==
  ASSUME TypeOK, NEW n \in Nat, n <= BatchBytes - written, BatchBytes \in Nat
  PROVE  /\ wire \o [k \in 1..n |-> BatchByte(written + k)] \in Seq(Nat \X Nat)
         /\ Len(wire \o [k \in 1..n |-> BatchByte(written + k)]) = Len(wire) + n
<1> DEFINE w == [k \in 1..n |-> BatchByte(written + k)]
<1>1. \A k \in 1..n : BatchByte(written + k) \in Nat \X Nat
  <2> TAKE k \in 1..n
  <2> DEFINE j == written + k
  <2>1. j \in 1..(Len(batch) * ResponseLen)
    BY SizesAssumption DEF TypeOK, BatchBytes
  <2>2. /\ ((j - 1) \div ResponseLen) + 1 \in 1..Len(batch)
        /\ ((j - 1) % ResponseLen) + 1 \in 1..ResponseLen
    <3>1. Len(batch) \in Nat /\ ResponseLen \in Nat \ {0}
      BY SizesAssumption DEF TypeOK
    <3> HIDE DEF j
    <3> QED BY <2>1, <3>1, ByteInBatch
  <2>3. batch[((j - 1) \div ResponseLen) + 1] \in Nat
    BY <2>2 DEF TypeOK
  <2>4. ((j - 1) % ResponseLen) + 1 \in Nat
    BY <2>2, SizesAssumption
  <2> QED BY <2>3, <2>4 DEF BatchByte
<1>2. w \in Seq(Nat \X Nat) /\ Len(w) = n
  BY <1>1
<1> HIDE DEF w
<1>3. wire \o w \in Seq(Nat \X Nat) /\ Len(wire \o w) = Len(wire) + n
  <2>1. wire \in Seq(Nat \X Nat)
    BY DEF TypeOK
  <2> QED BY <1>2, <2>1, ConcatType
<1> QED BY <1>3 DEF w

LEMMA WriteInv == IInv /\ Write => IInv'
<1> SUFFICES ASSUME IInv, Write PROVE IInv'
  OBVIOUS
<1>1. CASE Writev
  <2>1. PICK n \in 1..SendBuffer : WritevSome(n)
    BY <1>1 DEF Writev
  <2>2. BatchBytes \in Nat
    <3>1. Len(batch) \in Nat /\ ResponseLen \in Nat
      BY SizesAssumption DEF IInv, TypeOK
    <3> QED BY <3>1 DEF BatchBytes
  <2>3. n \in Nat /\ n <= BatchBytes - written /\ pc = "write"
    BY <2>1, SizesAssumption DEF WritevSome
  <2>4. wire' \in Seq(Nat \X Nat) /\ Len(wire') = Len(wire) + n
    BY <2>1, <2>2, <2>3, WireType DEF WritevSome, IInv
  <2>5. acked' <= Len(wire') /\ UNCHANGED <<clientVars, taken, eofSeen>>
    BY <2>1, <2>3, <2>4 DEF WritevSome, clientVars, IInv, TypeOK
  <2>6. slot = "none" /\ UNCHANGED slot
    <3>1. UNCHANGED slot
      BY <2>1 DEF WritevSome
    <3> QED BY <2>3, <3>1 DEF IInv, SlotsAgree
  <2>7. CASE written + n < BatchBytes
    <3>1. /\ written' = written + n
          /\ UNCHANGED <<pc, slot, buf, processed, leftLen, batch, keep, replies, epollVars>>
      BY <2>1, <2>7 DEF WritevSome
    <3>2. TypeOK'
      BY <2>3, <2>4, <2>5, <3>1 DEF IInv, TypeOK, clientVars, epollVars
    <3> QED
      BY <2>3, <2>5, <2>6, <3>1, <3>2 DEF IInv, clientVars, epollVars,
        SlotsAgree, OffsetsInside, WakeupPending, Unread, Closing
  <2>8. CASE ~(written + n < BatchBytes) /\ leftLen > 0
    <3>1. DriveReading(Leftover) /\ UNCHANGED epollVars
      BY <2>1, <2>8 DEF WritevSome
    <3>2. /\ processed \in Nat /\ leftLen \in Nat /\ buf \in Seq(Nat)
          /\ processed + leftLen <= Len(buf) /\ Len(buf) <= BUF_SIZE
      BY <2>3 DEF IInv, TypeOK, OffsetsInside
    <3>3. Leftover \in Seq(Nat) /\ Len(Leftover) <= BUF_SIZE
      BY <3>2, SubSeqOfNat, SizesAssumption DEF Leftover
    <3>4. /\ BufferTypeOK' /\ pc' \in {"parse", "write"}
          /\ processed' = 0 /\ leftLen' = 0 /\ (pc' = "write" => ~keep')
      BY <3>1, <3>3, DriveReadingType DEF IInv
    <3>5. TypeOK'
      BY <2>4, <2>5, <2>6, <3>1, <3>4 DEF IInv, TypeOK, BufferTypeOK, clientVars, epollVars
    <3>6. ready' \/ ~(interest' = "in" /\ Unread')
      BY <2>3, <2>5, <2>8, <3>1 DEF IInv, WakeupPending, Unread, Closing, clientVars,
        epollVars
    <3> QED
      BY <2>5, <2>6, <3>1, <3>4, <3>5, <3>6 DEF IInv, TypeOK, clientVars, epollVars,
        SlotsAgree, OffsetsInside, WakeupPending, Unread, Closing
  <2>9. CASE ~(written + n < BatchBytes) /\ ~(leftLen > 0) /\ keep
    <3>1. pc' = "armIn" /\ buf' = << >> /\ UNCHANGED <<slot, batchVars, replies, epollVars>>
      BY <2>1, <2>9 DEF WritevSome
    <3>2. buf' \in Seq(Nat) /\ Len(buf') = 0
      BY <3>1, EmptySeq
    <3>3. Len(buf') <= BUF_SIZE
      BY <3>2, SizesAssumption
    <3>4. TypeOK'
      BY <2>4, <2>5, <3>1, <3>2, <3>3 DEF IInv, TypeOK, clientVars, epollVars, batchVars
    <3>5. ready' \/ ~(interest' = "in" /\ Unread')
      BY <2>3, <2>5, <2>9, <3>1 DEF IInv, WakeupPending, Unread, Closing, clientVars,
        epollVars
    <3> QED
      BY <2>5, <2>6, <3>1, <3>4, <3>5 DEF IInv, clientVars, epollVars,
        SlotsAgree, OffsetsInside, WakeupPending, Unread
  <2>10. CASE ~(written + n < BatchBytes) /\ ~(leftLen > 0) /\ ~keep
    <3>1. /\ interest' = "none" /\ ready' = FALSE /\ pc' = "closed" /\ buf' = << >>
          /\ UNCHANGED <<slot, batchVars, replies>>
      BY <2>1, <2>10 DEF WritevSome
    <3>2. buf' \in Seq(Nat) /\ Len(buf') = 0
      BY <3>1, EmptySeq
    <3>3. Len(buf') <= BUF_SIZE
      BY <3>2, SizesAssumption
    <3>4. TypeOK'
      BY <2>4, <2>5, <3>1, <3>2, <3>3 DEF IInv, TypeOK, clientVars, batchVars
    <3> QED
      BY <2>6, <3>1, <3>4 DEF IInv, SlotsAgree, OffsetsInside, WakeupPending
  <2> QED BY <2>7, <2>8, <2>9, <2>10
<1>2. CASE WritevWouldBlock
  <2>1. TypeOK'
    BY <1>2 DEF IInv, TypeOK, WritevWouldBlock, clientVars, epollVars, batchVars
  <2> QED
    BY <1>2, <2>1 DEF IInv, WritevWouldBlock, clientVars, epollVars, batchVars,
      SlotsAgree, OffsetsInside, WakeupPending, Unread, Closing, Writable, InFlight
<1>3. CASE WritevError
  BY <1>3, ShutdownInv DEF WritevError
<1> QED BY <1>1, <1>2, <1>3 DEF Write

LEMMA ArmInv == IInv /\ Arm => IInv'
<1> SUFFICES ASSUME IInv, Arm PROVE IInv'
  OBVIOUS
<1>1. CASE ArmIn
  <2>1. TypeOK'
    BY <1>1 DEF IInv, TypeOK, ArmIn, ConnArmEpoll, Reports, Readable, clientVars, epollVars,
      batchVars
  <2>2. CASE interest = "in"
    BY <1>1, <2>1, <2>2 DEF IInv, ArmIn, ConnArmEpoll, clientVars, epollVars, batchVars,
      SlotsAgree, OffsetsInside, WakeupPending, Unread, Closing
  <2>3. CASE interest # "in"
    BY <1>1, <2>1, <2>3 DEF IInv, ArmIn, ConnArmEpoll, Reports, Readable, clientVars,
      epollVars, batchVars, SlotsAgree, OffsetsInside, WakeupPending, Unread, Closing
  <2> QED BY <2>2, <2>3
<1>2. CASE ArmOut
  <2>1. TypeOK'
    BY <1>2 DEF IInv, TypeOK, ArmOut, ConnArmEpoll, Reports, Writable, InFlight, clientVars,
      epollVars, batchVars
  <2>2. CASE interest = "out"
    BY <1>2, <2>1, <2>2 DEF IInv, ArmOut, ConnArmEpoll, clientVars, epollVars, batchVars,
      SlotsAgree, OffsetsInside, WakeupPending, Unread, Closing, Writable, InFlight
  <2>3. CASE interest # "out"
    BY <1>2, <2>1, <2>3 DEF IInv, ArmOut, ConnArmEpoll, Reports, clientVars, epollVars,
      batchVars, SlotsAgree, OffsetsInside, WakeupPending, Unread, Closing, Writable, InFlight
  <2> QED BY <2>2, <2>3
<1> QED BY <1>1, <1>2 DEF Arm

LEMMA EventInv == IInv /\ Event => IInv'
<1> SUFFICES ASSUME IInv, Event PROVE IInv'
  OBVIOUS
<1>1. CASE EventHup
  BY <1>1, ShutdownInv DEF EventHup
<1>2. CASE EventIn
  <2>1. TypeOK'
    BY <1>2 DEF IInv, TypeOK, EventIn, clientVars, batchVars
  <2>2. slot = "reading"
    BY <1>2 DEF IInv, TypeOK, SlotsAgree, EventIn, Fetch
  <2> QED
    BY <1>2, <2>1, <2>2 DEF IInv, EventIn, Fetch, clientVars, batchVars,
      SlotsAgree, OffsetsInside, WakeupPending
<1>3. CASE EventOut
  <2>1. TypeOK'
    BY <1>3 DEF IInv, TypeOK, EventOut, clientVars, batchVars
  <2>2. slot = "writing"
    BY <1>3 DEF IInv, TypeOK, SlotsAgree, EventOut, Fetch
  <2> QED
    BY <1>3, <2>1, <2>2 DEF IInv, EventOut, Fetch, clientVars, batchVars,
      SlotsAgree, OffsetsInside, WakeupPending
<1>4. CASE EventGone
  <2>1. TypeOK'
    BY ZenonT(30), <1>4 DEF IInv, TypeOK, EventGone, clientVars, batchVars
  <2>2. /\ UNCHANGED <<sent, fin, rst, acked, taken, wire, interest, slot, pc,
                       processed, leftLen, buf, eofSeen>>
        /\ ~Reports(interest) /\ pc = "wait"
    BY <1>4 DEF EventGone, Fetch, clientVars, batchVars
  <2>3. SlotsAgree' /\ OffsetsInside'
    BY <2>2 DEF IInv, SlotsAgree, OffsetsInside
  <2>4. WakeupPending'
    BY <2>2 DEF WakeupPending, Reports, Readable, Unread, Writable, InFlight
  <2> QED BY <2>1, <2>3, <2>4 DEF IInv
<1> QED BY <1>1, <1>2, <1>3, <1>4 DEF Event

LEMMA ClientInv == IInv /\ Client => IInv'
<1> SUFFICES ASSUME IInv, Client PROVE IInv'
  OBVIOUS
<1> USE DEF ServerVars, batchVars, IInv
<1>1. CASE ClientSend
  <2>1. PICK n \in 1..(Total - sent) : sent' = sent + n
    BY <1>1 DEF ClientSend
  <2>2. sent' \in Nat /\ taken' <= sent'
    BY <1>1, <2>1 DEF TypeOK, ClientSend
  <2>3. TypeOK'
    BY <1>1, <2>2 DEF TypeOK, ClientSend
  <2> QED
    BY <1>1, <2>3 DEF ClientSend, SlotsAgree, OffsetsInside, WakeupPending, Unread, Closing,
      Writable, InFlight
<1>2. CASE ClientShutdown
  <2>1. TypeOK'
    BY <1>2 DEF TypeOK, ClientShutdown
  <2> QED
    BY <1>2, <2>1 DEF ClientShutdown, SlotsAgree, OffsetsInside, WakeupPending, Unread,
      Closing, Writable, InFlight
<1>3. CASE ClientReset
  <2>1. TypeOK'
    BY <1>3 DEF TypeOK, ClientReset
  <2> QED
    BY <1>3, <2>1 DEF ClientReset, SlotsAgree, OffsetsInside, WakeupPending, Unread,
      Closing, Writable, InFlight
<1>4. CASE ClientReceive
  <2>1. acked' \in Nat /\ acked' <= Len(wire')
    BY <1>4 DEF TypeOK, ClientReceive, InFlight
  <2>2. TypeOK'
    BY <1>4, <2>1 DEF TypeOK, ClientReceive
  <2> QED
    BY <1>4, <2>2 DEF ClientReceive, SlotsAgree, OffsetsInside, WakeupPending, Unread,
      Closing, Writable, InFlight
<1> QED BY <1>1, <1>2, <1>3, <1>4 DEF Client

LEMMA StutterInv == IInv /\ UNCHANGED vars => IInv'
BY DEF IInv, vars, clientVars, epollVars, batchVars, TypeOK, SlotsAgree, OffsetsInside,
  WakeupPending, Unread, Closing, Writable, InFlight

(* Types, the slots in step with the bytes taken, the offsets inside the   *)
(* buffers and no wakeup lost, in every state of the connection.           *)
THEOREM InductiveInvariant == Spec => []IInv
<1>1. IInv /\ [Next]_vars => IInv'
  BY ReadInv, ParseInv, WriteInv, ArmInv, EventInv, ClientInv, StutterInv DEF Next, Server
<1> QED BY InitInv, <1>1, PTL DEF Spec

(* Every variable stays in its type: no read overruns the buffer, no batch *)
(* its array, whatever the client sends and when.                          *)
THEOREM TypeCorrect == Spec => []TypeOK
<1>1. IInv => TypeOK
  BY DEF IInv
<1> QED BY InductiveInvariant, <1>1, PTL

(* The event loop never waits on a connection that has something to do     *)
(* unless epoll is about to report it.                                     *)
THEOREM WakeupsNotLost == Spec => []NoLostWakeup
<1>1. IInv => NoLostWakeup
  BY DEF IInv, TypeOK, SlotsAgree, WakeupPending, NoLostWakeup, Unread, Closing
<1> QED BY InductiveInvariant, <1>1, PTL
-----------------------------------------------------------------------------
(* Replies and the wire.                                                   *)

Writing == pc \in {"write", "armOut"} \/ slot = "writing"

(* Nothing in the buffer is waiting to be parsed or to be written.         *)
Reading == pc \in {"handed", "new", "read", "armIn"} \/ slot = "reading"

(* The batch is the last of the replies.                                   *)
BatchIsTail ==
  pc = "parse" \/ Writing =>
    /\ Len(batch) <= Len(replies)
    /\ \A i \in 1..Len(batch) : batch[i] = replies[Len(replies) - Len(batch) + i]

(* What is on the wire: all replies but the batch, and what is written of  *)
(* the batch.                                                              *)
WireReaches ==
  /\ Reading => Len(wire) = Len(replies) * ResponseLen
  /\ pc = "parse" => Len(wire) = (Len(replies) - Len(batch)) * ResponseLen
  /\ Writing => /\ Len(wire) = (Len(replies) - Len(batch)) * ResponseLen + written
                /\ written < Len(batch) * ResponseLen

(* The connection is closed, or will be when the batch is written.         *)
Final == pc = "closed" \/ (Writing /\ ~keep /\ leftLen = 0)

RejectEnds == \A m \in DOMAIN replies : replies[m] = Bad => m = Len(replies) /\ Final

ReplyInv == BatchIsTail /\ WireReaches /\ WireFollowsReplies /\ RejectEnds

(* Division by the length of a response.                                   *)
LEMMA Quotient ==
  ASSUME NEW L \in Nat \ {0}, NEW a \in Nat, NEW q \in Int, NEW r \in 0..(L - 1), a = L * q + r
  PROVE  a \div L = q /\ a % L = r
<1> DEFINE q0 == a \div L
           r0 == a % L
<1>1. a = L * q0 + r0 /\ r0 \in 0..(L - 1) /\ q0 \in Int
  BY SMT
<1> HIDE DEF q0, r0
<1>2. ~(q0 < q)
  <2>1. SUFFICES ASSUME q0 + 1 <= q PROVE FALSE
    BY <1>1
  <2>2. L * (q0 + 1) <= L * q /\ L * (q0 + 1) = L * q0 + L
    BY <1>1, <2>1, SMT
  <2>3. L * q0 \in Int /\ L * q \in Int
    BY <1>1
  <2> QED BY <1>1, <2>2, <2>3
<1>3. ~(q < q0)
  <2>1. SUFFICES ASSUME q + 1 <= q0 PROVE FALSE
    BY <1>1
  <2>2. L * (q + 1) <= L * q0 /\ L * (q + 1) = L * q + L
    BY <1>1, <2>1, SMT
  <2>3. L * q0 \in Int /\ L * q \in Int
    BY <1>1
  <2> QED BY <1>1, <2>2, <2>3
<1>4. q0 = q
  BY <1>1, <1>2, <1>3
<1>5. r0 = r
  <2>1. L * q \in Int
    OBVIOUS
  <2> QED BY <1>1, <1>4, <2>1
<1> QED BY <1>4, <1>5 DEF q0, r0

LEMMA QuotientShift ==
  ASSUME NEW L \in Nat \ {0}, NEW d \in Nat, NEW x \in Nat
  PROVE  (d * L + x) \div L = d + x \div L /\ (d * L + x) % L = x % L
<1> DEFINE q == x \div L
           r == x % L
<1>1. x = L * q + r /\ r \in 0..(L - 1) /\ q \in Int
  BY SMT
<1> HIDE DEF q, r
<1>2. d * L \in Nat
  BY SMT
<1>3. d * L + x = L * (d + q) + r
  <2>1. L * (d + q) = d * L + L * q
    BY <1>1, SMT
  <2>2. L * q \in Int
    BY <1>1
  <2> QED BY <1>1, <1>2, <2>1, <2>2
<1>4. d * L + x \in Nat /\ d + q \in Int
  BY <1>1, <1>2
<1>5. (d * L + x) \div L = d + q /\ (d * L + x) % L = r
  BY <1>1, <1>3, <1>4, Quotient
<1> QED BY <1>5 DEF q, r

Follows(w, rs) ==
  /\ Len(w) <= Len(rs) * ResponseLen
  /\ \A k \in 1..Len(w) :
       w[k] = <<rs[((k - 1) \div ResponseLen) + 1], ((k - 1) % ResponseLen) + 1>>

LEMMA FollowsMore ==
  ASSUME NEW w, Len(w) \in Nat, NEW rs \in Seq(Nat), NEW r \in Nat, Follows(w, rs)
  PROVE  Follows(w, Append(rs, r))
<1>1. Len(Append(rs, r)) = Len(rs) + 1 /\ Len(rs) \in Nat /\ ResponseLen \in Nat \ {0}
  BY SizesAssumption
<1>2. Len(rs) * ResponseLen <= (Len(rs) + 1) * ResponseLen
  <2> DEFINE n == Len(rs)
  <2> HIDE DEF n
  <2>1. n \in Nat
    BY <1>1 DEF n
  <2>2. (n + 1) * ResponseLen = n * ResponseLen + ResponseLen /\ n * ResponseLen \in Nat
    BY <1>1, <2>1, SMT
  <2> QED BY <1>1, <2>1, <2>2 DEF n
<1>3. \A k \in 1..Len(w) : ((k - 1) \div ResponseLen) + 1 \in 1..Len(rs)
  <2> TAKE k \in 1..Len(w)
  <2>1. k \in 1..(Len(rs) * ResponseLen)
    BY <1>1 DEF Follows
  <2> QED BY <1>1, <2>1, ByteInBatch
<1>4. \A i \in 1..Len(rs) : Append(rs, r)[i] = rs[i]
  OBVIOUS
<1>5. Len(w) <= Len(Append(rs, r)) * ResponseLen
  BY <1>1, <1>2 DEF Follows
<1> QED BY <1>3, <1>4, <1>5 DEF Follows

(* Steps that move the connection along without a response.                *)
LEMMA RepliesUnmoved ==
  ASSUME ReplyInv, UNCHANGED <<wire, replies, batch, written, keep, leftLen>>,
         Reading' <=> Reading, Writing' <=> Writing, pc' = "parse" <=> pc = "parse",
         pc' = "closed" <=> pc = "closed"
  PROVE  ReplyInv'
<1>1. BatchIsTail' /\ WireReaches' /\ WireFollowsReplies'
  BY DEF ReplyInv, BatchIsTail, WireReaches, WireFollowsReplies
<1>2. Final' <=> Final
  BY DEF Final
<1> QED BY <1>1, <1>2 DEF ReplyInv, RejectEnds

LEMMA RepliesClosed ==
  ASSUME IInv', pc' = "closed", UNCHANGED replies, Follows(wire', replies),
         \A m \in DOMAIN replies : replies[m] = Bad => m = Len(replies)
  PROVE  ReplyInv'
<1>1. ~Reading' /\ ~Writing' /\ pc' # "parse" /\ Final'
  BY DEF Reading, Writing, Final, IInv, SlotsAgree, TypeOK
<1> QED BY <1>1 DEF ReplyInv, BatchIsTail, WireReaches, WireFollowsReplies, RejectEnds, Follows

LEMMA NoneRejected ==
  ASSUME ReplyInv, ~Final
  PROVE  \A m \in DOMAIN replies : replies[m] # Bad
BY DEF ReplyInv, RejectEnds

LEMMA Pushed ==
  ASSUME NEW rs \in Seq(Nat), NEW r \in Nat
  PROVE  /\ Append(rs, r) \in Seq(Nat) /\ Len(Append(rs, r)) = Len(rs) + 1
         /\ Append(rs, r)[Len(rs) + 1] = r
         /\ \A i \in 1..Len(rs) : Append(rs, r)[i] = rs[i]
  OBVIOUS

LEMMA DriveReadingReplies ==
  ASSUME IInv, IInv', NEW b, DriveReading(b), slot' = "none",
         Len(wire') = Len(replies) * ResponseLen, Follows(wire', replies),
         \A m \in DOMAIN replies : replies[m] # Bad
  PROVE  ReplyInv'
<1>0. /\ replies \in Seq(Nat) /\ Len(replies) \in Nat /\ ResponseLen \in Nat \ {0}
      /\ Len(wire') \in Nat
  BY SizesAssumption DEF IInv, TypeOK
<1>1. CASE IsFull(b)
  <2>1. /\ pc' = "write" /\ batch' = <<Bad>> /\ keep' = FALSE /\ leftLen' = 0 /\ written' = 0
        /\ replies' = Append(replies, Bad)
    BY <1>1 DEF DriveReading
  <2>2. ~Reading' /\ Writing' /\ Final'
    BY <2>1 DEF Reading, Writing, Final
  <2>3. /\ Len(replies') = Len(replies) + 1 /\ replies'[Len(replies) + 1] = Bad
        /\ \A i \in 1..Len(replies) : replies'[i] = replies[i]
    BY <1>0, <2>1, Pushed DEF Bad
  <2>4. Follows(wire', replies')
    BY <1>0, <2>1, FollowsMore DEF Bad
  <2>5. Len(batch') = 1 /\ batch'[1] = Bad
    BY <2>1
  <2>6. BatchIsTail'
    BY <1>0, <2>3, <2>5 DEF BatchIsTail
  <2>7. WireReaches'
    <3>1. Len(replies') - Len(batch') = Len(replies) /\ Len(batch') * ResponseLen = ResponseLen
      BY <1>0, <2>3, <2>5
    <3>2. (Len(replies') - Len(batch')) * ResponseLen = Len(wire')
      BY <3>1
    <3> QED BY <1>0, <2>1, <2>2, <3>1, <3>2 DEF WireReaches
  <2>8. RejectEnds'
    <3>1. DOMAIN replies = 1..Len(replies) /\ DOMAIN replies' = 1..(Len(replies) + 1)
      BY <1>0, <2>1
    <3> QED BY <1>0, <2>2, <2>3, <3>1 DEF RejectEnds
  <2> QED BY <2>4, <2>6, <2>7, <2>8 DEF ReplyInv, Follows, WireFollowsReplies
<1>2. CASE ~IsFull(b)
  <2>1. pc' = "parse" /\ batch' = << >> /\ UNCHANGED replies
    BY <1>2 DEF DriveReading
  <2>2. ~Reading' /\ ~Writing'
    BY <2>1 DEF Reading, Writing
  <2>3. Len(batch') = 0
    BY <2>1
  <2>4. Len(replies') - Len(batch') = Len(replies)
    BY <1>0, <2>1, <2>3
  <2> QED BY <1>0, <2>1, <2>2, <2>3, <2>4
          DEF ReplyInv, BatchIsTail, WireReaches, WireFollowsReplies, Follows, RejectEnds
<1> QED BY <1>1, <1>2

LEMMA ReadReplies ==
  ASSUME IInv, IInv', ReplyInv, Read
  PROVE  ReplyInv'
<1>0. SlotsAgree /\ SlotsAgree' /\ TypeOK
  BY DEF IInv
<1>1. CASE OnNewClientFd
  BY <1>0, <1>1, RepliesUnmoved DEF OnNewClientFd, batchVars, Reading, Writing
<1>2. CASE GreedyReadWouldBlock
  <2>1. /\ UNCHANGED <<wire, replies, batch, written, keep, leftLen>> /\ pc \in {"new", "read"}
        /\ \/ pc' = "armIn" /\ UNCHANGED slot
           \/ pc' = "wait" /\ slot' = "reading"
    BY <1>2 DEF GreedyReadWouldBlock, InGreedyRead, batchVars
  <2> QED BY <1>0, <2>1, RepliesUnmoved DEF SlotsAgree, Reading, Writing
<1>3. CASE GreedyReadClosed
  <2>1. pc' = "closed" /\ UNCHANGED <<wire, replies>>
    BY <1>3 DEF GreedyReadClosed, ShutdownClient
  <2> QED BY <2>1, RepliesClosed DEF ReplyInv, WireFollowsReplies, Follows, RejectEnds
<1>4. ASSUME NEW b, InGreedyRead, DriveReading(b), UNCHANGED <<wire, slot>> PROVE ReplyInv'
  <2>1. Reading /\ slot = "none" /\ ~Final
    BY <1>0, <1>4 DEF InGreedyRead, Reading, SlotsAgree, Final, Writing
  <2>2. \A m \in DOMAIN replies : replies[m] # Bad
    BY <2>1, NoneRejected
  <2> QED BY <1>4, <2>1, <2>2, DriveReadingReplies
          DEF ReplyInv, WireReaches, WireFollowsReplies, Follows
<1>5. CASE GreedyReadData
  <2>1. PICK b : \/ DriveReading(b)
                 \/ UNCHANGED <<pc, batchVars, replies>>
    BY <1>5 DEF GreedyReadData
  <2>2. UNCHANGED <<wire, slot>> /\ InGreedyRead
    BY <1>5 DEF GreedyReadData
  <2>3. CASE UNCHANGED <<pc, batchVars, replies>>
    BY <2>2, <2>3, RepliesUnmoved DEF batchVars, Reading, Writing
  <2> QED BY <1>4, <2>1, <2>2, <2>3
<1>6. CASE GreedyReadDrained
  BY <1>4, <1>6 DEF GreedyReadDrained
<1> QED BY <1>1, <1>2, <1>3, <1>5, <1>6 DEF Read

LEMMA EndParseReplies ==
  ASSUME IInv, NEW off, NEW rs \in Seq(Nat), NEW ka \in BOOLEAN, EndParse(off, rs, ka),
         UNCHANGED <<wire, slot>>, slot = "none", off \in Nat, off <= Len(buf),
         replies' \in Seq(Nat), Len(rs) <= Len(replies'),
         \A i \in 1..Len(rs) : rs[i] = replies'[Len(replies') - Len(rs) + i],
         Len(wire) = (Len(replies') - Len(rs)) * ResponseLen, Follows(wire, replies'),
         \A m \in DOMAIN replies' : replies'[m] = Bad =>
           m = Len(replies') /\ rs # << >> /\ ~ka /\ off = Len(buf)
  PROVE  ReplyInv'
<1>0. /\ Len(replies') \in Nat /\ Len(rs) \in Nat /\ ResponseLen \in Nat \ {0}
      /\ Len(buf) \in Nat
  BY SizesAssumption DEF IInv, TypeOK
<1>1. batch' = rs /\ keep' = ka /\ written' = 0
  BY DEF EndParse
<1>2. CASE rs # << >>
  <2>1. pc' = "write" /\ leftLen' = Len(buf) - off
    BY <1>2 DEF EndParse
  <2>2. ~Reading' /\ Writing' /\ (~ka /\ off = Len(buf) => Final')
    BY <1>0, <1>1, <2>1 DEF Reading, Writing, Final
  <2>3. Len(rs) # 0
    BY <1>2
  <2>4. 0 < Len(rs) * ResponseLen
    <3> DEFINE n == Len(rs)
    <3>1. n \in Nat \ {0}
      BY <1>0, <2>3
    <3> HIDE DEF n
    <3>2. n * ResponseLen > 0
      BY <1>0, <3>1, SMT
    <3> QED BY <3>2 DEF n
  <2>5. BatchIsTail'
    BY <1>1 DEF BatchIsTail
  <2>6. WireReaches'
    <3> DEFINE w == (Len(replies') - Len(rs)) * ResponseLen
    <3>1. w + 0 = w
      BY <1>0
    <3> QED BY <1>1, <2>1, <2>2, <2>4, <3>1 DEF WireReaches
  <2>7. RejectEnds'
    BY <2>2 DEF RejectEnds
  <2> QED BY <2>5, <2>6, <2>7 DEF ReplyInv, WireFollowsReplies, Follows
<1>3. CASE rs = << >>
  <2>1. pc' = "armIn"
    BY <1>3 DEF EndParse
  <2>2. Reading' /\ ~Writing' /\ pc' # "parse"
    BY <2>1 DEF Reading, Writing
  <2>3. Len(wire') = Len(replies') * ResponseLen
    <3>1. Len(replies') - Len(rs) = Len(replies')
      BY <1>0, <1>3
    <3> QED BY <3>1
  <2>4. RejectEnds'
    BY <1>3 DEF RejectEnds
  <2> QED BY <2>1, <2>2, <2>3, <2>4
          DEF ReplyInv, BatchIsTail, WireReaches, WireFollowsReplies, Follows
<1> QED BY <1>2, <1>3

(* A response pushed into the batch is still the last of the replies.      *)
PushedOnBoth(b, rs, r, ba, re, w) ==
  /\ b \in Seq(Nat) /\ rs \in Seq(Nat)
  /\ Len(b) = Len(ba) + 1 /\ Len(rs) = Len(re) + 1
  /\ \A i \in 1..(Len(ba) + 1) : b[i] = rs[Len(re) - Len(ba) + i]
  /\ Follows(w, rs)
  /\ \A m \in DOMAIN rs : rs[m] = Bad => m = Len(re) + 1 /\ r = Bad

LEMMA PushOnBoth ==
  ASSUME NEW ba \in Seq(Nat), NEW re \in Seq(Nat), NEW w, Len(w) \in Nat, Len(ba) <= Len(re),
         \A i \in 1..Len(ba) : ba[i] = re[Len(re) - Len(ba) + i],
         Follows(w, re), \A m \in DOMAIN re : re[m] # Bad, NEW r \in Nat
  PROVE  PushedOnBoth(Append(ba, r), Append(re, r), r, ba, re, w)
<1> DEFINE b == Append(ba, r)
           rs == Append(re, r)
<1>0. Len(ba) \in Nat /\ Len(re) \in Nat
  OBVIOUS
<1>1. /\ b \in Seq(Nat) /\ rs \in Seq(Nat)
      /\ Len(b) = Len(ba) + 1 /\ Len(rs) = Len(re) + 1
      /\ b[Len(ba) + 1] = r /\ rs[Len(re) + 1] = r
      /\ \A i \in 1..Len(ba) : b[i] = ba[i]
      /\ \A i \in 1..Len(re) : rs[i] = re[i]
  BY Pushed
<1>2. Follows(w, rs)
  BY FollowsMore
<1>3. /\ DOMAIN rs = 1..(Len(re) + 1) /\ DOMAIN re = 1..Len(re)
      /\ Len(re) \in Nat
  BY <1>0, <1>1
<1>4. ASSUME NEW i \in 1..(Len(ba) + 1) PROVE b[i] = rs[Len(re) - Len(ba) + i]
  <2>1. CASE i = Len(ba) + 1
    <3>1. Len(re) - Len(ba) + i = Len(re) + 1
      BY <1>0, <2>1
    <3> QED BY <1>1, <2>1, <3>1
  <2>2. CASE i # Len(ba) + 1
    <3>1. i \in 1..Len(ba) /\ Len(re) - Len(ba) + i \in 1..Len(re)
      BY <1>0, <2>2
    <3> QED BY <1>1, <3>1
  <2> QED BY <2>1, <2>2
<1>5. ASSUME NEW m \in DOMAIN rs, rs[m] = Bad PROVE m = Len(re) + 1 /\ r = Bad
  <2>1. \A k \in 1..Len(re) : rs[k] # Bad
    BY <1>1, <1>3
  <2>2. m = Len(re) + 1
    BY <1>3, <1>5, <2>1
  <2> QED BY <1>1, <1>5, <2>2
<1> QED BY <1>1, <1>2, <1>4, <1>5 DEF PushedOnBoth

LEMMA ParseReplies ==
  ASSUME IInv, IInv', ReplyInv, Parse
  PROVE  ReplyInv'
<1>0. /\ pc = "parse" /\ slot = "none" /\ UNCHANGED <<wire, slot>>
      /\ processed \in Nat /\ processed <= Len(buf) /\ Len(buf) \in Nat
      /\ batch \in Seq(Nat) /\ replies \in Seq(Nat) /\ keep \in BOOLEAN
      /\ buf \in Seq(Nat) /\ Len(batch) \in Nat /\ Len(replies) \in Nat /\ ResponseLen \in Nat \ {0}
      /\ Len(wire) \in Nat
  <2>1. pc = "parse" /\ ParseFrame
    BY DEF Parse, ProcessRespond, ProcessRespondOverflow, ProcessReject, ProcessNeedMore,
      ProcessedAll, Parsing
  <2>2. UNCHANGED <<wire, slot>>
    BY <2>1 DEF ParseFrame
  <2>3. slot = "none" /\ processed <= Len(buf)
    BY <2>1 DEF IInv, SlotsAgree, OffsetsInside, TypeOK
  <2>4. /\ processed \in Nat /\ batch \in Seq(Nat) /\ replies \in Seq(Nat) /\ buf \in Seq(Nat)
        /\ keep \in BOOLEAN /\ wire \in Seq(Nat \X Nat)
    BY DEF IInv, TypeOK
  <2> QED BY <2>1, <2>2, <2>3, <2>4, SizesAssumption
<1>1. /\ Len(batch) <= Len(replies)
      /\ \A i \in 1..Len(batch) : batch[i] = replies[Len(replies) - Len(batch) + i]
      /\ Len(wire) = (Len(replies) - Len(batch)) * ResponseLen /\ Follows(wire, replies)
  BY <1>0 DEF ReplyInv, BatchIsTail, WireReaches, WireFollowsReplies, Follows
<1>2. \A m \in DOMAIN replies : replies[m] # Bad
  BY <1>0, NoneRejected DEF Final, Writing
<1>3. \A r \in Nat : \A b, rs :
        b = Append(batch, r) /\ rs = Append(replies, r) => PushedOnBoth(b, rs, r, batch, replies, wire)
  BY <1>0, <1>1, <1>2, PushOnBoth
<1>4. (Len(replies) + 1) - (Len(batch) + 1) = Len(replies) - Len(batch)
  BY <1>0
<1>5. ASSUME NEW r \in Nat \ {0}, batch' = Append(batch, r), replies' = Append(replies, r),
             UNCHANGED pc
      PROVE  ReplyInv'
  <2>1. ~Reading' /\ ~Writing'
    BY <1>0, <1>5 DEF Reading, Writing
  <2>6. r \in Nat /\ batch' = Append(batch, r) /\ replies' = Append(replies, r)
    BY <1>5
  <2>7. PICK b, rs : b = batch' /\ rs = replies'
    OBVIOUS
  <2>9. PushedOnBoth(b, rs, r, batch, replies, wire)
    BY <1>3, <2>6, <2>7
  <2>8. /\ Len(b) = Len(batch) + 1 /\ Len(rs) = Len(replies) + 1
        /\ \A i \in 1..(Len(batch) + 1) : b[i] = rs[Len(replies) - Len(batch) + i]
    BY <2>9 DEF PushedOnBoth
  <2>2. Len(batch') = Len(batch) + 1 /\ Len(replies') = Len(replies) + 1
    BY <2>7, <2>8
  <2>3. BatchIsTail'
    <3>1. Len(rs) - Len(b) = Len(replies) - Len(batch)
      BY <1>4, <2>8
    <3>2. Len(b) <= Len(rs)
      <4>1. Len(batch) \in Nat /\ Len(replies) \in Nat /\ Len(batch) <= Len(replies)
        BY <1>0, <1>1
      <4> QED BY <2>8, <4>1
    <3>3. \A i \in 1..Len(b) : b[i] = rs[Len(rs) - Len(b) + i]
      BY <2>8, <3>1
    <3> QED BY <2>7, <3>2, <3>3 DEF BatchIsTail
  <2>4. WireReaches'
    <3>1. Len(replies') - Len(batch') = Len(replies) - Len(batch)
      BY <1>4, <2>2
    <3> QED BY <1>0, <1>1, <2>1, <3>1 DEF WireReaches
  <2>5. WireFollowsReplies' /\ RejectEnds'
    <3>1. \A m \in DOMAIN replies' : replies'[m] # Bad
      BY <1>5, <2>7, <2>9 DEF Bad, PushedOnBoth
    <3>2. Follows(wire', replies')
      BY <1>0, <2>7, <2>9 DEF PushedOnBoth
    <3> QED BY <3>1, <3>2 DEF WireFollowsReplies, Follows, RejectEnds
  <2> QED BY <2>3, <2>4, <2>5 DEF ReplyInv
<1>11. ASSUME Parsing("respond")
       PROVE  /\ ParseResult(Unprocessed).request \in Nat \ {0}
              /\ ParseResult(Unprocessed).consumed \in 1..(Len(buf) - processed)
  <2>1. Unprocessed \in Seq(Nat) /\ Len(Unprocessed) = Len(buf) - processed
    <3>1. buf \in Seq(Nat) /\ processed \in Nat /\ Len(buf) \in Nat /\ processed < Len(buf)
      BY <1>0, <1>11 DEF Parsing
    <3> QED BY <3>1, SubSeqOfNat DEF Unprocessed
  <2>2. Unprocessed # << >> /\ ParseResult(Unprocessed).step = "respond"
    BY <1>0, <1>11, <2>1 DEF Parsing
  <2>3. /\ ParseResult(Unprocessed).consumed \in 1..Len(Unprocessed)
        /\ ParseResult(Unprocessed).request \in DOMAIN stream
    BY <2>1, <2>2, ParseResultType DEF IInv
  <2>4. stream \in Seq(Request)
    BY StreamsAssumption DEF IInv, TypeOK
  <2>5. DOMAIN stream \subseteq Nat \ {0}
    BY <2>4
  <2> QED BY <2>1, <2>3, <2>5
<1>6. CASE ProcessRespond
  <2> DEFINE r == ParseResult(Unprocessed).request
  <2>1. batch' = Append(batch, r) /\ replies' = Append(replies, r) /\ UNCHANGED pc
    BY <1>6 DEF ProcessRespond
  <2>2. r \in Nat \ {0}
    BY <1>6, <1>11 DEF ProcessRespond
  <2> HIDE DEF r
  <2> QED BY <1>5, <2>1, <2>2
<1>7. ASSUME NEW off \in Nat, off <= Len(buf), NEW ka \in BOOLEAN, EndParse(off, batch, ka),
             UNCHANGED replies
      PROVE  ReplyInv'
  <2>1. Len(batch) <= Len(replies) /\ Len(wire) = (Len(replies) - Len(batch)) * ResponseLen
    BY <1>0, <1>1
  <2>2. UNCHANGED <<wire, slot>> /\ slot = "none"
    BY <1>0, <1>1
  <2>5. replies' = replies
    BY <1>7
  <2>3. /\ \A i \in 1..Len(batch) : batch[i] = replies'[Len(replies') - Len(batch) + i]
        /\ Len(wire) = (Len(replies') - Len(batch)) * ResponseLen /\ Len(batch) <= Len(replies')
        /\ Follows(wire, replies') /\ replies' \in Seq(Nat)
        /\ \A m \in DOMAIN replies' : replies'[m] # Bad
    <3>1. PICK re : re = replies
      OBVIOUS
    <3>2. /\ \A i \in 1..Len(batch) : batch[i] = re[Len(re) - Len(batch) + i]
          /\ Len(wire) = (Len(re) - Len(batch)) * ResponseLen /\ Len(batch) <= Len(re)
          /\ Follows(wire, re) /\ re \in Seq(Nat)
          /\ \A m \in DOMAIN re : re[m] # Bad
      BY <1>0, <1>1, <1>2, <2>1, <3>1, Zenon
    <3>3. replies' = re
      BY <2>5, <3>1
    <3> QED BY <3>2, <3>3, Zenon
  <2>4. batch \in Seq(Nat)
    BY <1>0
  <2> QED BY <1>7, <2>2, <2>3, <2>4, EndParseReplies
<1>8. CASE ProcessRespondOverflow
  <2> DEFINE off == processed + ParseResult(Unprocessed).consumed
  <2>1. EndParse(off, batch, FALSE) /\ UNCHANGED replies
    BY <1>8 DEF ProcessRespondOverflow
  <2>2. off \in Nat /\ off <= Len(buf)
    <3> DEFINE c == ParseResult(Unprocessed).consumed
    <3>1. c \in 1..(Len(buf) - processed)
      BY <1>8, <1>11 DEF ProcessRespondOverflow
    <3> HIDE DEF c
    <3>2. processed + c \in Nat /\ processed + c <= Len(buf)
      BY <1>0, <3>1
    <3> QED BY <3>2 DEF c
  <2> HIDE DEF off
  <2> QED BY <1>7, <2>1, <2>2
<1>9. CASE ProcessReject
  <2>1. CASE UNCHANGED replies /\ EndParse(Len(buf), batch, FALSE)
    <3>1. FALSE \in BOOLEAN /\ Len(buf) \in Nat /\ Len(buf) <= Len(buf)
      BY <1>0
    <3> QED BY <1>7, <2>1, <3>1
  <2>2. CASE replies' = Append(replies, Bad) /\ EndParse(Len(buf), Append(batch, Bad), FALSE)
    <3>1. Bad \in Nat
      BY DEF Bad
    <3>2. PICK rs : rs = Append(batch, Bad)
      OBVIOUS
    <3>3. /\ rs \in Seq(Nat) /\ Len(rs) = Len(batch) + 1 /\ rs # << >>
          /\ replies' \in Seq(Nat) /\ Len(replies') = Len(replies) + 1
          /\ \A i \in 1..(Len(batch) + 1) : rs[i] = replies'[Len(replies) - Len(batch) + i]
          /\ Follows(wire, replies')
          /\ \A m \in DOMAIN replies' : replies'[m] = Bad => m = Len(replies) + 1
      <4>1. PICK all : all = replies'
        OBVIOUS
      <4>2. PushedOnBoth(rs, all, Bad, batch, replies, wire)
        BY <1>3, <2>2, <3>1, <3>2, <4>1
      <4>3. rs # << >>
        BY <1>0, <4>2 DEF PushedOnBoth
      <4> QED BY <4>1, <4>2, <4>3 DEF PushedOnBoth
    <3>4. EndParse(Len(buf), rs, FALSE)
      BY <2>2, <3>2
    <3>5. /\ Len(rs) <= Len(replies') /\ Len(replies') - Len(rs) = Len(replies) - Len(batch)
          /\ \A i \in 1..Len(rs) : rs[i] = replies'[Len(replies') - Len(rs) + i]
      <4>1. Len(replies') - Len(rs) = Len(replies) - Len(batch)
        BY <1>4, <3>3
      <4>2. 1..Len(rs) = 1..(Len(batch) + 1) /\ Len(rs) <= Len(replies')
        BY <1>0, <1>1, <3>3
      <4> QED BY <3>3, <4>1, <4>2
    <3>6. Len(wire) = (Len(replies') - Len(rs)) * ResponseLen
      BY <1>1, <3>5
    <3>7. \A m \in DOMAIN replies' : replies'[m] = Bad => m = Len(replies')
      BY <3>3
    <3>8. FALSE \in BOOLEAN /\ Len(buf) \in Nat /\ Len(buf) <= Len(buf)
      BY <1>0
    <3>9. \A m \in DOMAIN replies' : replies'[m] = Bad =>
            m = Len(replies') /\ rs # << >> /\ ~FALSE /\ Len(buf) = Len(buf)
      BY <3>3, <3>7
    <3>10. UNCHANGED <<wire, slot>> /\ slot = "none"
      BY <1>0
    <3> QED BY <3>3, <3>4, <3>5, <3>6, <3>8, <3>9, <3>10, EndParseReplies
  <2> QED BY <1>9, <2>1, <2>2 DEF ProcessReject
<1>10. CASE ProcessNeedMore \/ ProcessedAll
  BY <1>0, <1>7, <1>10 DEF ProcessNeedMore, ProcessedAll
<1> QED BY <1>6, <1>8, <1>9, <1>10 DEF Parse

TailOf(ba, re) ==
  /\ Len(ba) <= Len(re)
  /\ \A i \in 1..Len(ba) : ba[i] = re[Len(re) - Len(ba) + i]

(* v is w and then n bytes of the batch ba, wr of which w holds already.   *)
GoesOn(v, w, ba, wr, n) ==
  /\ Len(v) = Len(w) + n
  /\ \A k \in 1..Len(w) : v[k] = w[k]
  /\ \A k \in 1..n : v[Len(w) + k] = <<ba[(((wr + k) - 1) \div ResponseLen) + 1],
                                       (((wr + k) - 1) % ResponseLen) + 1>>

(* What writev puts on the wire goes on with the replies.                  *)
LEMMA WireExtended ==
  ASSUME NEW w \in Seq(Nat \X Nat), NEW ba \in Seq(Nat), NEW re \in Seq(Nat),
         NEW n \in Nat, NEW v, NEW wr \in Nat, TailOf(ba, re), GoesOn(v, w, ba, wr, n),
         Len(w) = (Len(re) - Len(ba)) * ResponseLen + wr, wr + n <= Len(ba) * ResponseLen,
         Follows(w, re)
  PROVE  /\ Follows(v, re) /\ Len(v) = (Len(re) - Len(ba)) * ResponseLen + (wr + n)
         /\ wr + n = Len(ba) * ResponseLen => Len(v) = Len(re) * ResponseLen
<1> DEFINE d == Len(re) - Len(ba)
           c == Len(ba)
           L == ResponseLen
<1>1. /\ d \in Nat /\ c \in Nat /\ L \in Nat \ {0} /\ Len(re) = d + c /\ Len(w) \in Nat
      /\ Len(w) = d * L + wr /\ wr + n <= c * L
      /\ Len(v) = Len(w) + n /\ \A k \in 1..Len(w) : v[k] = w[k]
  BY SizesAssumption DEF TailOf, GoesOn
<1>2. \A k \in 1..n : v[Len(w) + k] = <<ba[(((wr + k) - 1) \div L) + 1], (((wr + k) - 1) % L) + 1>>
  BY DEF GoesOn
<1>3. \A i \in 1..c : ba[i] = re[d + i]
  BY DEF TailOf
<1> HIDE DEF d, c, L
<1>4. PICK dl, cl : dl = d * L /\ cl = c * L /\ dl \in Nat /\ cl \in Nat /\ (d + c) * L = dl + cl
  <2>1. d * L \in Nat /\ c * L \in Nat /\ (d + c) * L = d * L + c * L
    BY <1>1, SMT
  <2> QED BY <2>1
<1>9. Len(w) = dl + wr /\ wr + n <= cl /\ Len(v) = Len(w) + n
  BY <1>1, <1>4
<1>5. Len(v) = dl + (wr + n) /\ Len(v) <= dl + cl /\ Len(w) \in Nat
  <2>1. dl \in Nat /\ cl \in Nat
    BY <1>4
  <2> QED BY <1>9, <2>1
<1>6. ASSUME NEW k \in 1..Len(v) PROVE v[k] = <<re[((k - 1) \div L) + 1], ((k - 1) % L) + 1>>
  <2>1. CASE k \in 1..Len(w)
    BY <1>1, <2>1 DEF Follows, L
  <2>2. CASE k \notin 1..Len(w)
    <3> DEFINE j == k - Len(w)
    <3>1. j \in 1..n /\ k = Len(w) + j
      BY <1>5, <1>9, <2>2
    <3> DEFINE x == (wr + j) - 1
    <3> HIDE DEF j
    <3>8. x \in Nat /\ wr + j \in 1..cl /\ k - 1 = dl + x /\ (wr + j) - 1 = x
      <4>1. dl \in Nat /\ cl \in Nat
        BY <1>4
      <4> QED BY <1>9, <3>1, <4>1
    <3>2. x \in Nat /\ wr + j \in 1..(c * L) /\ k - 1 = d * L + x /\ (wr + j) - 1 = x
      BY <1>4, <3>8
    <3>3. v[k] = <<ba[(x \div L) + 1], (x % L) + 1>>
      BY <1>2, <3>1
    <3> HIDE DEF x
    <3>4. (k - 1) \div L = d + x \div L /\ (k - 1) % L = x % L
      <4>1. L \in Nat \ {0} /\ d \in Nat /\ x \in Nat /\ k - 1 = d * L + x
        BY <1>1, <3>2
      <4>2. (d * L + x) \div L = d + x \div L /\ (d * L + x) % L = x % L
        BY <4>1, QuotientShift, Zenon
      <4> QED BY <4>1, <4>2, Zenon
    <3>5. (x \div L) + 1 \in 1..c
      BY <1>1, <3>2, ByteInBatch
    <3>6. ba[(x \div L) + 1] = re[d + ((x \div L) + 1)]
      BY <1>3, <3>5
    <3>7. ((k - 1) \div L) + 1 = d + ((x \div L) + 1)
      <4> DEFINE q == x \div L
      <4>1. q + 1 \in Int
        BY <3>5
      <4>2. q \in Int
        BY <1>1, <3>2, SMT
      <4> HIDE DEF q
      <4>3. (d + q) + 1 = d + (q + 1)
        BY <1>1, <4>2
      <4> QED BY <3>4, <4>3 DEF q
    <3> QED BY <3>3, <3>4, <3>6, <3>7
  <2> QED BY <2>1, <2>2
<1>7. Follows(v, re)
  <2>1. Len(v) <= Len(re) * L
    BY <1>1, <1>4, <1>5
  <2> QED BY <1>6, <2>1 DEF Follows, L
<1>8. wr + n = c * L => Len(v) = (d + c) * L
  BY <1>4, <1>5
<1>10. Len(v) = d * L + (wr + n)
  BY <1>4, <1>5
<1> QED BY <1>1, <1>7, <1>8, <1>10 DEF d, c, L

LEMMA WriteReplies ==
  ASSUME IInv, IInv', ReplyInv, Write
  PROVE  ReplyInv'
<1>0. /\ pc = "write" /\ slot = "none" /\ Writing /\ ~Reading
      /\ batch \in Seq(Nat) /\ replies \in Seq(Nat) /\ written \in Nat
      /\ wire \in Seq(Nat \X Nat) /\ leftLen \in Nat
      /\ Len(batch) \in Nat /\ Len(replies) \in Nat /\ ResponseLen \in Nat \ {0}
  <2>1. pc = "write"
    BY DEF Write, Writev, WritevSome, WritevWouldBlock, WritevError
  <2>2. slot = "none"
    BY <2>1 DEF IInv, SlotsAgree
  <2>3. Writing /\ ~Reading
    BY <2>1, <2>2 DEF Writing, Reading
  <2>4. /\ batch \in Seq(Nat) /\ replies \in Seq(Nat) /\ written \in Nat
        /\ wire \in Seq(Nat \X Nat) /\ leftLen \in Nat
    BY DEF IInv, TypeOK
  <2> QED BY <2>1, <2>2, <2>3, <2>4, SizesAssumption
<1>1. /\ Len(batch) <= Len(replies)
      /\ \A i \in 1..Len(batch) : batch[i] = replies[Len(replies) - Len(batch) + i]
      /\ Len(wire) = (Len(replies) - Len(batch)) * ResponseLen + written
      /\ Follows(wire, replies)
      /\ \A m \in DOMAIN replies : replies[m] = Bad => m = Len(replies)
  BY <1>0 DEF ReplyInv, BatchIsTail, WireReaches, WireFollowsReplies, Follows, RejectEnds
<1>2. CASE WritevWouldBlock
  <2>1. /\ pc' = "armOut" /\ UNCHANGED <<wire, slot, replies, batch, written, keep, leftLen>>
    BY <1>2 DEF WritevWouldBlock, batchVars
  <2>2. ~Reading' /\ Writing'
    BY <1>0, <2>1 DEF Reading, Writing
  <2> QED BY <1>0, <2>1, <2>2, RepliesUnmoved
<1>3. CASE WritevError
  BY <1>1, <1>3, RepliesClosed DEF WritevError, ShutdownClient
<1>4. ASSUME NEW n \in 1..SendBuffer, WritevSome(n) PROVE ReplyInv'
  <2>1. n \in Nat /\ written + n <= Len(batch) * ResponseLen
        /\ wire' = wire \o [k \in 1..n |-> BatchByte(written + k)]
    <3>1. n \in Nat /\ n <= Len(batch) * ResponseLen - written
      BY <1>4, SizesAssumption DEF WritevSome, BatchBytes
    <3>2. Len(batch) * ResponseLen \in Nat
      BY <1>0, SMT
    <3> QED BY <1>0, <1>4, <3>1, <3>2 DEF WritevSome
  <2>2. /\ Len(wire') = Len(wire) + n
        /\ \A k \in 1..Len(wire) : wire'[k] = wire[k]
        /\ \A k \in 1..n : wire'[Len(wire) + k] = BatchByte(written + k)
    BY <1>0, <2>1
  <2>3. \A k \in 1..n : wire'[Len(wire) + k] = <<batch[(((written + k) - 1) \div ResponseLen) + 1],
                                                 (((written + k) - 1) % ResponseLen) + 1>>
    <3> TAKE k \in 1..n
    <3>1. wire'[Len(wire) + k] = BatchByte(written + k)
      BY <2>2
    <3>2. BatchByte(written + k) = <<batch[(((written + k) - 1) \div ResponseLen) + 1],
                                     (((written + k) - 1) % ResponseLen) + 1>>
      BY DEF BatchByte
    <3> QED BY <3>1, <3>2
  <2>7. PICK v : v = wire'
    OBVIOUS
  <2>8. GoesOn(v, wire, batch, written, n) /\ TailOf(batch, replies)
    BY <1>1, <2>2, <2>3, <2>7 DEF GoesOn, TailOf
  <2>9. /\ Follows(v, replies)
        /\ Len(v) = (Len(replies) - Len(batch)) * ResponseLen + (written + n)
        /\ written + n = Len(batch) * ResponseLen => Len(v) = Len(replies) * ResponseLen
    BY <1>0, <1>1, <2>1, <2>8, WireExtended
  <2>4. /\ Follows(wire', replies)
        /\ Len(wire') = (Len(replies) - Len(batch)) * ResponseLen + (written + n)
        /\ written + n = Len(batch) * ResponseLen => Len(wire') = Len(replies) * ResponseLen
    BY <2>7, <2>9
  <2>5. CASE written + n < BatchBytes
    <3>1. /\ written' = written + n
          /\ UNCHANGED <<pc, slot, leftLen, batch, keep, replies>>
      BY <1>4, <2>5 DEF WritevSome
    <3>2. /\ Writing' /\ ~Reading' /\ pc' # "parse" /\ (Final' <=> Final)
      BY <1>0, <3>1 DEF Writing, Reading, Final
    <3>3. BatchIsTail' /\ RejectEnds'
      BY <1>0, <3>1, <3>2 DEF ReplyInv, BatchIsTail, RejectEnds
    <3>4. WireReaches'
      BY <2>4, <2>5, <3>1, <3>2 DEF WireReaches, BatchBytes
    <3> QED BY <2>4, <3>1, <3>3, <3>4 DEF ReplyInv, WireFollowsReplies, Follows
  <2>6. CASE ~(written + n < BatchBytes)
    <3>1. Len(wire') = Len(replies) * ResponseLen
      <4>1. Len(batch) * ResponseLen \in Nat
        BY <1>0, SMT
      <4>2. PICK bb : bb = Len(batch) * ResponseLen
        OBVIOUS
      <4>3. bb \in Nat /\ written + n <= bb /\ ~(written + n < bb)
        BY <2>1, <2>6, <4>1, <4>2 DEF BatchBytes
      <4>4. written + n = bb
        <5>1. written \in Nat /\ n \in Nat
          BY <1>0, <2>1
        <5> QED BY <4>3, <5>1
      <4> QED BY <2>4, <4>2, <4>4
    <3>2. CASE leftLen > 0
      <4>1. DriveReading(Leftover) /\ UNCHANGED slot
        BY <1>4, <2>6, <3>2 DEF WritevSome
      <4>2. ~Final
        BY <1>0, <3>2 DEF Final
      <4>3. \A m \in DOMAIN replies : replies[m] # Bad
        BY <4>2, NoneRejected
      <4> QED BY <1>0, <2>4, <3>1, <4>1, <4>3, DriveReadingReplies
    <3>3. CASE ~(leftLen > 0) /\ keep
      <4>1. pc' = "armIn" /\ UNCHANGED <<slot, batch, written, keep, leftLen, replies>>
        BY <1>4, <2>6, <3>3 DEF WritevSome, batchVars
      <4>2. Reading' /\ ~Writing' /\ ~Final
        BY <1>0, <3>3, <4>1 DEF Reading, Writing, Final
      <4>3. \A m \in DOMAIN replies : replies[m] # Bad
        BY <4>2, NoneRejected
      <4> QED BY <2>4, <3>1, <4>1, <4>2, <4>3
              DEF ReplyInv, BatchIsTail, WireReaches, WireFollowsReplies, Follows, RejectEnds
    <3>4. CASE ~(leftLen > 0) /\ ~keep
      <4>1. pc' = "closed" /\ UNCHANGED replies
        BY <1>4, <2>6, <3>4 DEF WritevSome
      <4> QED BY <1>1, <2>4, <4>1, RepliesClosed
    <3> QED BY <3>2, <3>3, <3>4
  <2> QED BY <2>5, <2>6
<1> QED BY <1>2, <1>3, <1>4 DEF Write, Writev

LEMMA OtherReplies ==
  ASSUME IInv, IInv', ReplyInv, Arm \/ Event \/ Client \/ UNCHANGED vars
  PROVE  ReplyInv'
<1>0. SlotsAgree /\ TypeOK /\ Follows(wire, replies)
      /\ \A m \in DOMAIN replies : replies[m] = Bad => m = Len(replies)
  BY DEF IInv, ReplyInv, WireFollowsReplies, Follows, RejectEnds
<1>1. CASE Arm
  <2>1. /\ UNCHANGED <<wire, replies, batch, written, keep, leftLen>>
        /\ \/ pc = "armIn" /\ pc' = "wait" /\ slot' = "reading"
           \/ pc = "armOut" /\ pc' = "wait" /\ slot' = "writing"
    BY <1>1 DEF Arm, ArmIn, ArmOut, batchVars
  <2> QED BY <1>0, <2>1, RepliesUnmoved DEF SlotsAgree, Reading, Writing
<1>2. CASE EventHup
  BY <1>0, <1>2, RepliesClosed DEF EventHup, ShutdownClient
<1>3. CASE EventIn
  <2>1. slot = "reading" /\ pc = "wait"
    BY <1>0, <1>3 DEF EventIn, Fetch, SlotsAgree, TypeOK
  <2>2. /\ UNCHANGED <<wire, replies, batch, written, keep, leftLen>>
        /\ slot' = "none" /\ pc' = "read"
    BY <1>3, <2>1 DEF EventIn, batchVars
  <2> QED BY <2>1, <2>2, RepliesUnmoved DEF Reading, Writing
<1>4. CASE EventOut
  <2>1. slot = "writing" /\ pc = "wait"
    BY <1>0, <1>4 DEF EventOut, Fetch, SlotsAgree, TypeOK
  <2>2. /\ UNCHANGED <<wire, replies, batch, written, keep, leftLen>>
        /\ slot' = "none" /\ pc' = "write"
    BY <1>4, <2>1 DEF EventOut, batchVars
  <2> QED BY <2>1, <2>2, RepliesUnmoved DEF Reading, Writing
<1>5. CASE EventGone \/ Client \/ UNCHANGED vars
  <2>1. UNCHANGED <<wire, replies, batch, written, keep, leftLen, pc, slot>>
    BY <1>5 DEF EventGone, Client, ClientSend, ClientShutdown, ClientReset, ClientReceive,
      ServerVars, vars, batchVars
  <2> QED BY <2>1, RepliesUnmoved DEF Reading, Writing
<1> QED BY <1>1, <1>2, <1>3, <1>4, <1>5 DEF Event

LEMMA InitReplies == Init => ReplyInv
<1> SUFFICES ASSUME Init PROVE ReplyInv
  OBVIOUS
<1>1. /\ wire = << >> /\ replies = << >> /\ pc = "handed" /\ slot = "none"
  BY DEF Init
<1>2. Len(wire) = 0 /\ Len(replies) = 0 /\ DOMAIN replies = {} /\ 0 * ResponseLen = 0
  BY <1>1, SizesAssumption
<1> QED BY <1>1, <1>2
  DEF ReplyInv, BatchIsTail, WireReaches, WireFollowsReplies, RejectEnds, Writing, Reading

LEMMA AlwaysReplyInv == Spec => [](IInv /\ ReplyInv)
<1>1. IInv /\ ReplyInv /\ [Next]_vars => IInv' /\ ReplyInv'
  <2> SUFFICES ASSUME IInv, ReplyInv, [Next]_vars PROVE IInv' /\ ReplyInv'
    OBVIOUS
  <2>1. IInv'
    BY ReadInv, ParseInv, WriteInv, ArmInv, EventInv, ClientInv, StutterInv DEF Next, Server
  <2> QED BY <2>1, ReadReplies, ParseReplies, WriteReplies, OtherReplies DEF Next, Server
<1>2. Init => IInv /\ ReplyInv
  BY InitInv, InitReplies
<1> QED BY <1>1, <1>2, PTL DEF Spec

(* Whatever mix of partial writes, EAGAIN and resumption a connection goes *)
(* through, the client receives the responses in the order they were made, *)
(* whole and once.                                                         *)
THEOREM WireInOrder == Spec => []WireFollowsReplies
<1>1. IInv /\ ReplyInv => WireFollowsReplies
  BY DEF ReplyInv
<1> QED BY AlwaysReplyInv, <1>1, PTL

(* A 400 or a 404 is the last response of its connection, which never goes *)
(* back to reading.                                                        *)
THEOREM RejectsAreFinal == Spec => []RejectIsFinal
<1>1. IInv /\ ReplyInv => RejectIsFinal
  <2> SUFFICES ASSUME IInv, ReplyInv, NEW m \in DOMAIN replies, replies[m] = Bad
               PROVE  /\ m = Len(replies)
                      /\ pc \in {"write", "armOut", "wait", "closed"} /\ slot # "reading"
    BY DEF RejectIsFinal
  <2>1. m = Len(replies) /\ Final
    BY DEF ReplyInv, RejectEnds
  <2>2. SlotsAgree /\ TypeOK
    BY DEF IInv
  <2> QED BY <2>1, <2>2 DEF Final, Writing, SlotsAgree, TypeOK
<1> QED BY AlwaysReplyInv, <1>1, PTL

-----------------------------------------------------------------------------
(* Replies and requests.                                                   *)

(* The last byte of a request the parser looks at before it answers.       *)
Needed(q) == IF q.kind = "reject" THEN q.hdr ELSE q.last

(* No byte can be left in a buffer behind a request that finds the batch   *)
(* full: one more than a batch of requests leave no room for it.           *)
NothingBehindFullBatch ==
  \A s \in Streams : \A i \in DOMAIN s :
    i + MAX_PIPELINED_RESPONSES + 1 \in DOMAIN s =>
      s[i + MAX_PIPELINED_RESPONSES].last - s[i].first + 1 >= BUF_SIZE - 1

(* A request finds the batch full only behind one that asks for the close. *)
FullBatchCloses ==
  \A s \in Streams : \A i \in DOMAIN s :
    i + MAX_PIPELINED_RESPONSES \in DOMAIN s =>
      \/ Needed(s[i + MAX_PIPELINED_RESPONSES]) - s[i].first + 1 >= BUF_SIZE
      \/ \E j \in i..(i + MAX_PIPELINED_RESPONSES - 1) : s[j].kind = "close"

(* Where the first n requests of a stream end.                             *)
EndIn(s, n) == IF n = 0 THEN 0 ELSE s[n].last

EndOf(n) == EndIn(stream, n)

(* b holds the last of the bytes 1, 2, ... t.                              *)
LastBytes(b, t) ==
  /\ Len(b) <= t
  /\ \A i \in 1..Len(b) : b[i] = t - Len(b) + i

(* The buffer holds the last bytes read.                                   *)
BufferIsTail ==
  /\ LastBytes(buf, taken)
  /\ pc = "parse" => Len(buf) < BUF_SIZE
  /\ Writing => leftLen = 0 \/ processed + leftLen = Len(buf)
  /\ sent <= Total

(* The replies answer the first requests, and the buffer goes on behind    *)
(* them.                                                                   *)
Aligned ==
  /\ Len(replies) <= Len(stream)
  /\ Reading => taken - Len(buf) = EndOf(Len(replies))
  /\ pc = "parse" => /\ taken - Len(buf) = EndOf(Len(replies) - Len(batch))
                     /\ taken - Len(buf) + processed = EndOf(Len(replies))
  /\ Writing => taken - leftLen = EndOf(Len(replies))

InStep == ResponseMatchesRequest /\ (Aligned \/ Final)

(* The client has asked for the close or has been sent an error.           *)
Excused == \E m \in DOMAIN replies : replies[m] = Bad \/ stream[m].kind = "close"

ExcusedClose == (pc = "parse" \/ Writing) /\ ~keep => Excused

-----------------------------------------------------------------------------
(* The bytes of the requests of a stream.                                  *)

LEMMA RequestsInOrder ==
  ASSUME NEW s \in Seq(Request), Contiguous(s)
  PROVE  /\ \A n \in 0..Len(s) : EndIn(s, n) \in Nat
         /\ \A n \in 1..Len(s) : /\ s[n].first = EndIn(s, n - 1) + 1
                                 /\ s[n].first <= s[n].hdr /\ s[n].hdr <= s[n].last
                                 /\ s[n].first \in Nat /\ s[n].hdr \in Nat /\ s[n].last \in Nat
         /\ \A m, n \in 0..Len(s) : m < n => EndIn(s, m) < EndIn(s, n)
<1>0. DOMAIN s = 1..Len(s) /\ Len(s) \in Nat
  OBVIOUS
<1>1. \A n \in 1..Len(s) : /\ s[n].first \in Nat /\ s[n].hdr \in Nat /\ s[n].last \in Nat
                           /\ s[n].first <= s[n].hdr /\ s[n].hdr <= s[n].last
  <2> TAKE n \in 1..Len(s)
  <2>1. s[n] \in Request
    OBVIOUS
  <2> QED BY <1>0, <2>1 DEF Request, Contiguous
<1>2. \A n \in 0..Len(s) : EndIn(s, n) \in Nat
  BY <1>0, <1>1 DEF EndIn
<1>3. ASSUME NEW n \in 1..Len(s) PROVE s[n].first = EndIn(s, n - 1) + 1
  <2>1. CASE n = 1
    <3>1. s # << >>
      BY <1>0
    <3>2. s[1].first = 1
      BY <3>1 DEF Contiguous
    <3> QED BY <2>1, <3>2 DEF EndIn
  <2>2. CASE n # 1
    <3> DEFINE k == n - 1
    <3>1. k \in DOMAIN s /\ k + 1 \in DOMAIN s /\ n = k + 1 /\ k # 0
      BY <1>0, <2>2
    <3> HIDE DEF k
    <3>2. s[k + 1].first = s[k].last + 1
      BY <3>1 DEF Contiguous
    <3> QED BY <3>1, <3>2 DEF EndIn, k
  <2> QED BY <2>1, <2>2
<1>4. ASSUME NEW m \in 0..Len(s), NEW n \in 0..Len(s), m < n PROVE EndIn(s, m) < EndIn(s, n)
  <2>1. n \in 1..Len(s) /\ EndIn(s, n) = s[n].last
    BY <1>0, <1>4 DEF EndIn
  <2>2. CASE m = 0
    <3>1. EndIn(s, n - 1) \in Nat
      <4>1. n - 1 \in 0..Len(s)
        BY <1>0, <2>1
      <4> QED BY <1>2, <4>1
    <3>2. EndIn(s, m) = 0
      BY <2>2 DEF EndIn
    <3>3. s[n].first = EndIn(s, n - 1) + 1
      BY <1>3, <2>1
    <3>4. s[n].first \in Nat /\ s[n].last \in Nat /\ s[n].first <= s[n].last
      <4>1. s[n].hdr \in Nat /\ s[n].first <= s[n].hdr /\ s[n].hdr <= s[n].last
        BY <1>1, <2>1
      <4> QED BY <1>1, <2>1, <4>1
    <3>5. s[n].last > 0
      BY <3>1, <3>3, <3>4
    <3> QED BY <2>1, <3>2, <3>5
  <2>3. CASE m # 0
    <3>1. m \in 1..Len(s) /\ EndIn(s, m) = s[m].last
      BY <1>0, <1>4, <2>3 DEF EndIn
    <3>2. s[m].last < s[n].first
      BY <1>0, <1>4, <2>1, <3>1 DEF Contiguous
    <3> QED BY <1>1, <2>1, <3>1, <3>2
  <2> QED BY <2>2, <2>3
<1> QED BY <1>1, <1>2, <1>3, <1>4

(* The request that begins where n requests end is the next one.           *)
LEMMA NextRequest ==
  ASSUME TypeOK, NEW n \in 0..Len(stream), NEW p, p = EndOf(n) + 1
  PROVE  /\ IsRequestStart(p) <=> n < Len(stream)
         /\ n < Len(stream) => RequestAt(p) = n + 1
<1>0. stream \in Seq(Request) /\ Contiguous(stream)
  BY StreamsAssumption DEF TypeOK
<1>1. DOMAIN stream = 1..Len(stream) /\ Len(stream) \in Nat
  BY <1>0
<1>2. ASSUME NEW r \in DOMAIN stream, stream[r].first = p PROVE r = n + 1
  <2>1. EndIn(stream, r - 1) = EndIn(stream, n)
    <3>1. stream[r].first = EndIn(stream, r - 1) + 1 /\ r - 1 \in 0..Len(stream)
      <4>1. r \in 1..Len(stream)
        BY <1>1, <1>2
      <4>2. \A m \in 1..Len(stream) : stream[m].first = EndIn(stream, m - 1) + 1
        BY <1>0, RequestsInOrder
      <4>3. stream[r].first = EndIn(stream, r - 1) + 1
        BY <4>1, <4>2, Zenon
      <4> QED BY <1>1, <4>1, <4>3
    <3>2. EndIn(stream, r - 1) \in Nat /\ EndIn(stream, n) \in Nat
      BY <1>0, <3>1, RequestsInOrder
    <3> QED BY <1>2, <3>1, <3>2 DEF EndOf
  <2>2. ~(r - 1 < n) /\ ~(n < r - 1)
    <3> DEFINE k == r - 1
    <3>1. k \in 0..Len(stream)
      BY <1>1
    <3>2. EndIn(stream, k) = EndIn(stream, n) /\ EndIn(stream, n) \in Nat
      BY <1>0, <2>1, RequestsInOrder
    <3> HIDE DEF k
    <3>3. ~(k < n) /\ ~(n < k)
      BY <1>0, <3>1, <3>2, RequestsInOrder
    <3> QED BY <3>3 DEF k
  <2> QED BY <1>1, <2>2
<1>3. ASSUME n < Len(stream) PROVE n + 1 \in DOMAIN stream /\ stream[n + 1].first = p
  <2> DEFINE k == n + 1
  <2>1. k \in 1..Len(stream) /\ k - 1 = n
    BY <1>1, <1>3
  <2> HIDE DEF k
  <2>2. stream[k].first = EndIn(stream, k - 1) + 1
    BY <1>0, <2>1, RequestsInOrder
  <2> QED BY <1>1, <2>1, <2>2 DEF EndOf, k
<1>4. IsRequestStart(p) <=> n < Len(stream)
  BY <1>1, <1>2, <1>3 DEF IsRequestStart
<1>5. n < Len(stream) => RequestAt(p) = n + 1
  BY <1>2, <1>3 DEF RequestAt
<1> QED BY <1>4, <1>5

LEMMA TotalIsEnd == ASSUME TypeOK PROVE Total = EndOf(Len(stream)) /\ Total \in Nat
<1>0. stream \in Seq(Request) /\ Contiguous(stream) /\ Len(stream) \in Nat
  BY StreamsAssumption DEF TypeOK
<1>1. stream = << >> <=> Len(stream) = 0
  BY <1>0
<1>2. Len(stream) \in 0..Len(stream)
  BY <1>0
<1>3. EndIn(stream, Len(stream)) \in Nat
  BY <1>0, <1>2, RequestsInOrder
<1> QED BY <1>1, <1>3 DEF Total, EndOf, EndIn

-----------------------------------------------------------------------------
(* The buffer.                                                             *)

LEMMA TailOfBytes ==
  ASSUME NEW b \in Seq(Nat), NEW t \in Nat, LastBytes(b, t), NEW off \in Nat, off <= Len(b),
         NEW c, c = SubSeq(b, off + 1, Len(b))
  PROVE  c \in Seq(Nat) /\ Len(c) = Len(b) - off /\ LastBytes(c, t)
<1>0. Len(b) \in Nat
  OBVIOUS
<1>1. /\ c \in Seq(Nat) /\ Len(c) = IF off < Len(b) THEN Len(b) - off ELSE 0
      /\ \A k \in 1..Len(c) : c[k] = b[off + k]
  BY <1>0, SubSeqOfNat
<1>2. Len(c) = Len(b) - off
  BY <1>0, <1>1
<1>3. ASSUME NEW k \in 1..Len(c) PROVE c[k] = t - Len(c) + k
  <2>1. off + k \in 1..Len(b)
    BY <1>0, <1>2
  <2>2. c[k] = t - Len(b) + (off + k)
    BY <1>1, <2>1 DEF LastBytes
  <2>3. PICK lb \in Nat, lc \in Nat : lb = Len(b) /\ lc = Len(c)
    <3>1. Len(b) \in Nat /\ Len(c) \in Nat
      BY <1>0, <1>2
    <3> QED BY <3>1
  <2>4. lc = lb - off /\ k \in Nat /\ c[k] = t - lb + (off + k)
    BY <1>2, <2>2, <2>3
  <2>5. c[k] = t - lc + k
    BY <2>4
  <2> QED BY <2>3, <2>5
<1>4. Len(c) <= t
  BY <1>0, <1>2 DEF LastBytes
<1> QED BY <1>1, <1>2, <1>3, <1>4 DEF LastBytes

LEMMA MoreBytes ==
  ASSUME NEW b \in Seq(Nat), NEW t \in Nat, LastBytes(b, t), NEW n \in Nat,
         NEW d \in Seq(Nat), Len(d) = n, \A k \in 1..n : d[k] = t + k
  PROVE  b \o d \in Seq(Nat) /\ Len(b \o d) = Len(b) + n /\ LastBytes(b \o d, t + n)
<1> DEFINE c == b \o d
<1>1. Len(d) = n /\ \A k \in 1..n : d[k] = t + k
  OBVIOUS
<1>2. /\ c \in Seq(Nat) /\ Len(c) = Len(b) + n /\ Len(b) \in Nat
      /\ \A k \in 1..Len(b) : c[k] = b[k]
      /\ \A k \in 1..n : c[Len(b) + k] = d[k]
  BY <1>1
<1> HIDE DEF c
<1>3. ASSUME NEW i \in 1..Len(c) PROVE c[i] = (t + n) - Len(c) + i
  <2>1. CASE i \in 1..Len(b)
    BY <1>2, <2>1 DEF LastBytes
  <2>2. CASE i \notin 1..Len(b)
    <3> DEFINE j == i - Len(b)
    <3>1. j \in 1..n /\ i = Len(b) + j
      BY <1>2, <2>2
    <3> HIDE DEF j
    <3>2. c[i] = t + j
      BY <1>1, <1>2, <3>1
    <3>3. PICK lb \in Nat : lb = Len(b)
      BY <1>2
    <3>4. (t + n) - (lb + n) + (lb + j) = t + j
      BY <3>1
    <3> QED BY <1>2, <3>1, <3>2, <3>3, <3>4
  <2> QED BY <2>1, <2>2
<1>4. Len(c) <= t + n
  BY <1>2 DEF LastBytes
<1> QED BY <1>2, <1>3, <1>4 DEF LastBytes, c

LEMMA NoBytes == ASSUME NEW t \in Nat PROVE LastBytes(<< >>, t)
<1>1. Len(<< >>) = 0
  OBVIOUS
<1> QED BY <1>1 DEF LastBytes

-----------------------------------------------------------------------------
(* Each step keeps the replies in step with the requests.                  *)

StepInv == BufferIsTail /\ InStep

LEMMA StepUnmoved ==
  ASSUME StepInv, UNCHANGED <<stream, taken, buf, processed, leftLen, replies, batch, keep>>,
         Reading' <=> Reading, Writing' <=> Writing, pc' = "parse" <=> pc = "parse",
         pc' = "closed" <=> pc = "closed", sent' <= Total'
  PROVE  StepInv'
<1>1. BufferIsTail' /\ ResponseMatchesRequest'
  BY DEF StepInv, BufferIsTail, InStep, ResponseMatchesRequest
<1>2. (Final' <=> Final) /\ (Aligned' <=> Aligned)
  BY DEF Final, Aligned, EndOf
<1> QED BY <1>1, <1>2 DEF StepInv, InStep

LEMMA StepClosed ==
  ASSUME IInv', StepInv, pc' = "closed", buf' = << >>, UNCHANGED <<stream, sent, replies>>
  PROVE  StepInv'
<1>1. ~Writing' /\ Final' /\ pc' # "parse" /\ taken' \in Nat
  BY DEF Writing, Final, IInv, SlotsAgree, TypeOK
<1>2. LastBytes(buf', taken')
  BY <1>1, NoBytes
<1>3. Total' = Total
  BY DEF Total
<1> QED BY <1>1, <1>2, <1>3 DEF StepInv, BufferIsTail, InStep, ResponseMatchesRequest

LEMMA DriveReadingInStep ==
  ASSUME IInv, IInv', NEW b, b \in Seq(Nat), DriveReading(b), slot' = "none",
         UNCHANGED <<stream, sent>>, ResponseMatchesRequest, Len(replies) <= Len(stream),
         sent <= Total, LastBytes(b, taken'), taken' - Len(b) = EndOf(Len(replies))
  PROVE  StepInv'
<1>0. /\ replies \in Seq(Nat) /\ Len(replies) \in Nat /\ Len(b) \in Nat
      /\ BUF_SIZE \in Nat /\ taken' \in Nat
  <2>1. taken' \in Nat
    BY DEF IInv, TypeOK
  <2>2. replies \in Seq(Nat)
    BY DEF IInv, TypeOK
  <2> QED BY <2>1, <2>2, SizesAssumption
<1>1. /\ buf' = b /\ processed' = 0 /\ leftLen' = 0
  BY DEF DriveReading
<1>2. Total' = Total
  BY DEF Total
<1>3. CASE IsFull(b)
  <2>1. /\ pc' = "write" /\ keep' = FALSE /\ replies' = Append(replies, Bad)
    BY <1>3 DEF DriveReading
  <2>2. Final' /\ pc' # "parse"
    BY <1>1, <2>1 DEF Final, Writing
  <2>3. ResponseMatchesRequest'
    <3>1. Bad \in Nat
      BY DEF Bad
    <3>2. PICK rs : rs = replies'
      OBVIOUS
    <3>3. /\ DOMAIN rs = 1..(Len(replies) + 1) /\ rs[Len(replies) + 1] = Bad
          /\ \A i \in 1..Len(replies) : rs[i] = replies[i]
      BY <1>0, <2>1, <3>1, <3>2
    <3>4. DOMAIN replies = 1..Len(replies)
      BY <1>0
    <3>5. \A m \in DOMAIN rs : rs[m] \in {m, Bad}
      BY SMTT(30), <1>0, <3>3, <3>4 DEF ResponseMatchesRequest
    <3> QED BY <3>2, <3>5 DEF ResponseMatchesRequest
  <2> QED BY <1>1, <1>2, <2>2, <2>3 DEF StepInv, BufferIsTail, InStep
<1>4. CASE ~IsFull(b)
  <2>1. pc' = "parse" /\ batch' = << >> /\ UNCHANGED replies
    BY <1>4 DEF DriveReading
  <2>2. ~Reading' /\ ~Writing' /\ Len(b) < BUF_SIZE
    BY <1>0, <1>4, <2>1 DEF Reading, Writing, IsFull
  <2>3. BufferIsTail'
    BY <1>1, <1>2, <2>2 DEF BufferIsTail
  <2>4. Aligned'
    <3>1. Len(batch') = 0
      BY <2>1
    <3>2. /\ Len(replies') - Len(batch') = Len(replies)
          /\ taken' - Len(buf') + processed' = taken' - Len(b)
      BY <1>0, <1>1, <2>1, <3>1
    <3> QED BY <1>1, <2>1, <2>2, <3>2 DEF Aligned, EndOf
  <2> QED BY <2>1, <2>3, <2>4 DEF StepInv, InStep, ResponseMatchesRequest
<1> QED BY <1>3, <1>4

LEMMA ReadInStep ==
  ASSUME IInv, IInv', StepInv, Read
  PROVE  StepInv'
<1>0. SlotsAgree /\ SlotsAgree' /\ TypeOK /\ sent <= Total /\ UNCHANGED clientVars
  BY DEF IInv, StepInv, BufferIsTail, Read, OnNewClientFd, GreedyReadData, GreedyReadDrained,
    GreedyReadWouldBlock, GreedyReadClosed, ShutdownClient
<1>1. /\ UNCHANGED <<stream, sent>> /\ Total' = Total
      /\ Len(buf) \in Nat /\ taken \in Nat /\ buf \in Seq(Nat) /\ Len(replies) \in Nat
  BY <1>0 DEF clientVars, Total, TypeOK
<1>2. ASSUME InGreedyRead
      PROVE  /\ slot = "none" /\ Reading /\ LastBytes(buf, taken) /\ Len(replies) <= Len(stream)
             /\ taken - Len(buf) = EndOf(Len(replies)) /\ ResponseMatchesRequest
  <2>1. slot = "none" /\ Reading /\ ~Final
    BY <1>0, <1>2 DEF InGreedyRead, Reading, SlotsAgree, Final, Writing
  <2> QED BY <2>1 DEF StepInv, BufferIsTail, InStep, Aligned
<1>3. CASE OnNewClientFd
  BY <1>0, <1>1, <1>3, StepUnmoved DEF OnNewClientFd, batchVars, Reading, Writing
<1>4. CASE GreedyReadWouldBlock
  <2>1. /\ UNCHANGED <<stream, taken, buf, processed, leftLen, replies, batch, keep>>
        /\ pc \in {"new", "read"}
        /\ \/ pc' = "armIn" /\ UNCHANGED slot
           \/ pc' = "wait" /\ slot' = "reading"
    BY <1>1, <1>4 DEF GreedyReadWouldBlock, InGreedyRead, batchVars
  <2> QED BY <1>0, <1>1, <2>1, StepUnmoved DEF SlotsAgree, Reading, Writing
<1>5. CASE GreedyReadClosed
  <2>1. pc' = "closed" /\ buf' = << >> /\ UNCHANGED replies
    BY <1>5 DEF GreedyReadClosed, ShutdownClient
  <2> QED BY <1>1, <2>1, StepClosed
<1>6. CASE GreedyReadData
  <2> DEFINE n == ReadLen
  <2>7. PICK b : b = buf \o [k \in 1..n |-> taken + k]
    OBVIOUS
  <2>0. InGreedyRead /\ UNCHANGED slot /\ taken' = taken + n
    BY <1>6 DEF GreedyReadData
  <2>1. n \in Nat
    BY <1>0, <1>6, SizesAssumption DEF GreedyReadData, ReadLen, TypeOK
  <2> HIDE DEF n
  <2>2. b \in Seq(Nat) /\ Len(b) = Len(buf) + n /\ LastBytes(b, taken')
    <3>1. b \in Seq(Nat) /\ Len(b) = Len(buf) + n /\ LastBytes(b, taken + n)
      <4>1. buf \in Seq(Nat) /\ taken \in Nat /\ LastBytes(buf, taken)
        BY <1>1, <1>2, <2>0
      <4>2. PICK d : d = [k \in 1..n |-> taken + k]
        OBVIOUS
      <4>3. d \in Seq(Nat) /\ Len(d) = n /\ \A k \in 1..n : d[k] = taken + k
        BY <2>1, <4>1, <4>2
      <4>4. b = buf \o d
        BY <2>7, <4>2
      <4> QED BY <2>1, <4>1, <4>3, <4>4, MoreBytes
    <3> QED BY <2>0, <3>1
  <2>3. taken' - Len(b) = EndOf(Len(replies))
    BY <1>1, <1>2, <2>0, <2>1, <2>2
  <2>4. CASE DriveReading(b)
    BY <1>0, <1>1, <1>2, <2>0, <2>2, <2>3, <2>4, DriveReadingInStep
  <2>5. CASE buf' = b /\ UNCHANGED <<pc, batchVars, replies>>
    <3>1. Reading' /\ ~Writing' /\ pc' # "parse"
      BY <1>2, <2>0, <2>5 DEF InGreedyRead, Reading, Writing
    <3>2. BufferIsTail'
      BY <1>0, <1>1, <2>2, <2>5, <3>1 DEF BufferIsTail
    <3>3. Aligned'
      BY <1>1, <1>2, <2>0, <2>3, <2>5, <3>1 DEF Aligned, EndOf
    <3> QED BY <1>2, <2>0, <2>5, <3>2, <3>3 DEF StepInv, InStep, ResponseMatchesRequest
  <2>6. DriveReading(b) \/ (buf' = b /\ UNCHANGED <<pc, batchVars, replies>>)
    BY <1>6, <2>7 DEF GreedyReadData, n
  <2> QED BY <2>4, <2>5, <2>6
<1>7. CASE GreedyReadDrained
  <2>1. InGreedyRead /\ UNCHANGED <<slot, taken>> /\ DriveReading(buf)
    BY <1>7 DEF GreedyReadDrained
  <2> QED BY <1>0, <1>1, <1>2, <2>1, DriveReadingInStep
<1> QED BY <1>3, <1>4, <1>5, <1>6, <1>7 DEF Read

LEMMA EndParseInStep ==
  ASSUME IInv, IInv', NEW off \in Nat, off <= Len(buf), NEW rs \in Seq(Nat), NEW ka \in BOOLEAN,
         EndParse(off, rs, ka), UNCHANGED <<stream, sent, taken, slot>>, slot = "none",
         LastBytes(buf, taken), sent <= Total, ResponseMatchesRequest',
         \/ rs # << >> /\ ~ka /\ off = Len(buf)
         \/ /\ Len(replies') <= Len(stream)
            /\ taken - Len(buf) + off = EndIn(stream, Len(replies'))
  PROVE  StepInv'
<1>0. /\ buf \in Seq(Nat) /\ Len(buf) \in Nat /\ taken \in Nat
  BY DEF IInv, TypeOK
<1>1. Total' = Total /\ keep' = ka /\ pc' # "parse"
  BY DEF Total, EndParse
<1>2. CASE rs # << >>
  <2>1. pc' = "write" /\ processed' = off /\ leftLen' = Len(buf) - off /\ UNCHANGED buf
    BY <1>2 DEF EndParse
  <2>2. Writing' /\ ~Reading'
    BY <2>1 DEF Writing, Reading
  <2>3. BufferIsTail'
    BY <1>0, <1>1, <2>1 DEF BufferIsTail
  <2>4. CASE ~ka /\ off = Len(buf)
    <3>1. Final'
      BY <1>0, <1>1, <2>1, <2>2, <2>4 DEF Final
    <3> QED BY <2>3, <3>1 DEF StepInv, InStep
  <2>5. CASE /\ Len(replies') <= Len(stream)
             /\ taken - Len(buf) + off = EndIn(stream, Len(replies'))
    <3>1. taken' - leftLen' = taken - Len(buf) + off
      BY <1>0, <2>1
    <3> QED BY <1>1, <2>2, <2>3, <2>5, <3>1 DEF StepInv, InStep, Aligned, EndOf
  <2> QED BY <2>4, <2>5
<1>3. CASE rs = << >>
  <2>1. pc' = "armIn" /\ buf' = SubSeq(buf, off + 1, Len(buf))
    BY <1>3 DEF EndParse
  <2>2. Reading' /\ ~Writing'
    BY <2>1 DEF Writing, Reading
  <2>3. PICK c : c = SubSeq(buf, off + 1, Len(buf))
    OBVIOUS
  <2>4. c \in Seq(Nat) /\ Len(c) = Len(buf) - off /\ LastBytes(c, taken)
    BY <1>0, <2>3, TailOfBytes
  <2>5. BufferIsTail'
    BY <1>1, <2>1, <2>2, <2>3, <2>4 DEF BufferIsTail
  <2>6. taken' - Len(buf') = taken - Len(buf) + off
    <3>1. Len(c) = Len(buf) - off
      BY <2>4
    <3>2. taken' = taken /\ buf' = c
      BY <2>1, <2>3
    <3>3. taken - Len(c) = taken - Len(buf) + off
      BY <1>0, <3>1
    <3> QED BY <3>2, <3>3
  <2> QED BY <1>1, <1>3, <2>2, <2>5, <2>6 DEF StepInv, InStep, Aligned, EndOf
<1> QED BY <1>2, <1>3

(* While the loop parses, the next unprocessed byte is the first of the    *)
(* request after the last reply.                                           *)
LEMMA AtNextRequest ==
  ASSUME IInv, StepInv, pc = "parse", processed < Len(buf)
  PROVE  /\ Len(replies) + 1 \in DOMAIN stream
         /\ Unprocessed[1] = EndOf(Len(replies)) + 1 /\ Unprocessed # << >>
         /\ Unprocessed \in Seq(Nat) /\ Len(Unprocessed) = Len(buf) - processed
         /\ IsRequestStart(Unprocessed[1])
         /\ RequestAt(Unprocessed[1]) = Len(replies) + 1
<1>0. /\ TypeOK /\ Aligned /\ sent <= Total /\ LastBytes(buf, taken)
      /\ buf \in Seq(Nat) /\ Len(buf) \in Nat /\ processed \in Nat
      /\ taken \in Nat /\ sent \in Nat /\ taken <= sent
      /\ Len(replies) \in Nat /\ Len(stream) \in Nat
  <2>1. TypeOK /\ slot = "none"
    BY DEF IInv, TypeOK, SlotsAgree
  <2>2. ~Final
    BY <2>1 DEF Final, Writing
  <2>3. stream \in Seq(Request)
    BY <2>1, StreamsAssumption DEF TypeOK
  <2> QED BY <2>1, <2>2, <2>3 DEF StepInv, InStep, BufferIsTail, TypeOK
<1> DEFINE n == Len(replies)
<1>1. /\ n \in 0..Len(stream) /\ EndOf(n) = taken - Len(buf) + processed
  BY <1>0 DEF Aligned
<1>2. n < Len(stream)
  <2>1. EndOf(n) < taken
    BY <1>0, <1>1
  <2>2. EndOf(n) < Total
    BY <1>0, <1>1, <2>1, TotalIsEnd
  <2>3. n # Len(stream)
    BY <1>0, <1>1, <2>2, TotalIsEnd
  <2> QED BY <1>0, <1>1, <2>3
<1>3. /\ Unprocessed \in Seq(Nat) /\ Len(Unprocessed) = Len(buf) - processed
      /\ Unprocessed[1] = buf[processed + 1]
  BY <1>0, SubSeqOfNat DEF Unprocessed
<1>4. Unprocessed[1] = EndOf(n) + 1
  <2>1. processed + 1 \in 1..Len(buf)
    BY <1>0
  <2>2. buf[processed + 1] = taken - Len(buf) + (processed + 1)
    BY <1>0, <2>1 DEF LastBytes
  <2> QED BY <1>0, <1>1, <1>3, <2>2
<1>5. Unprocessed # << >>
  BY <1>0, <1>3
<1>6. DOMAIN stream = 1..Len(stream)
  BY <1>0, StreamsAssumption DEF TypeOK
<1>7. n + 1 \in DOMAIN stream
  BY <1>0, <1>2, <1>6
<1>8. IsRequestStart(Unprocessed[1]) /\ RequestAt(Unprocessed[1]) = n + 1
  BY <1>0, <1>1, <1>2, <1>4, NextRequest
<1> QED BY <1>3, <1>4, <1>5, <1>7, <1>8

(* What the parser says of it.                                             *)
LEMMA ParsedNext ==
  ASSUME IInv, StepInv, pc = "parse", processed < Len(buf)
  PROVE  LET q == stream[Len(replies) + 1]
             res == ParseResult(Unprocessed)
         IN  /\ res.step = "respond" => /\ res.request = Len(replies) + 1
                                        /\ res.consumed = q.last - q.first + 1
                                        /\ res.keep = (q.kind = "keep")
                                        /\ q.kind # "reject"
                                        /\ Len(Unprocessed) > q.last - q.first
             /\ res.step = "reject" => /\ q.kind = "reject"
                                       /\ Len(Unprocessed) > q.hdr - q.first
<1> DEFINE r == Len(replies) + 1
<1>1. IsRequestStart(Unprocessed[1]) /\ RequestAt(Unprocessed[1]) = r
  BY AtNextRequest
<1> HIDE DEF r
<1>2. ParseResult(Unprocessed) =
        LET q == stream[r]
            have(p) == Len(Unprocessed) > p - q.first
        IN  IF ~have(q.hdr) \/ (q.kind # "reject" /\ ~have(q.last))
            THEN [step |-> "more", consumed |-> 0, request |-> r, keep |-> TRUE]
            ELSE IF q.kind = "reject"
            THEN [step |-> "reject", consumed |-> 0, request |-> r, keep |-> FALSE]
            ELSE [step |-> "respond", consumed |-> q.last - q.first + 1,
                  request |-> r, keep |-> q.kind = "keep"]
  BY <1>1 DEF ParseResult
<1> QED BY <1>2 DEF r

(* Where a response leaves the parser.                                     *)
LEMMA RespondMoves ==
  ASSUME IInv, StepInv, Parsing("respond")
  PROVE  LET n == Len(replies)
             off == processed + ParseResult(Unprocessed).consumed
         IN  /\ n + 1 \in DOMAIN stream /\ ParseResult(Unprocessed).request = n + 1
             /\ off \in Nat /\ off <= Len(buf)
             /\ taken - Len(buf) + off = EndIn(stream, n + 1)
<1> DEFINE n == Len(replies)
           c == ParseResult(Unprocessed).consumed
<1>0. /\ TypeOK /\ Aligned /\ pc = "parse" /\ processed < Len(buf)
      /\ Len(buf) \in Nat /\ processed \in Nat /\ taken \in Nat /\ n \in Nat
      /\ stream \in Seq(Request) /\ Contiguous(stream)
  <2>1. TypeOK /\ slot = "none" /\ pc = "parse" /\ processed < Len(buf)
    BY DEF IInv, TypeOK, SlotsAgree, Parsing
  <2>2. ~Final
    BY <2>1 DEF Final, Writing
  <2> QED BY <2>1, <2>2, StreamsAssumption DEF StepInv, InStep, TypeOK
<1>1. /\ n + 1 \in DOMAIN stream /\ ParseResult(Unprocessed).request = n + 1
      /\ c = stream[n + 1].last - stream[n + 1].first + 1
      /\ Len(buf) - processed > stream[n + 1].last - stream[n + 1].first
  BY <1>0, AtNextRequest, ParsedNext DEF Parsing
<1> DEFINE k == n + 1
<1>2. k \in 1..Len(stream) /\ k - 1 = n /\ k # 0
  BY <1>0, <1>1
<1>6. n \in 0..Len(stream)
  BY <1>0, <1>2
<1>3. /\ c = stream[k].last - stream[k].first + 1
      /\ Len(buf) - processed > stream[k].last - stream[k].first
      /\ taken - Len(buf) + processed = EndIn(stream, n)
  BY <1>0, <1>1 DEF Aligned, EndOf
<1> HIDE DEF n, k, c
<1>4. /\ stream[k].first = EndIn(stream, n) + 1 /\ EndIn(stream, n) \in Nat
      /\ stream[k].first \in Nat /\ stream[k].last \in Nat /\ stream[k].first <= stream[k].last
  <2>1. /\ stream[k].first = EndIn(stream, k - 1) + 1
        /\ stream[k].first \in Nat /\ stream[k].last \in Nat /\ stream[k].hdr \in Nat
        /\ stream[k].first <= stream[k].hdr /\ stream[k].hdr <= stream[k].last
    BY <1>0, <1>2, RequestsInOrder
  <2>2. EndIn(stream, n) \in Nat
    BY <1>0, <1>6, RequestsInOrder
  <2> QED BY <1>2, <2>1, <2>2
<1>5. /\ processed + c \in Nat /\ processed + c <= Len(buf)
      /\ taken - Len(buf) + (processed + c) = stream[k].last
  <2>1. PICK f, l, e, lb : /\ f = stream[k].first /\ l = stream[k].last /\ e = EndIn(stream, n)
                           /\ lb = Len(buf)
    OBVIOUS
  <2>2. /\ c = l - f + 1 /\ lb - processed > l - f /\ taken - lb + processed = e /\ f = e + 1
        /\ f \in Nat /\ l \in Nat /\ e \in Nat /\ f <= l /\ lb \in Nat /\ processed \in Nat
        /\ taken \in Nat
    BY <1>0, <1>3, <1>4, <2>1
  <2>3. processed + c \in Nat /\ processed + c <= lb /\ taken - lb + (processed + c) = l
    BY <2>2
  <2> QED BY <2>1, <2>3
<1>7. EndIn(stream, k) = stream[k].last
  BY <1>2 DEF EndIn
<1> QED BY <1>1, <1>5, <1>7 DEF n, k, c

LEMMA ParseInStep ==
  ASSUME NothingBehindFullBatch, IInv, IInv', ReplyInv, StepInv, Parse
  PROVE  StepInv'
<1>0. /\ pc = "parse" /\ slot = "none" /\ TypeOK /\ Aligned /\ Len(buf) < BUF_SIZE
      /\ LastBytes(buf, taken) /\ sent <= Total /\ ResponseMatchesRequest
      /\ UNCHANGED <<stream, sent, taken, slot>>
  <2>1. pc = "parse" /\ ParseFrame
    BY DEF Parse, ProcessRespond, ProcessRespondOverflow, ProcessReject, ProcessNeedMore,
      ProcessedAll, Parsing
  <2>2. slot = "none" /\ TypeOK
    BY <2>1 DEF IInv, SlotsAgree, TypeOK
  <2>3. ~Final
    BY <2>1, <2>2 DEF Final, Writing
  <2> QED BY <2>1, <2>2, <2>3 DEF ParseFrame, clientVars, StepInv, BufferIsTail, InStep
<1>1. /\ buf \in Seq(Nat) /\ Len(buf) \in Nat /\ processed \in Nat /\ processed <= Len(buf)
      /\ batch \in Seq(Nat) /\ Len(batch) \in Nat /\ replies \in Seq(Nat) /\ Len(replies) \in Nat
      /\ taken \in Nat /\ sent \in Nat /\ taken <= sent /\ keep \in BOOLEAN
      /\ MAX_PIPELINED_RESPONSES \in Nat \ {0} /\ BUF_SIZE \in Nat
      /\ stream \in Seq(Request) /\ Contiguous(stream) /\ stream \in Streams
      /\ Len(batch) <= Len(replies)
  <2>2. Len(batch) <= Len(replies)
    BY <1>0 DEF ReplyInv, BatchIsTail
  <2>1. processed <= Len(buf)
    BY <1>0 DEF IInv, OffsetsInside
  <2> QED BY <1>0, <2>1, <2>2, SizesAssumption, StreamsAssumption DEF TypeOK
<1>2. Total' = Total
  BY <1>0 DEF Total
<1>7. DOMAIN replies = 1..Len(replies) /\ \A m \in 1..Len(replies) : replies[m] \in {m, Bad}
  <2>1. DOMAIN replies = 1..Len(replies)
    BY <1>1
  <2> QED BY <1>0, <2>1 DEF ResponseMatchesRequest
<1>8. ASSUME NEW rs, NEW x \in {Len(replies) + 1, Bad}, DOMAIN rs = 1..(Len(replies) + 1),
             rs[Len(replies) + 1] = x, \A i \in 1..Len(replies) : rs[i] = replies[i]
      PROVE  \A m \in DOMAIN rs : rs[m] \in {m, Bad}
  <2> TAKE m \in DOMAIN rs
  <2>1. CASE m = Len(replies) + 1
    BY <1>8, <2>1
  <2>2. CASE m # Len(replies) + 1
    <3>1. m \in 1..Len(replies)
      <4>1. Len(replies) \in Nat
        BY <1>1
      <4> QED BY <1>8, <2>2, <4>1
    <3> QED BY <1>7, <1>8, <3>1
  <2> QED BY <2>1, <2>2
<1>3. CASE ProcessRespond
  <2> DEFINE c == ParseResult(Unprocessed).consumed
  <2>1. /\ Parsing("respond") /\ UNCHANGED <<pc, buf>> /\ processed' = processed + c
        /\ batch' = Append(batch, ParseResult(Unprocessed).request)
        /\ replies' = Append(replies, ParseResult(Unprocessed).request)
    BY <1>3 DEF ProcessRespond
  <2>2. /\ Len(replies) + 1 \in DOMAIN stream
        /\ ParseResult(Unprocessed).request = Len(replies) + 1
        /\ processed + c \in Nat /\ processed + c <= Len(buf)
        /\ taken - Len(buf) + (processed + c) = EndIn(stream, Len(replies) + 1)
    BY <2>1, RespondMoves
  <2> HIDE DEF c
  <2>3. PICK b, rs : b = batch' /\ rs = replies'
    OBVIOUS
  <2>4. /\ Len(b) = Len(batch) + 1 /\ DOMAIN rs = 1..(Len(replies) + 1)
        /\ Len(rs) = Len(replies) + 1 /\ rs[Len(replies) + 1] = Len(replies) + 1
        /\ \A i \in 1..Len(replies) : rs[i] = replies[i]
    BY <1>1, <2>1, <2>2, <2>3
  <2>5. ResponseMatchesRequest'
    <3>2. \A m \in DOMAIN rs : rs[m] \in {m, Bad}
      BY <1>8, <2>4
    <3> QED BY <2>3, <3>2 DEF ResponseMatchesRequest
  <2>6. ~Reading' /\ ~Writing'
    BY <1>0, <2>1 DEF Reading, Writing
  <2>7. BufferIsTail'
    BY <1>0, <1>2, <2>1, <2>6 DEF BufferIsTail
  <2>8. Aligned'
    <3>1. Len(rs) - Len(b) = Len(replies) - Len(batch)
      BY <1>1, <2>4
    <3>2. taken - Len(buf) = EndIn(stream, Len(replies) - Len(batch))
      BY <1>0 DEF Aligned, EndOf
    <3>3. Len(rs) <= Len(stream)
      BY <1>1, <2>2, <2>4
    <3> QED BY <1>0, <2>1, <2>2, <2>3, <2>4, <2>6, <3>1, <3>2, <3>3 DEF Aligned, EndOf
  <2> QED BY <2>5, <2>7, <2>8 DEF StepInv, InStep
<1>4. CASE ProcessRespondOverflow
  <2> DEFINE off == processed + ParseResult(Unprocessed).consumed
  <2>1. /\ Parsing("respond") /\ Len(batch) = MAX_PIPELINED_RESPONSES
        /\ EndParse(off, batch, FALSE) /\ UNCHANGED replies
    BY <1>4 DEF ProcessRespondOverflow
  <2>2. /\ Len(replies) + 1 \in DOMAIN stream /\ off \in Nat /\ off <= Len(buf)
        /\ taken - Len(buf) + off = EndIn(stream, Len(replies) + 1)
    BY <2>1, RespondMoves
  <2> HIDE DEF off
  <2>3. off = Len(buf)
    <3>1. SUFFICES ASSUME off < Len(buf) PROVE FALSE
      BY <1>1, <2>2
    <3> DEFINE n == Len(replies)
               M == MAX_PIPELINED_RESPONSES
               i == n - M + 1
    <3>2. taken - Len(buf) = EndIn(stream, n - M) /\ n - M \in Nat /\ n + 1 \in 1..Len(stream)
      <4>1. EndIn(stream, n - M) = taken - Len(buf)
        BY <1>0, <2>1 DEF Aligned, EndOf
      <4>2. n - M \in Nat
        BY <1>1, <2>1
      <4> QED BY <1>1, <2>2, <4>1, <4>2
    <3>3. Len(stream) \in Nat /\ DOMAIN stream = 1..Len(stream)
      BY <1>1
    <3>4. n + 1 # Len(stream)
      <4>1. EndIn(stream, n + 1) < taken
        BY <1>1, <2>2, <3>1
      <4>2. Total = EndIn(stream, Len(stream)) /\ Total \in Nat
        BY <1>0, TotalIsEnd DEF EndOf
      <4> QED BY SMTT(30), <1>0, <1>1, <4>1, <4>2
    <3>5. i \in DOMAIN stream /\ i + M + 1 \in DOMAIN stream /\ i + M = n + 1 /\ i - 1 = n - M
      <4>1. /\ n \in Nat /\ M \in Nat \ {0} /\ n - M \in Nat /\ n + 1 <= Len(stream)
            /\ n + 1 # Len(stream) /\ Len(stream) \in Nat
        <5>1. n \in Nat /\ M \in Nat \ {0}
          BY <1>1
        <5> HIDE DEF n, M
        <5>2. n + 1 \in 1..Len(stream) /\ Len(stream) \in Nat /\ n - M \in Nat
          BY <3>2, <3>3
        <5> QED BY <3>4, <5>1, <5>2
      <4> HIDE DEF n, M
      <4>2. /\ i \in 1..Len(stream) /\ i + M + 1 \in 1..Len(stream) /\ i + M = n + 1
            /\ i - 1 = n - M
        BY <4>1
      <4> QED BY <3>3, <4>2
    <3>6. stream[i + M].last - stream[i].first + 1 >= BUF_SIZE - 1
      BY <1>1, <3>5 DEF NothingBehindFullBatch
    <3>7. i \in 1..Len(stream) /\ i + M \in 1..Len(stream) /\ i + M # 0
      BY <3>2, <3>3, <3>5
    <3> HIDE DEF i, n, M
    <3>8. stream[i].first = EndIn(stream, i - 1) + 1 /\ stream[i].first \in Nat
      BY <1>1, <3>7, RequestsInOrder
    <3>9. stream[i + M].last = EndIn(stream, i + M) /\ stream[i + M].last \in Nat
      <4>1. stream[i + M].last \in Nat
        BY <1>1, <3>7, RequestsInOrder
      <4> QED BY <3>7, <4>1 DEF EndIn
    <3>10. /\ stream[i + M].last = taken - Len(buf) + off
           /\ stream[i].first = taken - Len(buf) + 1
      BY <2>2, <3>2, <3>5, <3>8, <3>9 DEF n
    <3>11. PICK f, l : f = stream[i].first /\ l = stream[i + M].last
      OBVIOUS
    <3>12. l - f + 1 >= BUF_SIZE - 1 /\ l = taken - Len(buf) + off /\ f = taken - Len(buf) + 1
      BY <3>6, <3>10, <3>11
    <3>13. off >= BUF_SIZE - 1
      BY <1>1, <2>2, <3>12
    <3> QED BY <1>0, <1>1, <2>2, <3>1, <3>13
  <2>4. batch # << >>
    BY <1>1, <2>1
  <2>5. ResponseMatchesRequest'
    BY <1>0, <2>1 DEF ResponseMatchesRequest
  <2>6. FALSE \in BOOLEAN /\ batch \in Seq(Nat)
    BY <1>1
  <2> QED BY <1>0, <2>1, <2>2, <2>3, <2>4, <2>5, <2>6, EndParseInStep
<1>5. CASE ProcessReject
  <2>1. FALSE \in BOOLEAN /\ Len(buf) \in Nat /\ Len(buf) <= Len(buf)
    BY <1>1
  <2>2. CASE /\ Len(batch) = MAX_PIPELINED_RESPONSES /\ UNCHANGED replies
             /\ EndParse(Len(buf), batch, FALSE)
    <3>1. batch # << >> /\ batch \in Seq(Nat)
      BY <1>1, <2>2
    <3>2. ResponseMatchesRequest'
      BY <1>0, <2>2 DEF ResponseMatchesRequest
    <3> QED BY <1>0, <2>1, <2>2, <3>1, <3>2, EndParseInStep
  <2>3. CASE replies' = Append(replies, Bad) /\ EndParse(Len(buf), Append(batch, Bad), FALSE)
    <3>1. PICK b, rs : b = Append(batch, Bad) /\ rs = replies'
      OBVIOUS
    <3>2. Bad \in Nat
      BY DEF Bad
    <3>3. b \in Seq(Nat) /\ Len(b) = Len(batch) + 1
      BY <1>1, <3>1, <3>2
    <3>4. b # << >>
      BY <1>1, <3>3
    <3>5. /\ DOMAIN rs = 1..(Len(replies) + 1) /\ rs[Len(replies) + 1] = Bad
          /\ \A i \in 1..Len(replies) : rs[i] = replies[i]
      BY <1>1, <2>3, <3>1, <3>2
    <3>6. \A m \in DOMAIN rs : rs[m] \in {m, Bad}
      BY <1>8, <3>5
    <3>7. ResponseMatchesRequest'
      BY <3>1, <3>6 DEF ResponseMatchesRequest
    <3>8. EndParse(Len(buf), b, FALSE)
      BY <2>3, <3>1
    <3> QED BY <1>0, <2>1, <3>3, <3>4, <3>7, <3>8, EndParseInStep
  <2> QED BY <1>5, <2>2, <2>3 DEF ProcessReject
<1>6. CASE ProcessNeedMore \/ ProcessedAll
  <2>1. EndParse(processed, batch, keep) /\ UNCHANGED replies
    BY <1>6 DEF ProcessNeedMore, ProcessedAll
  <2>2. ResponseMatchesRequest'
    BY <1>0, <2>1 DEF ResponseMatchesRequest
  <2>3. /\ Len(replies') <= Len(stream)
        /\ taken - Len(buf) + processed = EndIn(stream, Len(replies'))
    BY <1>0, <2>1 DEF Aligned, EndOf
  <2> QED BY <1>0, <1>1, <2>1, <2>2, <2>3, EndParseInStep
<1> QED BY <1>3, <1>4, <1>5, <1>6 DEF Parse

LEMMA WriteInStep ==
  ASSUME IInv, IInv', StepInv, Write
  PROVE  StepInv'
<1>0. /\ pc = "write" /\ slot = "none" /\ TypeOK /\ Writing /\ LastBytes(buf, taken)
      /\ sent <= Total /\ ResponseMatchesRequest /\ UNCHANGED clientVars
      /\ (leftLen = 0 \/ processed + leftLen = Len(buf))
  <2>1. pc = "write" /\ UNCHANGED clientVars
    BY DEF Write, Writev, WritevSome, WritevWouldBlock, WritevError, ShutdownClient
  <2>2. slot = "none" /\ TypeOK /\ Writing
    BY <2>1 DEF IInv, SlotsAgree, Writing
  <2> QED BY <2>1, <2>2 DEF StepInv, BufferIsTail, InStep
<1>1. /\ UNCHANGED <<stream, sent>> /\ Total' = Total /\ sent' <= Total'
      /\ buf \in Seq(Nat) /\ Len(buf) \in Nat /\ processed \in Nat /\ leftLen \in Nat
      /\ taken \in Nat /\ replies \in Seq(Nat)
  BY <1>0 DEF clientVars, Total, TypeOK
<1>2. CASE WritevWouldBlock
  <2>1. /\ pc' = "armOut"
        /\ UNCHANGED <<slot, taken, buf, processed, leftLen, replies, batch, keep>>
    BY <1>2 DEF WritevWouldBlock, batchVars
  <2>2. ~Reading' /\ Writing' /\ ~Reading
    BY <1>0, <2>1 DEF Reading, Writing
  <2> QED BY <1>0, <1>1, <2>1, <2>2, StepUnmoved
<1>3. CASE WritevError
  <2>1. pc' = "closed" /\ buf' = << >> /\ UNCHANGED replies
    BY <1>3 DEF WritevError, ShutdownClient
  <2> QED BY <1>1, <2>1, StepClosed
<1>4. ASSUME NEW n \in 1..SendBuffer, WritevSome(n) PROVE StepInv'
  <2>0. UNCHANGED <<taken, slot>>
    BY <1>4 DEF WritevSome
  <2>1. CASE written + n < BatchBytes
    <3>1. UNCHANGED <<pc, slot, buf, processed, leftLen, batch, keep, replies>>
      BY <1>4, <2>1 DEF WritevSome
    <3> QED BY <1>1, <2>0, <3>1, StepUnmoved DEF Reading, Writing
  <2>2. CASE ~(written + n < BatchBytes) /\ leftLen > 0
    <3>1. DriveReading(Leftover)
      BY <1>4, <2>2 DEF WritevSome
    <3>2. ~Final
      BY <1>0, <1>1, <2>2 DEF Final
    <3>3. Len(replies) <= Len(stream) /\ taken - leftLen = EndOf(Len(replies))
      BY <1>0, <3>2 DEF StepInv, InStep, Aligned
    <3>4. PICK b : b = Leftover
      OBVIOUS
    <3>5. processed + leftLen = Len(buf) /\ b = SubSeq(buf, processed + 1, Len(buf))
      <4>1. leftLen # 0
        BY <1>1, <2>2
      <4>2. processed + leftLen = Len(buf)
        BY <1>0, <4>1
      <4> QED BY <3>4, <4>2 DEF Leftover
    <3>6. b \in Seq(Nat) /\ Len(b) = Len(buf) - processed /\ LastBytes(b, taken)
      <4>1. processed <= Len(buf)
        BY <1>1, <3>5
      <4> QED BY ZenonT(30), <1>0, <1>1, <3>5, <4>1, TailOfBytes
    <3>7. taken' - Len(b) = EndOf(Len(replies))
      <4>1. Len(b) = leftLen
        BY <1>1, <3>5, <3>6
      <4> QED BY <2>0, <3>3, <4>1
    <3> QED BY <1>0, <1>1, <2>0, <3>1, <3>3, <3>4, <3>6, <3>7, DriveReadingInStep
  <2>3. CASE ~(written + n < BatchBytes) /\ ~(leftLen > 0) /\ keep
    <3>1. pc' = "armIn" /\ buf' = << >> /\ UNCHANGED replies
      BY <1>4, <2>3 DEF WritevSome
    <3>2. Reading' /\ ~Writing'
      BY <1>0, <2>0, <3>1 DEF Reading, Writing
    <3>3. ~Final
      BY <1>0, <2>3 DEF Final
    <3>4. Len(replies) <= Len(stream) /\ taken - leftLen = EndOf(Len(replies))
      BY <1>0, <3>3 DEF StepInv, InStep, Aligned
    <3>5. Len(buf') = 0 /\ leftLen = 0
      BY <1>1, <2>3, <3>1
    <3>6. taken' - Len(buf') = taken - leftLen
      BY <2>0, <3>5
    <3>7. BufferIsTail'
      BY <1>1, <2>0, <3>1, <3>2, NoBytes DEF BufferIsTail
    <3>8. Aligned'
      BY <1>1, <3>1, <3>2, <3>4, <3>6 DEF Aligned, EndOf
    <3> QED BY <1>0, <3>1, <3>7, <3>8 DEF StepInv, InStep, ResponseMatchesRequest
  <2>4. CASE ~(written + n < BatchBytes) /\ ~(leftLen > 0) /\ ~keep
    <3>1. pc' = "closed" /\ buf' = << >> /\ UNCHANGED replies
      BY <1>4, <2>4 DEF WritevSome
    <3> QED BY <1>1, <3>1, StepClosed
  <2> QED BY <2>1, <2>2, <2>3, <2>4
<1> QED BY <1>2, <1>3, <1>4 DEF Write, Writev

LEMMA OtherInStep ==
  ASSUME IInv, IInv', StepInv, Arm \/ Event \/ Client \/ UNCHANGED vars
  PROVE  StepInv'
<1>0. SlotsAgree /\ TypeOK /\ sent <= Total
  BY DEF IInv, StepInv, BufferIsTail
<1>1. CASE Arm
  <2>1. /\ UNCHANGED <<stream, sent, taken, buf, processed, leftLen, replies, batch, keep>>
        /\ \/ pc = "armIn" /\ pc' = "wait" /\ slot' = "reading"
           \/ pc = "armOut" /\ pc' = "wait" /\ slot' = "writing"
    BY <1>1 DEF Arm, ArmIn, ArmOut, batchVars, clientVars
  <2> QED BY <1>0, <2>1, StepUnmoved DEF SlotsAgree, Reading, Writing, Total
<1>2. CASE EventHup
  BY <1>2, StepClosed DEF EventHup, ShutdownClient, clientVars
<1>3. CASE EventIn
  <2>1. slot = "reading" /\ pc = "wait"
    BY <1>0, <1>3 DEF EventIn, Fetch, SlotsAgree, TypeOK
  <2>2. /\ UNCHANGED <<stream, sent, taken, buf, processed, leftLen, replies, batch, keep>>
        /\ slot' = "none" /\ pc' = "read"
    BY <1>3, <2>1 DEF EventIn, batchVars, clientVars
  <2> QED BY <1>0, <2>1, <2>2, StepUnmoved DEF Reading, Writing, Total
<1>4. CASE EventOut
  <2>1. slot = "writing" /\ pc = "wait"
    BY <1>0, <1>4 DEF EventOut, Fetch, SlotsAgree, TypeOK
  <2>2. /\ UNCHANGED <<stream, sent, taken, buf, processed, leftLen, replies, batch, keep>>
        /\ slot' = "none" /\ pc' = "write"
    BY <1>4, <2>1 DEF EventOut, batchVars, clientVars
  <2> QED BY <1>0, <2>1, <2>2, StepUnmoved DEF Reading, Writing, Total
<1>5. CASE EventGone \/ Client \/ UNCHANGED vars
  <2>1. UNCHANGED <<stream, taken, buf, processed, leftLen, replies, batch, keep, pc, slot>>
    BY <1>5 DEF EventGone, Client, ClientSend, ClientShutdown, ClientReset, ClientReceive,
      ServerVars, vars, batchVars, clientVars
  <2>2. sent' = sent \/ \E n \in 1..(Total - sent) : sent' = sent + n
    BY <1>5 DEF EventGone, Client, ClientSend, ClientShutdown, ClientReset, ClientReceive,
      vars, clientVars
  <2>3. sent' <= Total
    BY <1>0, <2>2, TotalIsEnd DEF TypeOK
  <2> QED BY <2>1, <2>3, StepUnmoved DEF Reading, Writing, Total
<1> QED BY <1>1, <1>2, <1>3, <1>4, <1>5 DEF Event

LEMMA InitInStep == Init => StepInv
<1> SUFFICES ASSUME Init PROVE StepInv
  OBVIOUS
<1>0. TypeOK
  BY InitInv DEF IInv
<1>1. /\ replies = << >> /\ buf = << >> /\ pc = "handed" /\ slot = "none" /\ taken = 0 /\ sent = 0
  BY DEF Init
<1>2. Len(replies) = 0 /\ Len(buf) = 0 /\ DOMAIN replies = {} /\ Len(stream) \in Nat
  BY <1>0, <1>1, StreamsAssumption DEF TypeOK
<1>3. LastBytes(buf, taken) /\ sent <= Total
  BY <1>0, <1>1, NoBytes, TotalIsEnd
<1>4. BufferIsTail
  BY <1>1, <1>3 DEF BufferIsTail, Writing
<1>5. taken - Len(buf) = EndOf(Len(replies)) /\ Len(replies) <= Len(stream)
  <2>1. EndOf(0) = 0
    BY DEF EndOf, EndIn
  <2>2. taken - Len(buf) = 0 /\ Len(replies) = 0 /\ 0 <= Len(stream)
    <3>1. Len(buf) = 0 /\ Len(replies) = 0 /\ Len(stream) \in Nat
      BY <1>2
    <3>2. taken = 0
      BY <1>1
    <3> QED BY <3>1, <3>2
  <2> QED BY <2>1, <2>2
<1>6. Aligned
  BY <1>1, <1>5 DEF Aligned, Writing
<1> QED BY <1>2, <1>4, <1>6 DEF StepInv, InStep, ResponseMatchesRequest

LEMMA AlwaysInStep ==
  ASSUME NothingBehindFullBatch
  PROVE  Spec => [](IInv /\ ReplyInv /\ StepInv)
<1>1. IInv /\ ReplyInv /\ StepInv /\ [Next]_vars => IInv' /\ ReplyInv' /\ StepInv'
  <2> SUFFICES ASSUME IInv, ReplyInv, StepInv, [Next]_vars PROVE IInv' /\ ReplyInv' /\ StepInv'
    OBVIOUS
  <2>1. IInv'
    BY ReadInv, ParseInv, WriteInv, ArmInv, EventInv, ClientInv, StutterInv DEF Next, Server
  <2>2. ReplyInv'
    BY <2>1, ReadReplies, ParseReplies, WriteReplies, OtherReplies DEF Next, Server
  <2>3. StepInv'
    BY <2>1, ReadInStep, ParseInStep, WriteInStep, OtherInStep DEF Next, Server
  <2> QED BY <2>1, <2>2, <2>3
<1>2. Init => IInv /\ ReplyInv /\ StepInv
  BY InitInv, InitReplies, InitInStep
<1> QED BY <1>1, <1>2, PTL DEF Spec

(* Pipelining, leftovers and buffer shifts neither skip nor repeat a       *)
(* request: the m-th response is the one to the m-th request, as long as   *)
(* the requests are not so short that one more than a batch of them leaves *)
(* room in the buffer.                                                     *)
THEOREM AnsweredInStep ==
  ASSUME NothingBehindFullBatch
  PROVE  Spec => []ResponseMatchesRequest
<1>1. IInv /\ ReplyInv /\ StepInv => ResponseMatchesRequest
  BY DEF StepInv, InStep
<1> QED BY AlwaysInStep, <1>1, PTL

-----------------------------------------------------------------------------
(* Closing.                                                                *)

CloseInv == ExcusedClose /\ CloseAbandonsNothing

LEMMA ExcusedStays ==
  ASSUME Excused, UNCHANGED stream, replies \in Seq(Nat),
         replies' = replies \/ \E r \in Nat : replies' = Append(replies, r)
  PROVE  Excused'
<1>1. PICK m \in DOMAIN replies : replies[m] = Bad \/ stream[m].kind = "close"
  BY DEF Excused
<1>2. CASE replies' = replies
  BY <1>1, <1>2 DEF Excused
<1>3. CASE \E r \in Nat : replies' = Append(replies, r)
  <2>1. PICK rs : rs = replies'
    OBVIOUS
  <2>2. m \in DOMAIN rs /\ rs[m] = replies[m]
    <3>1. PICK r \in Nat : rs = Append(replies, r)
      BY <1>3, <2>1
    <3>2. m \in 1..Len(replies) /\ DOMAIN rs = 1..(Len(replies) + 1) /\ Len(replies) \in Nat
      BY <3>1
    <3> QED BY <3>1, <3>2
  <2> QED BY <1>1, <2>1, <2>2 DEF Excused
<1> QED BY <1>2, <1>3

LEMMA BadExcuses ==
  ASSUME replies \in Seq(Nat), replies' = Append(replies, Bad)
  PROVE  Excused'
<1>1. Bad \in Nat
  BY DEF Bad
<1>2. PICK rs : rs = replies'
  OBVIOUS
<1>3. Len(replies) + 1 \in DOMAIN rs /\ rs[Len(replies) + 1] = Bad
  BY <1>1, <1>2
<1> QED BY <1>2, <1>3 DEF Excused

LEMMA DriveReadingExcused ==
  ASSUME replies \in Seq(Nat), NEW b, DriveReading(b)
  PROVE  ExcusedClose'
<1>1. CASE IsFull(b)
  BY <1>1, BadExcuses DEF DriveReading, ExcusedClose
<1>2. CASE ~IsFull(b)
  BY <1>2 DEF DriveReading, ExcusedClose
<1> QED BY <1>1, <1>2

(* A request the batch has no room for is not the first without an excuse. *)
LEMMA FullBatchExcused ==
  ASSUME FullBatchCloses, IInv, ReplyInv, StepInv, pc = "parse", processed < Len(buf),
         Len(batch) = MAX_PIPELINED_RESPONSES,
         Len(Unprocessed) > Needed(stream[Len(replies) + 1]) - stream[Len(replies) + 1].first
  PROVE  Excused
<1> DEFINE n == Len(replies)
           M == MAX_PIPELINED_RESPONSES
           i == (n - M) + 1
           need == Needed(stream[n + 1])
<1>0. /\ TypeOK /\ Aligned /\ Len(buf) < BUF_SIZE /\ Len(batch) <= Len(replies)
  <2>1. TypeOK /\ slot = "none"
    BY DEF IInv, TypeOK, SlotsAgree
  <2>2. ~Final
    BY <2>1 DEF Final, Writing
  <2>3. Len(batch) <= Len(replies)
    BY DEF ReplyInv, BatchIsTail
  <2> QED BY <2>1, <2>2, <2>3 DEF StepInv, InStep, BufferIsTail
<1>1. /\ n \in Nat /\ M \in Nat \ {0} /\ n - M \in Nat
      /\ stream \in Streams /\ stream \in Seq(Request) /\ Contiguous(stream)
      /\ Len(stream) \in Nat /\ DOMAIN stream = 1..Len(stream) /\ DOMAIN replies = 1..n
  <2>1. n \in Nat /\ DOMAIN replies = 1..n /\ M \in Nat \ {0}
    BY <1>0, SizesAssumption DEF TypeOK
  <2>2. stream \in Streams /\ stream \in Seq(Request) /\ Contiguous(stream)
    BY <1>0, StreamsAssumption DEF TypeOK
  <2>3. M <= n
    BY <1>0
  <2>4. n - M \in Nat
    <3> HIDE DEF n, M
    <3> QED BY <2>1, <2>3
  <2> QED BY <2>1, <2>2, <2>4
<1>2. /\ n + 1 \in DOMAIN stream /\ Len(Unprocessed) = Len(buf) - processed
      /\ Len(Unprocessed) > need - stream[n + 1].first
  BY AtNextRequest
<1>3. /\ taken - Len(buf) = EndIn(stream, n - M)
      /\ taken - Len(buf) + processed = EndIn(stream, n)
      /\ Len(buf) \in Nat /\ processed \in Nat /\ taken \in Nat /\ BUF_SIZE \in Nat
  BY <1>0, SizesAssumption DEF Aligned, EndOf, TypeOK
<1> HIDE DEF n, M, need
<1>4. i \in 1..Len(stream) /\ i + M = n + 1 /\ i - 1 = n - M /\ n + 1 \in 1..Len(stream) /\ (n + 1) - 1 = n
  BY <1>1, <1>2
<1>5. /\ stream[i].first = EndIn(stream, n - M) + 1 /\ stream[i].first \in Nat
      /\ stream[n + 1].first = EndIn(stream, n) + 1 /\ stream[n + 1].first \in Nat
      /\ need \in Nat
  <2>1. /\ stream[i].first = EndIn(stream, i - 1) + 1 /\ stream[i].first \in Nat
    BY <1>1, <1>4, RequestsInOrder
  <2> DEFINE k == n + 1
  <2>2. k \in 1..Len(stream) /\ k - 1 = n
    BY <1>4
  <2> HIDE DEF k
  <2>3. /\ stream[k].first = EndIn(stream, k - 1) + 1 /\ stream[k].first \in Nat
        /\ stream[k].hdr \in Nat /\ stream[k].last \in Nat
    BY <1>1, <2>2, RequestsInOrder
  <2> QED BY <1>4, <2>1, <2>2, <2>3 DEF k, need, Needed
<1>6. need - stream[i].first + 1 < BUF_SIZE
  <2>1. PICK f, g, lb : f = stream[i].first /\ g = stream[n + 1].first /\ lb = Len(buf)
    OBVIOUS
  <2>2. /\ f = taken - lb + 1 /\ g = taken - lb + processed + 1 /\ lb - processed > need - g
    BY <1>2, <1>3, <1>5, <2>1
  <2>3. lb \in Nat /\ lb < BUF_SIZE /\ need \in Nat
    BY <1>0, <1>3, <1>5, <2>1
  <2>4. need - f + 1 < BUF_SIZE
    BY <1>3, <2>2, <2>3
  <2> QED BY <2>1, <2>4
<1>7. \E j \in i..(i + M - 1) : stream[j].kind = "close"
  <2>1. \/ need - stream[i].first + 1 >= BUF_SIZE
        \/ \E j \in i..(i + M - 1) : stream[j].kind = "close"
    <3>1. i \in DOMAIN stream /\ i + M \in DOMAIN stream
      BY <1>1, <1>4
    <3>2. \/ Needed(stream[i + M]) - stream[i].first + 1 >= BUF_SIZE
          \/ \E j \in i..(i + M - 1) : stream[j].kind = "close"
      BY <1>1, <3>1 DEF FullBatchCloses, M
    <3> QED BY <1>4, <3>2 DEF need
  <2>2. need - stream[i].first + 1 \in Int
    BY <1>5
  <2> QED BY <1>3, <1>6, <2>1, <2>2
<1>8. PICK j \in i..(i + M - 1) : stream[j].kind = "close"
  BY <1>7
<1>9. j \in 1..n
  <2>1. n \in Nat /\ M \in Nat /\ n - M \in Nat
    BY <1>1
  <2>2. i \in Nat /\ i >= 1 /\ i + M - 1 = n
    BY <2>1
  <2> QED BY <1>8, <2>1, <2>2
<1> QED BY <1>1, <1>8, <1>9 DEF Excused

LEMMA ParseCloses ==
  ASSUME FullBatchCloses, IInv, ReplyInv, StepInv, CloseInv, Parse
  PROVE  CloseInv'
<1>0. /\ pc = "parse" /\ replies \in Seq(Nat) /\ UNCHANGED stream /\ pc' # "closed"
  <2>1. pc = "parse" /\ ParseFrame /\ pc' # "closed"
    BY DEF Parse, ProcessRespond, ProcessRespondOverflow, ProcessReject, ProcessNeedMore,
      ProcessedAll, Parsing, EndParse
  <2> QED BY <2>1 DEF IInv, TypeOK, ParseFrame, clientVars
<1>1. ~keep => Excused
  BY <1>0 DEF CloseInv, ExcusedClose
<1>2. ASSUME Parsing("respond") PROVE /\ processed < Len(buf)
                                      /\ ParseResult(Unprocessed).request = Len(replies) + 1
                                      /\ stream[Len(replies) + 1].kind \in {"keep", "close"}
                                      /\ ParseResult(Unprocessed).keep =
                                           (stream[Len(replies) + 1].kind = "keep")
                                      /\ Len(Unprocessed) > Needed(stream[Len(replies) + 1])
                                           - stream[Len(replies) + 1].first
  <2>1. processed < Len(buf) /\ ParseResult(Unprocessed).step = "respond"
    BY <1>2 DEF Parsing
  <2>2. /\ ParseResult(Unprocessed).request = Len(replies) + 1
        /\ ParseResult(Unprocessed).keep = (stream[Len(replies) + 1].kind = "keep")
        /\ stream[Len(replies) + 1].kind # "reject"
        /\ Len(Unprocessed) > stream[Len(replies) + 1].last - stream[Len(replies) + 1].first
    BY <1>0, <2>1, ParsedNext
  <2>3. stream[Len(replies) + 1] \in Request
    <3>1. Len(replies) + 1 \in DOMAIN stream
      BY <1>0, <2>1, AtNextRequest
    <3>2. stream \in Seq(Request)
      BY StreamsAssumption DEF IInv, TypeOK
    <3> QED BY <3>1, <3>2
  <2>4. stream[Len(replies) + 1].kind \in Kinds
    BY <2>3 DEF Request
  <2> QED BY <2>1, <2>2, <2>4 DEF Kinds, Needed
<1>3. CASE ProcessRespond
  <2>1. /\ Parsing("respond") /\ replies' = Append(replies, ParseResult(Unprocessed).request)
        /\ keep' = (keep /\ ParseResult(Unprocessed).keep)
    BY <1>3 DEF ProcessRespond, KeepAlive
  <2>2. PICK rs : rs = replies'
    OBVIOUS
  <2>3. Len(replies) + 1 \in Nat
    BY <1>0
  <2>4. rs = Append(replies, Len(replies) + 1)
    BY <1>2, <2>1, <2>2
  <2>5. CASE ~keep
    <3>1. Excused'
      BY <1>0, <1>1, <2>2, <2>3, <2>4, <2>5, ExcusedStays
    <3> QED BY <1>0, <3>1 DEF CloseInv, ExcusedClose, CloseAbandonsNothing
  <2>6. CASE keep /\ ~ParseResult(Unprocessed).keep
    <3>1. stream[Len(replies) + 1].kind = "close"
      BY <1>2, <2>1, <2>6
    <3>2. Len(replies) + 1 \in DOMAIN rs
      BY <1>0, <2>3, <2>4
    <3>3. Excused'
      BY <1>0, <2>2, <3>1, <3>2 DEF Excused
    <3> QED BY <1>0, <3>3 DEF CloseInv, ExcusedClose, CloseAbandonsNothing
  <2>7. CASE keep /\ ParseResult(Unprocessed).keep
    BY <1>0, <2>1, <2>7 DEF CloseInv, ExcusedClose, CloseAbandonsNothing
  <2> QED BY <2>5, <2>6, <2>7
<1>4. ASSUME Excused, UNCHANGED replies PROVE CloseInv'
  <2>1. Excused'
    BY <1>0, <1>4, ExcusedStays
  <2> QED BY <1>0, <2>1 DEF CloseInv, ExcusedClose, CloseAbandonsNothing
<1>5. CASE ProcessRespondOverflow
  <2>1. Parsing("respond") /\ Len(batch) = MAX_PIPELINED_RESPONSES /\ UNCHANGED replies
    BY <1>5 DEF ProcessRespondOverflow
  <2>2. Excused
    BY <1>0, <1>2, <2>1, FullBatchExcused
  <2> QED BY <1>4, <2>1, <2>2
<1>6. CASE ProcessReject
  <2>1. CASE replies' = Append(replies, Bad)
    <3>1. Excused'
      BY <1>0, <2>1, BadExcuses
    <3> QED BY <1>0, <3>1 DEF CloseInv, ExcusedClose, CloseAbandonsNothing
  <2>2. CASE Len(batch) = MAX_PIPELINED_RESPONSES /\ UNCHANGED replies
    <3>1. processed < Len(buf) /\ ParseResult(Unprocessed).step = "reject"
      BY <1>6 DEF ProcessReject, Parsing
    <3>2. /\ stream[Len(replies) + 1].kind = "reject"
          /\ Len(Unprocessed) > stream[Len(replies) + 1].hdr - stream[Len(replies) + 1].first
      BY <1>0, <3>1, ParsedNext
    <3>3. Len(Unprocessed) > Needed(stream[Len(replies) + 1]) - stream[Len(replies) + 1].first
      BY <3>2 DEF Needed
    <3>4. Excused
      BY <1>0, <2>2, <3>1, <3>3, FullBatchExcused
    <3> QED BY <1>4, <2>2, <3>4
  <2> QED BY <1>6, <2>1, <2>2 DEF ProcessReject
<1>7. CASE ProcessNeedMore \/ ProcessedAll
  <2>1. UNCHANGED replies /\ keep' = keep
    BY <1>7 DEF ProcessNeedMore, ProcessedAll, EndParse
  <2>2. CASE keep
    BY <1>0, <2>1, <2>2 DEF CloseInv, ExcusedClose, CloseAbandonsNothing
  <2>3. CASE ~keep
    BY <1>1, <1>4, <2>1, <2>3
  <2> QED BY <2>2, <2>3
<1> QED BY <1>3, <1>5, <1>6, <1>7 DEF Parse

(* Steps that close nothing and end nothing.                               *)
LEMMA NothingCloses ==
  ASSUME CloseInv, UNCHANGED <<stream, replies, keep>>, pc # "closed", pc' # "closed",
         pc' = "parse" => pc = "parse", Writing' => Writing
  PROVE  CloseInv'
BY DEF CloseInv, ExcusedClose, CloseAbandonsNothing, Excused

LEMMA ResetCloses ==
  ASSUME IInv', rst', pc' = "closed"
  PROVE  CloseInv'
<1>1. ~Writing'
  BY DEF Writing, IInv, SlotsAgree
<1> QED BY <1>1 DEF CloseInv, ExcusedClose, CloseAbandonsNothing

LEMMA ReadCloses ==
  ASSUME IInv, IInv', ReplyInv, StepInv, CloseInv, Read
  PROVE  CloseInv'
<1>0. /\ SlotsAgree /\ SlotsAgree' /\ TypeOK /\ UNCHANGED clientVars /\ pc # "closed"
  BY DEF IInv, Read, OnNewClientFd, GreedyReadData, GreedyReadDrained,
    GreedyReadWouldBlock, GreedyReadClosed, ShutdownClient, InGreedyRead
<1>1. UNCHANGED <<stream, sent, fin, rst>> /\ replies \in Seq(Nat)
  BY <1>0 DEF clientVars, TypeOK
<1>2. ASSUME NEW b, DriveReading(b) PROVE CloseInv'
  <2>1. pc' # "closed"
    BY <1>2 DEF DriveReading
  <2> QED BY <1>1, <1>2, <2>1, DriveReadingExcused DEF CloseInv, CloseAbandonsNothing
<1>3. CASE OnNewClientFd
  BY <1>0, <1>1, <1>3, NothingCloses DEF OnNewClientFd, batchVars, Writing
<1>4. CASE GreedyReadWouldBlock
  <2>1. /\ UNCHANGED <<replies, keep>> /\ pc \in {"new", "read"}
        /\ \/ pc' = "armIn" /\ UNCHANGED slot
           \/ pc' = "wait" /\ slot' = "reading"
    BY <1>4 DEF GreedyReadWouldBlock, InGreedyRead, batchVars
  <2> QED BY <1>0, <1>1, <2>1, NothingCloses DEF SlotsAgree, Writing
<1>5. CASE GreedyReadData
  <2>1. PICK b : DriveReading(b) \/ UNCHANGED <<pc, batchVars, replies>>
    BY <1>5 DEF GreedyReadData
  <2>2. UNCHANGED slot
    BY <1>5 DEF GreedyReadData
  <2>3. CASE UNCHANGED <<pc, batchVars, replies>>
    BY <1>0, <1>1, <2>2, <2>3, NothingCloses DEF batchVars, Writing
  <2> QED BY <1>2, <2>1, <2>3
<1>6. CASE GreedyReadDrained
  BY <1>2, <1>6 DEF GreedyReadDrained
<1>7. CASE GreedyReadClosed
  <2>1. /\ InGreedyRead /\ taken = sent /\ (rst \/ (fin /\ buf = << >>))
        /\ pc' = "closed" /\ UNCHANGED <<wire, replies>>
    BY <1>7 DEF GreedyReadClosed, ShutdownClient
  <2>2. CASE rst
    BY <1>1, <2>1, <2>2, ResetCloses
  <2>3. CASE fin /\ buf = << >>
    <3>1. Reading /\ ~Final /\ ~Writing'
      BY <1>0, <2>1 DEF InGreedyRead, Reading, SlotsAgree, Final, Writing
    <3>2. Len(replies) <= Len(stream) /\ taken - Len(buf) = EndOf(Len(replies))
      BY <3>1 DEF StepInv, InStep, Aligned
    <3>3. /\ stream \in Seq(Request) /\ Contiguous(stream) /\ Len(replies) \in Nat
          /\ Len(stream) \in Nat /\ DOMAIN stream = 1..Len(stream)
      BY <1>0, <1>1, StreamsAssumption DEF TypeOK
    <3>4. sent = EndIn(stream, Len(replies))
      <4>1. Len(buf) = 0 /\ taken \in Nat
        BY <1>0, <2>3 DEF TypeOK
      <4> QED BY <2>1, <3>2, <4>1 DEF EndOf
    <3>5. ASSUME NEW m \in DOMAIN stream, stream[m].last <= sent PROVE m <= Len(replies)
      <4> DEFINE n == Len(replies)
      <4>1. m \in 0..Len(stream) /\ m # 0 /\ n \in 0..Len(stream)
        BY <3>2, <3>3
      <4>2. EndIn(stream, m) = stream[m].last /\ EndIn(stream, m) <= EndIn(stream, n)
        BY <3>4, <3>5, <4>1 DEF EndIn
      <4> HIDE DEF n
      <4>3. EndIn(stream, m) \in Nat /\ EndIn(stream, n) \in Nat
        BY <3>3, <4>1, RequestsInOrder
      <4>4. ~(n < m)
        BY <3>3, <4>1, <4>2, <4>3, RequestsInOrder
      <4>5. m <= n
        BY <4>1, <4>4
      <4> QED BY <4>5 DEF n
    <3>6. Len(wire) = Len(replies) * ResponseLen
      BY <3>1 DEF ReplyInv, WireReaches
    <3>7. CloseAbandonsNothing'
      BY <1>1, <2>1, <2>3, <3>5, <3>6 DEF CloseAbandonsNothing
    <3> QED BY <2>1, <3>1, <3>7 DEF CloseInv, ExcusedClose
  <2> QED BY <2>1, <2>2, <2>3
<1> QED BY <1>3, <1>4, <1>5, <1>6, <1>7 DEF Read

LEMMA WriteCloses ==
  ASSUME IInv, IInv', CloseInv, Write
  PROVE  CloseInv'
<1>0. /\ pc = "write" /\ slot = "none" /\ Writing /\ replies \in Seq(Nat)
      /\ UNCHANGED <<stream, rst>> /\ leftLen \in Nat
  <2>1. pc = "write" /\ UNCHANGED clientVars
    BY DEF Write, Writev, WritevSome, WritevWouldBlock, WritevError, ShutdownClient
  <2>2. slot = "none" /\ TypeOK /\ Writing
    BY <2>1 DEF IInv, SlotsAgree, Writing
  <2> QED BY <2>1, <2>2 DEF clientVars, TypeOK
<1>1. ~keep => Excused
  BY <1>0 DEF CloseInv, ExcusedClose
<1>2. CASE WritevWouldBlock
  <2>1. pc' = "armOut" /\ UNCHANGED <<replies, keep>>
    BY <1>2 DEF WritevWouldBlock, batchVars
  <2> QED BY <1>0, <2>1, NothingCloses
<1>3. CASE WritevError
  BY <1>0, <1>3, ResetCloses DEF WritevError, ShutdownClient
<1>4. ASSUME NEW n \in 1..SendBuffer, WritevSome(n) PROVE CloseInv'
  <2>0. UNCHANGED slot
    BY <1>4 DEF WritevSome
  <2>1. CASE written + n < BatchBytes
    <3>1. UNCHANGED <<pc, keep, replies>>
      BY <1>4, <2>1 DEF WritevSome
    <3> QED BY <1>0, <3>1, NothingCloses
  <2>2. CASE ~(written + n < BatchBytes) /\ leftLen > 0
    <3>1. DriveReading(Leftover)
      BY <1>4, <2>2 DEF WritevSome
    <3>2. pc' # "closed"
      BY <3>1 DEF DriveReading
    <3> QED BY <1>0, <3>1, <3>2, DriveReadingExcused DEF CloseInv, CloseAbandonsNothing
  <2>3. CASE ~(written + n < BatchBytes) /\ ~(leftLen > 0) /\ keep
    <3>1. pc' = "armIn" /\ UNCHANGED <<replies, keep>>
      BY <1>4, <2>3 DEF WritevSome, batchVars
    <3> QED BY <1>0, <3>1, NothingCloses
  <2>4. CASE ~(written + n < BatchBytes) /\ ~(leftLen > 0) /\ ~keep
    <3>1. pc' = "closed" /\ UNCHANGED replies
      BY <1>4, <2>4 DEF WritevSome
    <3>2. ~Writing'
      BY <1>0, <2>0, <3>1 DEF Writing
    <3>3. Excused
      BY <1>1, <2>4
    <3> QED BY <1>0, <3>1, <3>2, <3>3 DEF CloseInv, ExcusedClose, CloseAbandonsNothing, Excused
  <2> QED BY <2>1, <2>2, <2>3, <2>4
<1> QED BY <1>2, <1>3, <1>4 DEF Write, Writev

LEMMA OtherCloses ==
  ASSUME IInv, IInv', CloseInv, Arm \/ Event \/ Client \/ UNCHANGED vars
  PROVE  CloseInv'
<1>0. SlotsAgree /\ TypeOK
  BY DEF IInv
<1>1. CASE Arm
  <2>1. /\ UNCHANGED <<stream, replies, keep>>
        /\ \/ pc = "armIn" /\ pc' = "wait" /\ slot' = "reading"
           \/ pc = "armOut" /\ pc' = "wait" /\ slot' = "writing"
    BY <1>1 DEF Arm, ArmIn, ArmOut, batchVars, clientVars
  <2> QED BY <2>1, NothingCloses DEF Writing
<1>2. CASE EventHup
  BY <1>2, ResetCloses DEF EventHup, ShutdownClient, clientVars
<1>3. CASE EventIn
  <2>1. slot = "reading" /\ pc = "wait"
    BY <1>0, <1>3 DEF EventIn, Fetch, SlotsAgree, TypeOK
  <2>2. UNCHANGED <<stream, replies, keep>> /\ slot' = "none" /\ pc' = "read"
    BY <1>3, <2>1 DEF EventIn, batchVars, clientVars
  <2> QED BY <2>1, <2>2, NothingCloses DEF Writing
<1>4. CASE EventOut
  <2>1. slot = "writing" /\ pc = "wait"
    BY <1>0, <1>4 DEF EventOut, Fetch, SlotsAgree, TypeOK
  <2>2. UNCHANGED <<stream, replies, keep>> /\ slot' = "none" /\ pc' = "write"
    BY <1>4, <2>1 DEF EventOut, batchVars, clientVars
  <2> QED BY <2>1, <2>2, NothingCloses DEF Writing
<1>5. CASE EventGone \/ Client \/ UNCHANGED vars
  <2>1. /\ UNCHANGED <<stream, wire, replies, keep, pc, slot>>
        /\ (rst => rst') /\ (fin => fin' /\ UNCHANGED sent)
    BY <1>0, <1>5 DEF EventGone, Client, ClientSend, ClientShutdown, ClientReset, ClientReceive,
      ServerVars, vars, batchVars, clientVars, TypeOK
  <2>2. ExcusedClose'
    BY <2>1 DEF CloseInv, ExcusedClose, Excused, Writing
  <2>3. CloseAbandonsNothing'
    BY <2>1 DEF CloseInv, CloseAbandonsNothing
  <2> QED BY <2>2, <2>3 DEF CloseInv
<1> QED BY <1>1, <1>2, <1>3, <1>4, <1>5 DEF Event

LEMMA AlwaysCloseInv ==
  ASSUME NothingBehindFullBatch, FullBatchCloses
  PROVE  Spec => [](IInv /\ ReplyInv /\ StepInv /\ CloseInv)
<1>1. IInv /\ ReplyInv /\ StepInv /\ CloseInv /\ [Next]_vars
        => IInv' /\ ReplyInv' /\ StepInv' /\ CloseInv'
  <2> SUFFICES ASSUME IInv, ReplyInv, StepInv, CloseInv, [Next]_vars
               PROVE  IInv' /\ ReplyInv' /\ StepInv' /\ CloseInv'
    OBVIOUS
  <2>1. IInv'
    BY ReadInv, ParseInv, WriteInv, ArmInv, EventInv, ClientInv, StutterInv DEF Next, Server
  <2>2. ReplyInv'
    BY <2>1, ReadReplies, ParseReplies, WriteReplies, OtherReplies DEF Next, Server
  <2>3. StepInv'
    BY <2>1, ReadInStep, ParseInStep, WriteInStep, OtherInStep DEF Next, Server
  <2>4. CloseInv'
    BY <2>1, ReadCloses, ParseCloses, WriteCloses, OtherCloses DEF Next, Server
  <2> QED BY <2>1, <2>2, <2>3, <2>4
<1>2. Init => IInv /\ ReplyInv /\ StepInv /\ CloseInv
  <2>1. Init => CloseInv
    BY DEF Init, CloseInv, ExcusedClose, CloseAbandonsNothing
  <2> QED BY <2>1, InitInv, InitReplies, InitInStep
<1> QED BY <1>1, <1>2, PTL DEF Spec

(* Unless the client resets the connection, is sent an error or asks for   *)
(* the close, the server closes it only after the client's FIN, with every *)
(* complete request answered and every answer written, as long as a        *)
(* request finds the batch full only behind one that asks for the close.   *)
THEOREM NobodyIsAbandoned ==
  ASSUME NothingBehindFullBatch, FullBatchCloses
  PROVE  Spec => []CloseAbandonsNothing
<1>1. IInv /\ ReplyInv /\ StepInv /\ CloseInv => CloseAbandonsNothing
  BY DEF CloseInv
<1> QED BY AlwaysCloseInv, <1>1, PTL

=============================================================================
