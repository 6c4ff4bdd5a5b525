---------------------------- MODULE EventedConn ----------------------------
(***************************************************************************)
(* One client connection inside the event loop of an API worker            *)
(* (src/src/fd_passing/evented.rs, io.rs, conn.rs, epoll.rs and the framing *)
(* of src/src/http/parser.rs), together with the TCP socket and the epoll   *)
(* registration it lives on.                                               *)
(*                                                                         *)
(* Every action makes at most one system call, so the client and the       *)
(* kernel may act between any two of them.  Bytes are positions 1, 2, ...   *)
(* of the stream the client sends; a request is the interval first..last   *)
(* of it, with its header ending at hdr.  A response is the number of the  *)
(* request it answers, or Bad for the pre-formatted 400 and 404.           *)
(***************************************************************************)
EXTENDS Integers, Sequences

CONSTANTS
  Streams,                  (* The request streams a client may send.       *)
  BUF_SIZE,                 (* Bytes in the read buffer.                    *)
  MAX_PIPELINED_RESPONSES,  (* Responses a ResponseBatch holds.             *)
  ResponseLen,              (* Bytes of a response.                         *)
  SendBuffer                (* Bytes the socket's send buffer holds.        *)

Kinds == {"keep", "close", "reject"}

Request == [first : Nat, hdr : Nat, last : Nat, kind : Kinds]

(* Requests follow one another without a gap.                              *)
Contiguous(s) ==
  /\ s # << >> => s[1].first = 1
  /\ \A i \in DOMAIN s : s[i].first <= s[i].hdr /\ s[i].hdr <= s[i].last
  /\ \A i \in DOMAIN s : i + 1 \in DOMAIN s => s[i + 1].first = s[i].last + 1
  /\ \A i, j \in DOMAIN s : i < j => s[i].last < s[j].first

ASSUME StreamsAssumption ==
  Streams \subseteq {s \in Seq(Request) : Contiguous(s)}

ASSUME SizesAssumption ==
  /\ BUF_SIZE \in Nat \ {0}
  /\ MAX_PIPELINED_RESPONSES \in Nat \ {0}
  /\ ResponseLen \in Nat \ {0}
  /\ SendBuffer \in Nat \ {0}

VARIABLES
  stream,     (* What the client is going to send.                          *)
  sent,       (* Bytes the client has sent.                                 *)
  fin,        (* The client has shut down its sending side.                 *)
  rst,        (* The client has reset the connection.                       *)
  acked,      (* Response bytes that have left the send buffer.             *)
  taken,      (* Bytes read from the socket.                                *)
  wire,       (* Every response byte accepted by writev: <<response, k>>.   *)
  interest,   (* ConnTable.epoll_interest: "none", "in" or "out".           *)
  ready,      (* The descriptor is in epoll's ready list.                   *)
  slot,       (* ConnTable.slots: "none", "reading" or "writing".           *)
  pc,         (* Where the event loop is for this connection.               *)
  buf,        (* buf[..used].                                               *)
  processed,  (* Bytes of buf already consumed; leftover_off while writing.  *)
  leftLen,    (* leftover_len of ConnState::Writing.                        *)
  batch,      (* ResponseBatch.                                             *)
  written,    (* Bytes of the batch written.                                *)
  keep,       (* keep_alive of the batch.                                   *)
  replies,    (* History: every response ever pushed into a batch.          *)
  eofSeen     (* History: a read has returned 0.                            *)

clientVars == <<stream, sent, fin, rst, acked>>
epollVars  == <<interest, ready>>
batchVars  == <<processed, leftLen, batch, written, keep>>
vars == <<clientVars, taken, wire, epollVars, slot, pc, buf, batchVars,
          replies, eofSeen>>

Bad == 0

-----------------------------------------------------------------------------
(* The HTTP framing: parse_request_result on a non-empty unprocessed part. *)

IsRequestStart(p) == \E r \in DOMAIN stream : stream[r].first = p

RequestAt(p) == CHOOSE r \in DOMAIN stream : stream[r].first = p

Unprocessed == SubSeq(buf, processed + 1, Len(buf))

ParseResult(b) ==
  IF ~IsRequestStart(b[1])
  THEN [step |-> "reject", consumed |-> 0, request |-> 0, keep |-> FALSE]
  ELSE LET r == RequestAt(b[1])
           q == stream[r]
           have(p) == Len(b) > p - q.first
       IN  IF ~have(q.hdr) \/ (q.kind # "reject" /\ ~have(q.last))
           THEN [step |-> "more", consumed |-> 0, request |-> r, keep |-> TRUE]
           ELSE IF q.kind = "reject"
           THEN [step |-> "reject", consumed |-> 0, request |-> r, keep |-> FALSE]
           ELSE [step |-> "respond", consumed |-> q.last - q.first + 1,
                 request |-> r, keep |-> q.kind = "keep"]

-----------------------------------------------------------------------------
(* The kernel's side of the socket and of an edge-triggered registration.  *)

Readable   == taken < sent \/ fin
InFlight   == Len(wire) - acked
Writable   == InFlight < SendBuffer
Reports(e) == rst \/ (e = "in" /\ Readable) \/ (e = "out" /\ Writable)

(* Fault: the interest is registered the first time only.                  *)
ConnArmEpollOnce(e) ==
  IF interest # "none"
  THEN UNCHANGED epollVars
  ELSE interest' = e /\ ready' = (ready \/ Reports(e))

(* conn_arm_epoll: nothing when the interest is unchanged; otherwise an    *)
(* EPOLL_CTL_ADD or MOD, which puts a descriptor that is ready on the list. *)
ConnArmEpoll(e) ==
  IF interest = e
  THEN UNCHANGED epollVars
  ELSE interest' = e /\ ready' = (ready \/ Reports(e))

(* shutdown_client: out of epoll, out of the table, closed.                *)
ShutdownClient ==
  /\ interest' = "none"
  /\ ready' = FALSE
  /\ slot' = "none"
  /\ pc' = "closed"
  /\ buf' = << >>
  /\ UNCHANGED <<clientVars, taken, wire, batchVars, replies, eofSeen>>

IsFull(b) == Len(b) >= BUF_SIZE

(* The head of drive_reading's loop: a full buffer is answered 400 before  *)
(* anything in it is parsed.                                               *)
DriveReading(b) ==
  /\ buf' = b
  /\ processed' = 0
  /\ leftLen' = 0
  /\ written' = 0
  /\ IF IsFull(b)
     THEN /\ pc' = "write"
          /\ batch' = <<Bad>>
          /\ keep' = FALSE
          /\ replies' = Append(replies, Bad)
     ELSE /\ pc' = "parse"
          /\ batch' = << >>
          /\ keep' = TRUE
          /\ UNCHANGED replies

-----------------------------------------------------------------------------
(* Reading.                                                                *)

(* on_new_client_fd: the descriptor has arrived over the control channel.  *)
OnNewClientFd ==
  /\ pc = "handed"
  /\ pc' = "new"
  /\ UNCHANGED <<clientVars, taken, wire, epollVars, slot, buf, batchVars,
                 replies, eofSeen>>

InGreedyRead == pc \in {"new", "read"}

(* Fault: read() is offered more than the room left in the buffer.         *)
ReadLenUnbounded == sent - taken

ReadLen ==
  LET room == BUF_SIZE - Len(buf)
  IN  IF sent - taken < room THEN sent - taken ELSE room

(* read() returned n > 0: stop when the buffer is full, otherwise go on.   *)
GreedyReadData ==
  /\ InGreedyRead
  /\ taken < sent
  /\ LET b == buf \o [k \in 1..ReadLen |-> taken + k]
     IN  /\ taken' = taken + ReadLen
         /\ IF Len(b) >= BUF_SIZE
            THEN DriveReading(b)
            ELSE buf' = b /\ UNCHANGED <<pc, batchVars, replies>>
  /\ UNCHANGED <<clientVars, wire, epollVars, slot, eofSeen>>

(* read() returned EAGAIN, or 0 after the client's FIN, with bytes in the  *)
(* buffer: both are Data(used).                                            *)
GreedyReadDrained ==
  /\ InGreedyRead
  /\ taken = sent
  /\ ~rst
  /\ buf # << >>
  /\ eofSeen' = (eofSeen \/ fin)
  /\ DriveReading(buf)
  /\ UNCHANGED <<clientVars, taken, wire, epollVars, slot>>

(* read() returned EAGAIN on an empty buffer.  on_readable puts the state  *)
(* back; on_new_client_fd has to register the descriptor first.            *)
GreedyReadWouldBlock ==
  /\ InGreedyRead
  /\ taken = sent
  /\ ~rst /\ ~fin
  /\ buf = << >>
  /\ IF pc = "new"
     THEN pc' = "armIn" /\ UNCHANGED slot
     ELSE pc' = "wait" /\ slot' = "reading"
  /\ UNCHANGED <<clientVars, taken, wire, epollVars, buf, batchVars, replies,
                 eofSeen>>

(* Fault: the end of the stream closes whatever is in the buffer.          *)
GreedyReadClosedEarly ==
  /\ InGreedyRead
  /\ taken = sent
  /\ rst \/ fin
  /\ ShutdownClient

(* read() returned 0 on an empty buffer, or an error: recycle and close.   *)
GreedyReadClosed ==
  /\ InGreedyRead
  /\ taken = sent
  /\ rst \/ (fin /\ buf = << >>)
  /\ ShutdownClient

-----------------------------------------------------------------------------
(* drive_reading's parse loop and the end of an iteration of the outer one. *)

(* With responses: start_write.  Without: shift, register and wait.        *)
EndParse(off, responses, ka) ==
  /\ batch' = responses
  /\ keep' = ka
  /\ written' = 0
  /\ IF responses # << >>
     THEN /\ pc' = "write"
          /\ processed' = off
          /\ leftLen' = Len(buf) - off
          /\ UNCHANGED buf
     ELSE /\ pc' = "armIn"
          /\ buf' = SubSeq(buf, off + 1, Len(buf))
          /\ processed' = 0
          /\ leftLen' = 0

Parsing(step) ==
  /\ pc = "parse"
  /\ processed < Len(buf)
  /\ ParseResult(Unprocessed).step = step

ParseFrame == UNCHANGED <<clientVars, taken, wire, epollVars, slot, eofSeen>>

KeepAlive(res) == keep /\ res.keep

(* BufferStep::Respond with room in the batch.  A request that asks to     *)
(* close does not stop the loop.                                           *)
ProcessRespond ==
  /\ Parsing("respond")
  /\ Len(batch) < MAX_PIPELINED_RESPONSES
  /\ LET res == ParseResult(Unprocessed)
     IN  /\ processed' = processed + res.consumed
         /\ batch' = Append(batch, res.request)
         /\ replies' = Append(replies, res.request)
         /\ keep' = KeepAlive(res)
  /\ UNCHANGED <<pc, buf, leftLen, written>>
  /\ ParseFrame

(* BufferStep::Respond with the batch full: the request is consumed and    *)
(* handled, its response is not kept.                                      *)
ProcessRespondOverflow ==
  /\ Parsing("respond")
  /\ Len(batch) = MAX_PIPELINED_RESPONSES
  /\ EndParse(processed + ParseResult(Unprocessed).consumed, batch, FALSE)
  /\ UNCHANGED replies
  /\ ParseFrame

(* Fault: the bytes behind a rejected request are kept as leftover.        *)
ProcessRejectInPlace ==
  /\ Parsing("reject")
  /\ Len(batch) < MAX_PIPELINED_RESPONSES
  /\ replies' = Append(replies, Bad)
  /\ EndParse(processed, Append(batch, Bad), FALSE)
  /\ ParseFrame

(* BufferStep::RejectAndClose: the rest of the buffer is dropped.          *)
ProcessReject ==
  /\ Parsing("reject")
  /\ \/ /\ Len(batch) < MAX_PIPELINED_RESPONSES
        /\ replies' = Append(replies, Bad)
        /\ EndParse(Len(buf), Append(batch, Bad), FALSE)
     \/ /\ Len(batch) = MAX_PIPELINED_RESPONSES
        /\ UNCHANGED replies
        /\ EndParse(Len(buf), batch, FALSE)
  /\ ParseFrame

ProcessNeedMore ==
  /\ Parsing("more")
  /\ EndParse(processed, batch, keep)
  /\ UNCHANGED replies
  /\ ParseFrame

ProcessedAll ==
  /\ pc = "parse"
  /\ processed = Len(buf)
  /\ EndParse(processed, batch, keep)
  /\ UNCHANGED replies
  /\ ParseFrame

-----------------------------------------------------------------------------
(* finish_write, called by start_write and by on_writable.                 *)

BatchBytes == Len(batch) * ResponseLen

(* Fault: writev is given a response from its start again after a partial  *)
(* write.                                                                  *)
BatchByteRestart(k) ==
  <<batch[((k - 1) \div ResponseLen) + 1],
    IF k = written + 1 THEN 1 ELSE ((k - 1) % ResponseLen) + 1>>

(* Byte number k of the batch.                                             *)
BatchByte(k) == <<batch[((k - 1) \div ResponseLen) + 1],
                  ((k - 1) % ResponseLen) + 1>>

(* Fault: the leftover is taken from the start of the buffer.              *)
LeftoverFromStart == SubSeq(buf, 1, leftLen)

(* The bytes finish_write moves to the front of the buffer.                *)
Leftover == SubSeq(buf, processed + 1, processed + leftLen)

(* writev took n bytes; after the last one the leftover is parsed, or the  *)
(* connection waits for more, or it is closed.                             *)
WritevSome(n) ==
  /\ pc = "write"
  /\ ~rst
  /\ n <= SendBuffer - InFlight
  /\ n <= BatchBytes - written
  /\ wire' = wire \o [k \in 1..n |-> BatchByte(written + k)]
  /\ IF written + n < BatchBytes
     THEN /\ written' = written + n
          /\ UNCHANGED <<pc, slot, buf, processed, leftLen, batch, keep,
                         replies, epollVars>>
     ELSE IF leftLen > 0
     THEN /\ DriveReading(Leftover)
          /\ UNCHANGED <<slot, epollVars>>
     ELSE IF keep
     THEN /\ pc' = "armIn"
          /\ buf' = << >>
          /\ UNCHANGED <<slot, batchVars, replies, epollVars>>
     ELSE /\ interest' = "none"
          /\ ready' = FALSE
          /\ pc' = "closed"
          /\ buf' = << >>
          /\ UNCHANGED <<slot, batchVars, replies>>
  /\ UNCHANGED <<clientVars, taken, eofSeen>>

Writev == \E n \in 1..SendBuffer : WritevSome(n)

WritevWouldBlock ==
  /\ pc = "write"
  /\ ~rst
  /\ ~Writable
  /\ pc' = "armOut"
  /\ UNCHANGED <<clientVars, taken, wire, epollVars, slot, buf, batchVars,
                 replies, eofSeen>>

WritevError ==
  /\ pc = "write"
  /\ rst
  /\ ShutdownClient

(* conn_arm_epoll and the insertion into the table that follows it.        *)
ArmIn ==
  /\ pc = "armIn"
  /\ ConnArmEpoll("in")
  /\ slot' = "reading"
  /\ pc' = "wait"
  /\ UNCHANGED <<clientVars, taken, wire, buf, batchVars, replies, eofSeen>>

ArmOut ==
  /\ pc = "armOut"
  /\ ConnArmEpoll("out")
  /\ slot' = "writing"
  /\ pc' = "wait"
  /\ UNCHANGED <<clientVars, taken, wire, buf, batchVars, replies, eofSeen>>

-----------------------------------------------------------------------------
(* The event loop.  Fetching an event takes the descriptor off the ready   *)
(* list; epoll reports what holds at that moment.                          *)

Fetch ==
  /\ pc = "wait"
  /\ ready

(* EPOLLHUP or EPOLLERR: close_conn.                                       *)
EventHup ==
  /\ Fetch
  /\ rst
  /\ ShutdownClient

(* EPOLLIN: on_readable takes a Reading state out of the table and leaves  *)
(* any other one in it.                                                    *)
EventIn ==
  /\ Fetch
  /\ ~rst /\ interest = "in" /\ Readable
  /\ ready' = FALSE
  /\ IF slot = "reading"
     THEN slot' = "none" /\ pc' = "read"
     ELSE UNCHANGED <<slot, pc>>
  /\ UNCHANGED <<clientVars, taken, wire, interest, buf, batchVars, replies,
                 eofSeen>>

(* EPOLLOUT: on_writable takes a Writing state out of the table.           *)
EventOut ==
  /\ Fetch
  /\ ~rst /\ interest = "out" /\ Writable
  /\ ready' = FALSE
  /\ IF slot = "writing"
     THEN slot' = "none" /\ pc' = "write"
     ELSE UNCHANGED <<slot, pc>>
  /\ UNCHANGED <<clientVars, taken, wire, interest, buf, batchVars, replies,
                 eofSeen>>

(* The readiness is gone by the time the list is examined: no event.       *)
EventGone ==
  /\ Fetch
  /\ ~Reports(interest)
  /\ ready' = FALSE
  /\ UNCHANGED <<clientVars, taken, wire, interest, slot, pc, buf, batchVars,
                 replies, eofSeen>>

-----------------------------------------------------------------------------
(* The client and its TCP connection.                                      *)

Total == IF stream = << >> THEN 0 ELSE stream[Len(stream)].last

ServerVars == <<taken, wire, interest, slot, pc, buf, batchVars, replies,
                eofSeen>>

ClientSend ==
  /\ ~fin /\ ~rst
  /\ \E n \in 1..(Total - sent) : sent' = sent + n
  /\ ready' = (ready \/ interest = "in")
  /\ UNCHANGED <<stream, fin, rst, acked, ServerVars>>

ClientShutdown ==
  /\ ~fin /\ ~rst
  /\ fin' = TRUE
  /\ ready' = (ready \/ interest = "in")
  /\ UNCHANGED <<stream, sent, rst, acked, ServerVars>>

ClientReset ==
  /\ ~rst
  /\ rst' = TRUE
  /\ ready' = (ready \/ interest # "none")
  /\ UNCHANGED <<stream, sent, fin, acked, ServerVars>>

ClientReceive ==
  /\ ~rst
  /\ InFlight > 0
  /\ acked' = acked + 1
  /\ ready' = (ready \/ interest = "out")
  /\ UNCHANGED <<stream, sent, fin, rst, ServerVars>>

-----------------------------------------------------------------------------
Init ==
  /\ stream \in Streams
  /\ sent = 0 /\ acked = 0 /\ taken = 0
  /\ fin = FALSE /\ rst = FALSE
  /\ wire = << >>
  /\ interest = "none" /\ ready = FALSE
  /\ slot = "none" /\ pc = "handed"
  /\ buf = << >> /\ processed = 0 /\ leftLen = 0
  /\ batch = << >> /\ written = 0 /\ keep = TRUE
  /\ replies = << >> /\ eofSeen = FALSE

Read == \/ OnNewClientFd \/ GreedyReadData \/ GreedyReadDrained
        \/ GreedyReadWouldBlock \/ GreedyReadClosed

Parse == \/ ProcessRespond \/ ProcessRespondOverflow \/ ProcessReject
         \/ ProcessNeedMore \/ ProcessedAll

Write == \/ Writev \/ WritevWouldBlock \/ WritevError

Arm == ArmIn \/ ArmOut

Event == EventHup \/ EventIn \/ EventOut \/ EventGone

Server == Read \/ Parse \/ Write \/ Arm \/ Event

Client == ClientSend \/ ClientShutdown \/ ClientReset \/ ClientReceive

Next == Server \/ Client

(* The loop runs whenever it has something to do, and a client goes on     *)
(* reading what it is sent.                                                *)
Fairness == WF_vars(Server) /\ WF_vars(ClientReceive)

Spec == Init /\ [][Next]_vars /\ Fairness
-----------------------------------------------------------------------------
(* What the connection guarantees.                                         *)

(* Type invariant: the variables of ConnTable, of the handler on the stack *)
(* and of the socket stay in their ranges; a buffer never exceeds BUF_SIZE  *)
(* and a batch never exceeds its array.                                    *)
TypeOK ==
  /\ stream \in Streams
  /\ sent \in Nat /\ acked \in Nat /\ taken \in Nat
  /\ taken <= sent /\ acked <= Len(wire)
  /\ fin \in BOOLEAN /\ rst \in BOOLEAN /\ ready \in BOOLEAN
  /\ keep \in BOOLEAN /\ eofSeen \in BOOLEAN
  /\ wire \in Seq(Nat \X Nat)
  /\ interest \in {"none", "in", "out"}
  /\ slot \in {"none", "reading", "writing"}
  /\ pc \in {"handed", "new", "read", "parse", "write", "armIn", "armOut",
             "wait", "closed"}
  /\ buf \in Seq(Nat) /\ Len(buf) <= BUF_SIZE
  /\ processed \in Nat /\ leftLen \in Nat /\ written \in Nat
  /\ batch \in Seq(Nat) /\ Len(batch) <= MAX_PIPELINED_RESPONSES
  /\ replies \in Seq(Nat)

(* No lost wake-up: while the loop waits, a Reading connection that has    *)
(* unread bytes or an unread end of stream, a Writing one whose socket has *)
(* room, and any one that was reset, is on epoll's ready list.  With       *)
(* edge-triggered events this is what greedy_read, the early return of     *)
(* conn_arm_epoll and the re-arming after a write have to achieve together. *)
NoLostWakeup ==
  pc = "wait" =>
    /\ slot = "reading" /\ (taken < sent \/ (fin /\ ~eofSeen) \/ rst) => ready
    /\ slot = "writing" /\ (Writable \/ rst) => ready

(* Across partial writes, EAGAIN and resumption, the bytes on the wire are *)
(* exactly the bytes of the responses pushed, in order, none twice and     *)
(* none left out (finish_write, build_iovecs).                             *)
WireFollowsReplies ==
  /\ Len(wire) <= Len(replies) * ResponseLen
  /\ \A k \in 1..Len(wire) :
       wire[k] = <<replies[((k - 1) \div ResponseLen) + 1],
                   ((k - 1) % ResponseLen) + 1>>

(* The m-th response answers the m-th request: pipelining, leftovers and   *)
(* buffer shifts neither skip nor repeat a request (drive_reading).        *)
ResponseMatchesRequest ==
  \A m \in DOMAIN replies : replies[m] \in {m, Bad}

(* Nothing is answered after a 400 or a 404, and the connection that got   *)
(* one never goes back to reading (BufferStep::RejectAndClose and the      *)
(* full-buffer branch of drive_reading).                                   *)
RejectIsFinal ==
  \A m \in DOMAIN replies : replies[m] = Bad =>
    /\ m = Len(replies)
    /\ pc \in {"write", "armOut", "wait", "closed"}
    /\ slot # "reading"

(* Closing abandons nobody: unless the client reset the connection, got an *)
(* error or asked for the close, the server closes only on the client's    *)
(* FIN, with every complete request answered and every answer written.     *)
CloseAbandonsNothing ==
  pc = "closed" =>
    \/ rst
    \/ \E m \in DOMAIN replies : replies[m] = Bad \/ stream[m].kind = "close"
    \/ /\ fin
       /\ \A m \in DOMAIN stream : stream[m].last <= sent => m <= Len(replies)
       /\ Len(wire) = Len(replies) * ResponseLen

(* Every complete request the client sends is answered to the last byte,   *)
(* unless the connection ends first.                                       *)
EveryRequestAnswered ==
  \A m \in UNION {DOMAIN s : s \in Streams} :
    (m \in DOMAIN stream /\ sent >= stream[m].last)
      ~> (acked >= m * ResponseLen \/ rst \/ pc = "closed")

(* The end of the client's stream is always noticed: the FIN's edge is not *)
(* lost while the connection is being written to.                          *)
HalfCloseNoticed == fin ~> (eofSeen \/ pc = "closed")

(* What "Supports pipelined requests" (src/docs/ARCHITECTURE.md:47) says:  *)
(* a request the parser accepts and that fits in the buffer is never       *)
(* answered with an error.                                                 *)
PipelinedRequestsServed ==
  \A m \in DOMAIN replies : replies[m] = Bad =>
    \/ stream[m].kind = "reject"
    \/ stream[m].last - stream[m].first + 1 >= BUF_SIZE
=============================================================================
