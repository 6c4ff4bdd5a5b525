----------------------------- MODULE WorkerLoop -----------------------------
(***************************************************************************)
(* The event loop of one API worker over all its connections               *)
(* (src/src/fd_passing/evented.rs, conn.rs): the numbers of its descriptors, *)
(* which the kernel gives out again lowest first, the tables indexed by     *)
(* them, the epoll registrations and the batch of events being handled.     *)
(*                                                                         *)
(* EventedConn follows one connection system call by system call; here a    *)
(* handler is one step, since the worker has one thread, and clients and    *)
(* the balancer act between the handlers.  A file is a client's socket or   *)
(* a control connection of the balancer.  The balancer keeps its own        *)
(* descriptor of a client for a while after passing it on, so a close in    *)
(* the worker need not be the last one of the file.                         *)
(***************************************************************************)
EXTENDS Integers, Sequences, FiniteSets, FiniteSetsExt, Functions

CONSTANTS
  Clients,        (* Client connections.                                     *)
  Keep,           (* Keep[c]: for each request c may send, is it keep-alive?  *)
  RequestLen,     (* Pieces in which a request of each client arrives.       *)
  Finishing,      (* Clients that may shut down their sending side.          *)
  Resetting,      (* Clients that may reset the connection.                  *)
  Slow,           (* Clients whose receive buffer can be full.               *)
  NoFile,         (* The number is not in use.                               *)
  Sizes,          (* Pairs of RLIMIT_NOFILE and MAX_CLIENT_FD, each without   *)
                  (* the descriptors the worker opens before the first.      *)
  RecvFdBudget,   (* RINHA_RECV_FD_BUDGET.                                   *)
  BufPoolCap,     (* RINHA_BUF_POOL_INIT.                                    *)
  SendBuffer,     (* Responses a socket's send buffer holds.                 *)
  MaxLinks        (* Bound on the control connections the balancer makes.    *)

ASSUME WorkerAssumption ==
  /\ NoFile \notin Clients
  /\ (Clients \union {NoFile}) \intersect (0..MaxLinks) = {}
  /\ \A c \in Clients : Keep[c] \in Seq(BOOLEAN) /\ RequestLen[c] \in Nat \ {0}
  /\ Sizes \subseteq [nofile : Nat \ {0}, MAX_CLIENT_FD : Nat \ {0}]
  /\ \E z \in Sizes : \A y \in Sizes : y.nofile <= z.nofile
  /\ {RecvFdBudget, BufPoolCap, SendBuffer, MaxLinks} \subseteq Nat \ {0}

VARIABLES
  size,        (* The pair of Sizes that holds; it never changes.            *)
  fds,         (* The file behind each descriptor number.                    *)
  slots,       (* ConnTable.slots.                                           *)
  interest,    (* ConnTable.epoll_interest.                                  *)
  pool,        (* Buffers in ConnTable.buf_pool.                             *)
  registered,  (* The kernel's epoll registrations.                          *)
  ready,       (* Those with an edge not yet reported.                       *)
  control,     (* control: a descriptor number, or 0.                        *)
  batch,       (* Events of the last epoll_wait not handled yet.             *)
  left,        (* Iterations left of drain_fds; -1 outside it.               *)
  lb,          (* What the balancer has done with each client.               *)
  link,        (* The balancer's control connection, 0 before the first.     *)
  backlog,     (* Control connections not accepted yet.                      *)
  queue,       (* Clients in flight on each control connection.              *)
  sent,        (* Bytes sent by each client.                                 *)
  end,         (* "open", "fin" or "rst".                                    *)
  taken,       (* Bytes read from each client.                               *)
  wire,        (* Responses accepted by writev for each client.              *)
  acked        (* Those that have left the send buffer.                      *)

tableVars  == <<slots, interest, pool>>
epollVars  == <<registered, ready>>
lbVars     == <<lb, link, backlog, queue>>
socketVars == <<sent, end, taken, wire, acked>>
vars == <<size, fds, tableVars, epollVars, control, batch, left, lbVars, socketVars>>

Fds   == 1..Max({z.nofile : z \in Sizes})
Links == 1..MaxLinks
Files == Clients \union Links

NoConn == [state |-> "none", used |-> 0, pending |-> 0, keep |-> FALSE]

-----------------------------------------------------------------------------
(* The kernel.                                                             *)

Registration(kind, fd, file, events) ==
  [kind |-> kind, fd |-> fd, file |-> file, events |-> events]

ListenerReg == Registration("listener", 0, 0, "in")

InUse(f) == f \in Range(fds)

(* The client's socket is open on some descriptor, somewhere.              *)
Alive(c) == lb[c] # "done" \/ InUse(c) \/ \E k \in Links : c \in Range(queue[k])

(* Room in the send buffer, after w responses.                             *)
Space(c, w) == SendBuffer - (IF c \in Slow THEN w - acked[c] ELSE 0)

(* The condition an edge reports, after t bytes read and w responses.      *)
ReportsAt(c, events, t, w) ==
  \/ end[c] = "rst"
  \/ events = "in" /\ (t < sent[c] \/ end[c] = "fin")
  \/ events = "out" /\ Space(c, w) > 0

LinkReadable(k) == queue[k] # << >> \/ k # link

Reports(r) == CASE r.kind = "listener" -> backlog # << >>
                [] r.kind = "control"  -> LinkReadable(r.file)
                [] r.kind = "client"   -> ReportsAt(r.file, r.events, taken[r.file], wire[r.file])

(* What happens to a file makes an edge of its registrations.              *)
Wake(files, events) ==
  ready \union {r \in registered : r.file \in files /\ r.events \in events}

Of(fd, file) == {r \in registered : r.fd = fd /\ r.file = file}

FreeFds == {f \in 1..size.nofile : fds[f] = NoFile}

(* A file closed for good leaves epoll by itself.                          *)
Forget(file) ==
  /\ registered' = {r \in registered : r.file # file}
  /\ ready' = {r \in ready : r.file # file}

-----------------------------------------------------------------------------
(* Clients and the balancer.                                               *)

ClientSend(c) ==
  /\ Alive(c) /\ end[c] = "open"
  /\ sent[c] < RequestLen[c] * Len(Keep[c])
  /\ sent' = [sent EXCEPT ![c] = @ + 1]
  /\ ready' = Wake({c}, {"in"})
  /\ UNCHANGED <<size, fds, tableVars, registered, control, batch, left, lbVars,
                 end, taken, wire, acked>>

ClientShutdown(c) ==
  /\ c \in Finishing /\ Alive(c) /\ end[c] = "open"
  /\ end' = [end EXCEPT ![c] = "fin"]
  /\ ready' = Wake({c}, {"in"})
  /\ UNCHANGED <<size, fds, tableVars, registered, control, batch, left, lbVars,
                 sent, taken, wire, acked>>

ClientReset(c) ==
  /\ c \in Resetting /\ Alive(c) /\ end[c] # "rst"
  /\ end' = [end EXCEPT ![c] = "rst"]
  /\ ready' = Wake({c}, {"in", "out"})
  /\ UNCHANGED <<size, fds, tableVars, registered, control, batch, left, lbVars,
                 sent, taken, wire, acked>>

ClientReceive(c) ==
  /\ c \in Slow /\ Alive(c) /\ end[c] # "rst" /\ acked[c] < wire[c]
  /\ acked' = [acked EXCEPT ![c] = wire[c]]
  /\ ready' = Wake({c}, {"out"})
  /\ UNCHANGED <<size, fds, tableVars, registered, control, batch, left, lbVars,
                 sent, end, taken, wire>>

(* A new control connection; the one before is closed.                     *)
LbConnect ==
  /\ link < MaxLinks
  /\ link' = link + 1
  /\ backlog' = Append(backlog, link + 1)
  /\ ready' = Wake({link}, {"in"}) \union {ListenerReg}
  /\ UNCHANGED <<size, fds, tableVars, registered, control, batch, left, lb, queue,
                 socketVars>>

(* sendmsg with SCM_RIGHTS on a connection the worker has not closed; the   *)
(* balancer has one client in its hands at a time.                         *)
LbSend(c) ==
  /\ lb[c] = "waiting" /\ \A d \in Clients : lb[d] # "sent"
  /\ link \in Range(backlog) \union Range(fds)
  /\ lb' = [lb EXCEPT ![c] = "sent"]
  /\ queue' = [queue EXCEPT ![link] = Append(@, c)]
  /\ ready' = Wake({link}, {"in"})
  /\ UNCHANGED <<size, fds, tableVars, registered, control, batch, left, link, backlog,
                 socketVars>>

(* The balancer closes its own descriptor of a client it has passed on.    *)
LbClosePeer(c) ==
  /\ lb[c] = "sent"
  /\ lb' = [lb EXCEPT ![c] = "done"]
  /\ IF InUse(c) THEN UNCHANGED epollVars ELSE Forget(c)
  /\ UNCHANGED <<size, fds, tableVars, control, batch, left, link, backlog, queue,
                 socketVars>>

Environment == \/ \E c \in Clients : \/ ClientSend(c) \/ ClientShutdown(c)
                                     \/ ClientReset(c) \/ ClientReceive(c)
                                     \/ LbSend(c) \/ LbClosePeer(c)
               \/ LbConnect

-----------------------------------------------------------------------------
(* The connection table.                                                   *)

AllocBuf == IF pool > 0 THEN pool - 1 ELSE 0

RecycleBuf(p) == IF p < BufPoolCap THEN p + 1 ELSE p

(* conn_arm_epoll, after t bytes read and w responses written.             *)
ConnArmEpoll(fd, c, events, t, w) ==
  IF interest[fd] = events
  THEN UNCHANGED <<interest, epollVars>>
  ELSE LET r == Registration("client", fd, c, events)
       IN  /\ interest' = [interest EXCEPT ![fd] = events]
           /\ registered' = (registered \ Of(fd, c)) \union {r}
           /\ ready' = (ready \ Of(fd, c)) \union
                         (IF ReportsAt(c, events, t, w) THEN {r} ELSE {})

(* Fault: close(2) is trusted to take the descriptor out of epoll.         *)
ShutdownClientNoDel(fd, c) ==
  /\ interest' = [interest EXCEPT ![fd] = "none"]
  /\ fds' = [fds EXCEPT ![fd] = NoFile]
  /\ IF c \in Clients /\ lb[c] = "done" THEN Forget(c) ELSE UNCHANGED epollVars

(* Fault: the interest of the number is not cleared.                       *)
ShutdownClientKeepInterest(fd, c) ==
  /\ registered' = registered \ Of(fd, c)
  /\ ready' = ready \ Of(fd, c)
  /\ fds' = [fds EXCEPT ![fd] = NoFile]
  /\ UNCHANGED interest

(* Fault: a descriptor that was never registered is not closed.            *)
ShutdownClientRegistered(fd, c) ==
  IF interest[fd] = "none"
  THEN fds' = [fds EXCEPT ![fd] = c] /\ UNCHANGED <<interest, epollVars>>
  ELSE /\ registered' = registered \ Of(fd, c)
       /\ ready' = ready \ Of(fd, c)
       /\ interest' = [interest EXCEPT ![fd] = "none"]
       /\ fds' = [fds EXCEPT ![fd] = NoFile]

(* shutdown_client: out of epoll if it was registered, then closed.        *)
ShutdownClient(fd, c) ==
  /\ IF interest[fd] = "none"
     THEN UNCHANGED epollVars
     ELSE /\ registered' = registered \ Of(fd, c)
          /\ ready' = ready \ Of(fd, c)
  /\ interest' = [interest EXCEPT ![fd] = "none"]
  /\ fds' = [fds EXCEPT ![fd] = NoFile]

-----------------------------------------------------------------------------
(* Handlers of a client, as far as the table tells connections apart: what  *)
(* becomes of the connection, and how many responses were written.          *)

Outcome(state, used, pending, keep, wrote) ==
  [conn |-> [state |-> state, used |-> used, pending |-> pending, keep |-> keep],
   wrote |-> wrote]

ShutDown(wrote) == [conn |-> NoConn, wrote |-> wrote]

(* finish_write with p responses to write and u bytes left over, and what   *)
(* start_write or on_writable makes of it: a leftover is too short for a    *)
(* request and waits for more, whatever keep is.                            *)
FinishWrite(c, p, u, keep) ==
  LET space == Space(c, wire[c])
  IN  IF end[c] = "rst"    THEN ShutDown(0)
      ELSE IF p > space    THEN Outcome("writing", u, p - space, keep, space)
      ELSE IF u > 0 \/ keep THEN Outcome("reading", u, 0, FALSE, p)
      ELSE ShutDown(p)

(* drive_reading with used bytes in the buffer, the last one byte t.       *)
DriveReading(c, t, used) ==
  LET n     == used \div RequestLen[c]
      first == (t - used) \div RequestLen[c] + 1
      keep  == \A r \in first..(first + n - 1) : Keep[c][r]
  IN  IF n = 0 THEN Outcome("reading", used, 0, FALSE, 0)
      ELSE FinishWrite(c, n, used % RequestLen[c], keep)

(* greedy_read of everything there is, and what its caller makes of it.    *)
GreedyRead(c, used) ==
  LET total == used + sent[c] - taken[c]
  IN  IF end[c] = "rst"                   THEN ShutDown(0)
      ELSE IF total > 0                   THEN DriveReading(c, sent[c], total)
      ELSE IF end[c] = "fin"              THEN ShutDown(0)
      ELSE Outcome("reading", 0, 0, FALSE, 0)

(* The slot, the registration and the counters after a handler of fd whose  *)
(* connection took its buffer from a pool that then held p.                 *)
Settle(fd, c, o, t, p) ==
  LET w == wire[c] + o.wrote
  IN  /\ slots' = [slots EXCEPT ![fd] = o.conn]
      /\ taken' = [taken EXCEPT ![c] = t]
      /\ wire' = [wire EXCEPT ![c] = w]
      /\ IF o.conn = NoConn
         THEN ShutdownClient(fd, c) /\ pool' = RecycleBuf(p)
         ELSE /\ ConnArmEpoll(fd, c, IF o.conn.state = "reading" THEN "in" ELSE "out", t, w)
              /\ pool' = p
              /\ fds' = [fds EXCEPT ![fd] = c]

(* on_new_client_fd: fd is beyond the tables, or is read at once.          *)
OnNewClientFd(fd, c) ==
  IF fd >= size.MAX_CLIENT_FD
  THEN UNCHANGED <<fds, tableVars, epollVars, taken, wire>>
  ELSE Settle(fd, c, GreedyRead(c, 0), sent[c], AllocBuf)

(* on_readable: only a connection that is being read.                      *)
OnReadable(fd) ==
  IF slots[fd].state # "reading"
  THEN UNCHANGED <<fds, tableVars, epollVars, taken, wire>>
  ELSE \E c \in {fds[fd]} :
         Settle(fd, c, GreedyRead(c, slots[fd].used), sent[c], pool)

(* on_writable: only a connection that is being written.                   *)
OnWritable(fd) ==
  IF slots[fd].state # "writing"
  THEN UNCHANGED <<fds, tableVars, epollVars, taken, wire>>
  ELSE \E c \in {fds[fd]}, s \in {slots[fd]} :
         Settle(fd, c, FinishWrite(c, s.pending, s.used, s.keep), taken[c], pool)

(* close_conn: the descriptor is closed whether or not it has a slot.      *)
CloseConn(fd) ==
  /\ slots' = [slots EXCEPT ![fd] = NoConn]
  /\ pool' = IF slots[fd] = NoConn THEN pool ELSE RecycleBuf(pool)
  /\ \E f \in {fds[fd]} : ShutdownClient(fd, f)
  /\ UNCHANGED <<taken, wire>>

-----------------------------------------------------------------------------
(* The loop.                                                               *)

Event(r) ==
  [kind |-> r.kind, fd |-> r.fd, file |-> r.file, events |-> r.events,
   hup |-> CASE r.kind = "listener" -> FALSE
             [] r.kind = "control"  -> r.file # link
             [] r.kind = "client"   -> end[r.file] = "rst"]

(* epoll_wait: at most one event of a registration, in any order.          *)
EpollWait ==
  /\ batch = {}
  /\ \E r \in ready : Reports(r)
  /\ batch' = {Event(r) : r \in {q \in ready : Reports(q)}}
  /\ ready' = {}
  /\ UNCHANGED <<size, fds, tableVars, registered, control, left, lbVars, socketVars>>

(* accept_control with the default budget: installs one connection, or     *)
(* closes all there are beside the installed one if accept4 has a number    *)
(* for them.                                                               *)
AcceptControl(e) ==
  /\ e.kind = "listener" /\ left = -1
  /\ batch' = batch \ {e}
  /\ IF backlog = << >> \/ FreeFds = {}
     THEN UNCHANGED <<fds, epollVars, control, backlog, queue>>
     ELSE IF control = 0
     THEN LET fd == Min(FreeFds)
              k  == Head(backlog)
              r  == Registration("control", fd, k, "in")
          IN  /\ fds' = [fds EXCEPT ![fd] = k]
              /\ control' = fd
              /\ backlog' = Tail(backlog)
              /\ registered' = registered \union {r}
              /\ ready' = IF LinkReadable(k) THEN ready \union {r} ELSE ready
              /\ UNCHANGED queue
     ELSE /\ backlog' = << >>
          /\ queue' = [k \in Links |-> IF k \in Range(backlog) THEN << >> ELSE queue[k]]
          /\ UNCHANGED <<fds, epollVars, control>>
  /\ UNCHANGED <<size, tableVars, left, lb, link, socketVars>>

(* An event of the control connection: drain_fds begins.                   *)
ControlEvent(e) ==
  /\ e.kind = "control" /\ left = -1
  /\ IF control = 0
     THEN batch' = batch \ {e} /\ UNCHANGED left
     ELSE left' = RecvFdBudget /\ UNCHANGED batch
  /\ UNCHANGED <<size, fds, tableVars, epollVars, control, lbVars, socketVars>>

InFlight == queue[fds[control]]

(* recv_fd_nb returned a descriptor, under the lowest free number.         *)
RecvFd ==
  /\ left > 0 /\ InFlight # << >> /\ FreeFds # {}
  /\ OnNewClientFd(Min(FreeFds), Head(InFlight))
  /\ queue' = [queue EXCEPT ![fds[control]] = Tail(@)]
  /\ left' = left - 1
  /\ UNCHANGED <<size, control, batch, lb, link, backlog, sent, end, acked>>

(* drain_fds returns: out of iterations, on an empty connection, or on a    *)
(* message whose descriptor found no free number, which recv_fd_nb reports  *)
(* as Closed.  A closed connection leaves epoll and is closed with what it  *)
(* still holds.                                                            *)
DrainDone(e) ==
  /\ e.kind = "control"
  /\ left # -1 /\ (left = 0 \/ InFlight = << >> \/ FreeFds = {})
  /\ LET closed == left > 0 /\ (InFlight # << >> \/ fds[control] # link)
     IN  IF closed \/ e.hup
         THEN /\ registered' = registered \ Of(control, fds[control])
              /\ ready' = ready \ Of(control, fds[control])
              /\ fds' = [fds EXCEPT ![control] = NoFile]
              /\ queue' = [queue EXCEPT ![fds[control]] = << >>]
              /\ control' = 0
         ELSE UNCHANGED <<registered, ready, fds, queue, control>>
  /\ batch' = batch \ {e}
  /\ left' = -1
  /\ UNCHANGED <<size, tableVars, lb, link, backlog, socketVars>>

(* An event of a client, found by its number.                              *)
ClientEvent(e) ==
  /\ e.kind = "client" /\ left = -1
  /\ IF e.hup THEN CloseConn(e.fd)
     ELSE IF e.events = "in" THEN OnReadable(e.fd)
     ELSE OnWritable(e.fd)
  /\ batch' = batch \ {e}
  /\ UNCHANGED <<size, control, left, lbVars, sent, end, acked>>

Worker == \/ EpollWait \/ RecvFd
          \/ \E e \in batch : \/ AcceptControl(e) \/ ControlEvent(e)
                              \/ DrainDone(e) \/ ClientEvent(e)

-----------------------------------------------------------------------------
Init ==
  /\ size \in Sizes
  /\ fds = [f \in Fds |-> NoFile]
  /\ slots = [f \in Fds |-> NoConn]
  /\ interest = [f \in Fds |-> "none"]
  /\ pool = BufPoolCap
  /\ registered = {ListenerReg}
  /\ ready = {}
  /\ control = 0
  /\ batch = {}
  /\ left = -1
  /\ lb = [c \in Clients |-> "waiting"]
  /\ link = 0
  /\ backlog = << >>
  /\ queue = [k \in Links |-> << >>]
  /\ sent = [c \in Clients |-> 0]
  /\ end = [c \in Clients |-> "open"]
  /\ taken = [c \in Clients |-> 0]
  /\ wire = [c \in Clients |-> 0]
  /\ acked = [c \in Clients |-> 0]

Next == Environment \/ Worker

(* The worker runs; a client takes the responses that reach it.            *)
Fairness == WF_vars(Worker) /\ \A c \in Clients : WF_vars(ClientReceive(c))

Spec == Init /\ [][Next]_vars /\ Fairness

-----------------------------------------------------------------------------
(* The handlers of a batch find a connection by its number alone: a number   *)
(* closed by one handler and given out again by drain_fds must not receive   *)
(* an event that epoll reported for the file it named before.               *)
EventIsForItsConnection ==
  \A e \in batch :
    /\ e.kind = "client" => fds[e.fd] = e.file
    /\ e.kind = "control" => control = e.fd /\ fds[control] = e.file

(* ConnTable.epoll_interest is what decides between ADD, MOD, DEL and        *)
(* nothing: it agrees with the kernel about every number, also one that has  *)
(* been closed and reused, and with the direction its slot waits for.       *)
InterestMatchesKernel ==
  /\ {r \in registered : r.kind = "client"} =
       {Registration("client", f, fds[f], interest[f]) :
          f \in {g \in Fds : interest[g] # "none"}}
  /\ \A f \in Fds :
       interest[f] = CASE slots[f].state = "none"    -> "none"
                       [] slots[f].state = "reading" -> "in"
                       [] slots[f].state = "writing" -> "out"

(* A descriptor the worker holds is the control connection or in the table,  *)
(* nothing in the table is closed, and no path out of a handler loses the    *)
(* buffer of a connection for the pool.                                     *)
NothingLeaks ==
  /\ \A f \in Fds : fds[f] # NoFile <=> f = control \/ slots[f] # NoConn
  /\ pool + Cardinality({f \in Fds : slots[f] # NoConn}) >= BufPoolCap

(* A complete request of a client that the worker holds is answered, or its  *)
(* connection ends, however the numbers of the descriptors were used before. *)
Owed(c) == InUse(c) /\ wire[c] < sent[c] \div RequestLen[c]

EveryRequestServed == \A c \in Clients : Owed(c) ~> ~Owed(c)
=============================================================================
