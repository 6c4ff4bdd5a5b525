----------------------------- MODULE FdHandoff -----------------------------
(***************************************************************************)
(* The hand-off of accepted TCP connections from the load balancer         *)
(* (src/src/lb/main.rs) to the API workers (the listener and control parts *)
(* of src/src/fd_passing/evented.rs and mod.rs) over SOCK_SEQPACKET Unix    *)
(* sockets, with crashes and restarts of either side, with receptions that *)
(* fail in a worker and with descriptors it refuses.                       *)
(*                                                                         *)
(* A control connection is known by a slot of its worker: the slot records *)
(* whether the balancer's end is open, what became of the worker's end and *)
(* the descriptors in flight.  A step makes at most one system call.       *)
(***************************************************************************)
EXTENDS Integers, Sequences, FiniteSets

CONSTANTS
  Clients,          (* Client connections.                                  *)
  NoClient,         (* The balancer holds none.                             *)
  WorkerCount,      (* upstream_pool.len().                                 *)
  Slots,            (* Control connections of a worker that may coexist.    *)
  NoSlot,           (* No control connection.                               *)
  QueueDepth,       (* Descriptors a control socket holds.                  *)
  Backlog,          (* Connections the worker's listener holds.             *)
  RecvFdBudget,     (* RINHA_RECV_FD_BUDGET.                                *)
  AcceptBudget,     (* RINHA_ACCEPT_BUDGET; 0 is the default.               *)
  MaxWorkerCrashes, (* Bound on crashes of the workers.                     *)
  MaxLbCrashes,     (* Bound on crashes of the balancer.                    *)
  MaxRecvErrors     (* Bound on receptions that fail in the workers.        *)

ASSUME HandoffAssumption ==
  /\ NoClient \notin Clients
  /\ NoSlot \notin Slots
  /\ WorkerCount \in Nat \ {0}
  /\ QueueDepth \in Nat \ {0}
  /\ Backlog \in Nat \ {0}
  /\ RecvFdBudget \in Nat \ {0}
  /\ AcceptBudget \in Nat
  /\ MaxWorkerCrashes \in Nat
  /\ MaxLbCrashes \in Nat
  /\ MaxRecvErrors \in Nat

Workers == 0..(WorkerCount - 1)

VARIABLES
  waiting,   (* Clients the balancer has not accepted.                      *)
  lpc,       (* Where the balancer is.                                      *)
  peer,      (* peer_fd: the client in the balancer's hands.                *)
  cursor,    (* rotation_cursor.                                            *)
  start,     (* start_cursor.                                               *)
  step,      (* step of the loop over the upstreams.                        *)
  mode,      (* "async" or "sync": the flavour of route_to_upstream.        *)
  link,      (* conn_fd of each UpstreamNode.                               *)
  conn,      (* The control connections of each worker.                     *)
  up,        (* The worker runs.                                            *)
  backlog,   (* Connections its listener has not accepted.                  *)
  control,   (* control: the installed control connection.                  *)
  ready,     (* epoll's ready list, oldest first.                           *)
  events,    (* What is left of the events epoll_wait returned.             *)
  wpc,       (* Where the worker is.                                        *)
  left,      (* Iterations left of accept_control's or drain_fds' loop.     *)
  table,     (* Clients the worker has received.                            *)
  wcrashes,  (* Crashes of workers so far.                                  *)
  lcrashes,  (* Crashes of the balancer so far.                             *)
  recvErrors,(* Calls of recv_fd_nb that failed so far.                     *)
  gaveUp,    (* History: clients the balancer closed without passing them.  *)
  refused    (* History: clients on_new_client_fd closed at once.           *)

lbVars     == <<lpc, peer, cursor, start, step, mode, link>>
workerVars == <<up, control, events, wpc, left, table>>
faultVars  == <<wcrashes, lcrashes, recvErrors, refused>>
vars == <<waiting, lbVars, conn, backlog, ready, workerVars, faultVars, gaveUp>>

-----------------------------------------------------------------------------
(* Control connections and epoll.                                          *)

(* A connection: whether the balancer's end is open, what became of the    *)
(* worker's ("closed", "backlog" or "control"), the descriptors in flight.  *)
FreeConn == [lb |-> FALSE, api |-> "closed", queue |-> << >>]

(* Both ends are gone.                                                     *)
Free(w, k) == ~conn[w][k].lb /\ conn[w][k].api = "closed"

Wake(list, token) ==
  IF \E i \in DOMAIN list : list[i] = token THEN list ELSE Append(list, token)

(* The list without the tokens outside keep: of its two tokens at most one *)
(* is left when one goes.                                                  *)
Kept(list, keep) ==
  LET rest == {list[i] : i \in DOMAIN list} \cap keep
  IN  IF \A i \in DOMAIN list : list[i] \in keep THEN list
      ELSE IF rest = {} THEN << >>
      ELSE <<CHOOSE token \in rest : TRUE>>

(* The control connection would be reported: EPOLLIN or EPOLLHUP.          *)
ControlReadable(c) == c.queue # << >> \/ ~c.lb

(* close() of the worker's end: what is in flight goes with it.            *)
WorkerEndClosed(c) == [c EXCEPT !.api = "closed", !.queue = << >>]

-----------------------------------------------------------------------------
(* The balancer.                                                           *)

(* The upstream route_to_upstream is called for.                           *)
Target == IF mode = "async" THEN (start + step) % WorkerCount ELSE start

Broken(w) == link[w] = NoSlot \/ conn[w][link[w]].api = "closed"

QueueFull(w) == Len(conn[w][link[w]].queue) >= QueueDepth

(* A connection reaches the listener of a running worker: connect().       *)
Connect(w) ==
  /\ up[w]
  /\ Len(backlog[w]) < Backlog
  /\ \E k \in Slots :
       /\ Free(w, k)
       /\ link' = [link EXCEPT ![w] = k]
       /\ conn' = [conn EXCEPT ![w][k] =
                     [lb |-> TRUE, api |-> "backlog", queue |-> << >>]]
       /\ backlog' = [backlog EXCEPT ![w] = Append(@, k)]
  /\ ready' = [ready EXCEPT ![w] = Wake(@, "listener")]

(* establish_link, for one upstream after the other.                       *)
EstablishLink ==
  /\ lpc = "link"
  /\ Connect(step)
  /\ IF step + 1 < WorkerCount
     THEN step' = step + 1 /\ UNCHANGED lpc
     ELSE step' = 0 /\ lpc' = "accept"
  /\ UNCHANGED <<waiting, peer, cursor, start, mode, workerVars, faultVars, gaveUp>>

(* accept_incoming and the choice of the first upstream.                   *)
AcceptIncoming ==
  /\ lpc = "accept"
  /\ \E c \in waiting : peer' = c /\ waiting' = waiting \ {c}
  /\ start' = cursor
  /\ cursor' = (cursor + 1) % WorkerCount
  /\ step' = 0
  /\ mode' = "async"
  /\ lpc' = "send"
  /\ UNCHANGED <<link, conn, backlog, ready, workerVars, faultVars, gaveUp>>

(* Fault: the loop over the upstreams goes on after a success.             *)
TransferDescriptorAgain ==
  /\ lpc \in {"send", "resend"}
  /\ LET w == Target
     IN  /\ ~Broken(w) /\ ~QueueFull(w)
         /\ conn' = [conn EXCEPT ![w][link[w]].queue = Append(@, peer)]
         /\ ready' = IF control[w] = link[w]
                     THEN [ready EXCEPT ![w] = Wake(@, "control")] ELSE ready
  /\ lpc' = IF mode = "async" THEN "send" ELSE "close"
  /\ mode' = "sync"
  /\ UNCHANGED <<waiting, peer, cursor, start, step, link, backlog,
                 workerVars, faultVars, gaveUp>>

(* sendmsg succeeds: the descriptor is in flight.                          *)
TransferDescriptor ==
  /\ lpc \in {"send", "resend"}
  /\ LET w == Target
     IN  /\ ~Broken(w) /\ ~QueueFull(w)
         /\ conn' = [conn EXCEPT ![w][link[w]].queue = Append(@, peer)]
         /\ ready' = IF control[w] = link[w]
                     THEN [ready EXCEPT ![w] = Wake(@, "control")] ELSE ready
  /\ lpc' = "close"
  /\ UNCHANGED <<waiting, peer, cursor, start, step, mode, link, backlog,
                 workerVars, faultVars, gaveUp>>

(* Fault: no synchronous attempt after the last asynchronous one.          *)
RouteFailedForGood ==
  /\ IF mode = "async" /\ step + 1 < WorkerCount
     THEN step' = step + 1 /\ lpc' = "send" /\ UNCHANGED gaveUp
     ELSE lpc' = "close" /\ gaveUp' = gaveUp \union {peer} /\ UNCHANGED step
  /\ UNCHANGED mode

(* After a failed asynchronous attempt, the next upstream; after the last, *)
(* the synchronous attempt.  After a failed synchronous one, close.        *)
RouteFailed ==
  IF mode = "async"
  THEN /\ IF step + 1 < WorkerCount
          THEN step' = step + 1 /\ UNCHANGED mode
          ELSE mode' = "sync" /\ UNCHANGED step
       /\ lpc' = "send"
       /\ UNCHANGED gaveUp
  ELSE /\ lpc' = "close"
       /\ gaveUp' = gaveUp \union {peer}
       /\ UNCHANGED <<step, mode>>

(* EAGAIN: no reconnection.  A synchronous send blocks instead.            *)
TransferWouldBlock ==
  /\ lpc \in {"send", "resend"}
  /\ mode = "async"
  /\ ~Broken(Target) /\ QueueFull(Target)
  /\ RouteFailed
  /\ UNCHANGED <<waiting, peer, cursor, start, link, conn, backlog, ready,
                 workerVars, faultVars>>

(* Fault: restore_connection does not close the old connection.            *)
TransferErrorLeaks ==
  /\ lpc = "send"
  /\ Broken(Target)
  /\ lpc' = "restore"
  /\ link' = [link EXCEPT ![Target] = NoSlot]
  /\ UNCHANGED <<waiting, peer, cursor, start, step, mode, conn, backlog, ready,
                 workerVars, faultVars, gaveUp>>

(* Any other error of the first attempt: restore_connection closes the     *)
(* connection ...                                                          *)
TransferError ==
  /\ lpc = "send"
  /\ Broken(Target)
  /\ lpc' = "restore"
  /\ conn' = IF link[Target] = NoSlot THEN conn
             ELSE [conn EXCEPT ![Target][link[Target]].lb = FALSE]
  /\ link' = [link EXCEPT ![Target] = NoSlot]
  /\ UNCHANGED <<waiting, peer, cursor, start, step, mode, backlog, ready,
                 workerVars, faultVars, gaveUp>>

(* ... and connects again, however long that takes.                        *)
RestoreConnection ==
  /\ lpc = "restore"
  /\ Connect(Target)
  /\ lpc' = "resend"
  /\ UNCHANGED <<waiting, peer, cursor, start, step, mode, workerVars,
                 faultVars, gaveUp>>

(* An error of the second attempt is the result of route_to_upstream.      *)
RetransferError ==
  /\ lpc = "resend"
  /\ Broken(Target)
  /\ RouteFailed
  /\ UNCHANGED <<waiting, peer, cursor, start, link, conn, backlog, ready,
                 workerVars, faultVars>>

(* close(peer_fd), whatever became of it.                                  *)
ClosePeer ==
  /\ lpc = "close"
  /\ lpc' = "accept"
  /\ peer' = NoClient
  /\ UNCHANGED <<waiting, cursor, start, step, mode, link, conn, backlog,
                 ready, workerVars, faultVars, gaveUp>>

Balancer == \/ EstablishLink \/ AcceptIncoming \/ TransferDescriptor
            \/ TransferWouldBlock \/ TransferError \/ RestoreConnection
            \/ RetransferError \/ ClosePeer

-----------------------------------------------------------------------------
(* The event loop of worker w.                                             *)

(* What the list entry of a token is reported as, if it still is ready.    *)
Event(w, token) ==
  IF token = "listener"
  THEN [token |-> token, slot |-> NoSlot, hup |-> FALSE]
  ELSE [token |-> token, slot |-> control[w], hup |-> ~conn[w][control[w]].lb]

StillReady(w, token) ==
  IF token = "listener" THEN backlog[w] # << >>
  ELSE control[w] # NoSlot /\ ControlReadable(conn[w][control[w]])

EpollWait(w) ==
  /\ up[w] /\ wpc[w] = "wait"
  /\ ready[w] # << >>
  /\ LET still == Kept(ready[w], {t \in {"listener", "control"} : StillReady(w, t)})
     IN  events' = [events EXCEPT ![w] = [i \in DOMAIN still |-> Event(w, still[i])]]
  /\ ready' = [ready EXCEPT ![w] = << >>]
  /\ wpc' = [wpc EXCEPT ![w] = "dispatch"]
  /\ UNCHANGED <<waiting, lbVars, conn, backlog, up, control, left, table,
                 faultVars, gaveUp>>

(* The end of a handler, or of the batch.                                  *)
BatchDone(w) ==
  /\ up[w] /\ wpc[w] = "dispatch" /\ events[w] = << >>
  /\ wpc' = [wpc EXCEPT ![w] = "wait"]
  /\ UNCHANGED <<waiting, lbVars, conn, backlog, ready, up, control, events,
                 left, table, faultVars, gaveUp>>

(* The next event: accept_control for the listener, drain_fds for the      *)
(* control connection if there is one.                                     *)
Dispatch(w) ==
  /\ up[w] /\ wpc[w] = "dispatch" /\ events[w] # << >>
  /\ LET e == Head(events[w])
     IN  IF e.token = "listener"
         THEN /\ wpc' = [wpc EXCEPT ![w] = "accept"]
              /\ left' = [left EXCEPT ![w] = AcceptBudget]
              /\ events' = [events EXCEPT ![w] = Tail(@)]
         ELSE IF control[w] = NoSlot
         THEN events' = [events EXCEPT ![w] = Tail(@)] /\ UNCHANGED <<wpc, left>>
         ELSE /\ wpc' = [wpc EXCEPT ![w] = "drain"]
              /\ left' = [left EXCEPT ![w] = RecvFdBudget]
              /\ UNCHANGED events
  /\ UNCHANGED <<waiting, lbVars, conn, backlog, ready, up, control, table,
                 faultVars, gaveUp>>

(* Fault: what a new control connection already holds is not reported.     *)
InstallControlUnreported(w) ==
  /\ up[w] /\ wpc[w] = "accept"
  /\ backlog[w] # << >> /\ control[w] = NoSlot
  /\ control' = [control EXCEPT ![w] = Head(backlog[w])]
  /\ conn' = [conn EXCEPT ![w][Head(backlog[w])].api = "control"]
  /\ backlog' = [backlog EXCEPT ![w] = Tail(@)]
  /\ wpc' = [wpc EXCEPT ![w] = "dispatch"]
  /\ UNCHANGED <<waiting, lbVars, ready, up, events, left, table, faultVars, gaveUp>>

(* accept4 returned a connection and there is no control connection.       *)
InstallControl(w) ==
  /\ up[w] /\ wpc[w] = "accept"
  /\ backlog[w] # << >> /\ control[w] = NoSlot
  /\ LET k == Head(backlog[w])
     IN  /\ control' = [control EXCEPT ![w] = k]
         /\ conn' = [conn EXCEPT ![w][k].api = "control"]
         /\ ready' = IF ControlReadable(conn[w][k])
                     THEN [ready EXCEPT ![w] = Wake(@, "control")] ELSE ready
  /\ backlog' = [backlog EXCEPT ![w] = Tail(@)]
  /\ IF AcceptBudget = 0 \/ left[w] = 1
     THEN wpc' = [wpc EXCEPT ![w] = "dispatch"] /\ UNCHANGED left
     ELSE left' = [left EXCEPT ![w] = @ - 1] /\ UNCHANGED wpc
  /\ UNCHANGED <<waiting, lbVars, up, events, table, faultVars, gaveUp>>

(* accept4 returned a connection beside the installed one: close it.       *)
CloseExtra(w) ==
  /\ up[w] /\ wpc[w] = "accept"
  /\ backlog[w] # << >> /\ control[w] # NoSlot
  /\ conn' = [conn EXCEPT ![w][Head(backlog[w])] = WorkerEndClosed(@)]
  /\ backlog' = [backlog EXCEPT ![w] = Tail(@)]
  /\ IF AcceptBudget = 0 THEN UNCHANGED <<wpc, left>>
     ELSE IF left[w] = 1
     THEN wpc' = [wpc EXCEPT ![w] = "dispatch"] /\ UNCHANGED left
     ELSE left' = [left EXCEPT ![w] = @ - 1] /\ UNCHANGED wpc
  /\ UNCHANGED <<waiting, lbVars, ready, up, control, events, table, faultVars,
                 gaveUp>>

AcceptWouldBlock(w) ==
  /\ up[w] /\ wpc[w] = "accept" /\ backlog[w] = << >>
  /\ wpc' = [wpc EXCEPT ![w] = "dispatch"]
  /\ UNCHANGED <<waiting, lbVars, conn, backlog, ready, up, control, events,
                 left, table, faultVars, gaveUp>>

ControlConn(w) == conn[w][control[w]]

(* on_new_client_fd: the client is taken into the table, or closed because *)
(* its number is beyond the tables or it cannot be made non-blocking.      *)
OnNewClientFd(w, c) ==
  \/ table' = [table EXCEPT ![w] = @ \union {c}] /\ UNCHANGED refused
  \/ refused' = refused \union {c} /\ UNCHANGED table

(* Fault: one descriptor per event.                                        *)
RecvFdOnce(w) ==
  /\ up[w] /\ wpc[w] = "drain" /\ left[w] > 0
  /\ ControlConn(w).queue # << >>
  /\ OnNewClientFd(w, Head(ControlConn(w).queue))
  /\ conn' = [conn EXCEPT ![w][control[w]].queue = Tail(@)]
  /\ left' = [left EXCEPT ![w] = 0]
  /\ UNCHANGED <<waiting, lbVars, backlog, ready, up, control, events, wpc,
                 wcrashes, lcrashes, recvErrors, gaveUp>>

(* recv_fd_nb returned a descriptor.                                       *)
RecvFd(w) ==
  /\ up[w] /\ wpc[w] = "drain" /\ left[w] > 0
  /\ ControlConn(w).queue # << >>
  /\ OnNewClientFd(w, Head(ControlConn(w).queue))
  /\ conn' = [conn EXCEPT ![w][control[w]].queue = Tail(@)]
  /\ left' = [left EXCEPT ![w] = @ - 1]
  /\ UNCHANGED <<waiting, lbVars, backlog, ready, up, control, events, wpc,
                 wcrashes, lcrashes, recvErrors, gaveUp>>

(* The control connection leaves epoll and is closed with what it holds.   *)
CloseControl(w) ==
  /\ conn' = [conn EXCEPT ![w][control[w]] = WorkerEndClosed(@)]
  /\ control' = [control EXCEPT ![w] = NoSlot]
  /\ ready' = [ready EXCEPT ![w] = Kept(@, {"listener"})]

(* drain_fds returns: on WouldBlock, on the Closed of a connection whose   *)
(* other end is gone, or out of iterations.  Closed, or EPOLLHUP in the    *)
(* event, closes the control connection.                                   *)
DrainDone(w) ==
  /\ up[w] /\ wpc[w] = "drain"
  /\ left[w] = 0 \/ ControlConn(w).queue = << >>
  /\ LET closed == left[w] > 0 /\ ~ControlConn(w).lb
     IN  IF closed \/ Head(events[w]).hup THEN CloseControl(w)
         ELSE UNCHANGED <<conn, control, ready>>
  /\ events' = [events EXCEPT ![w] = Tail(@)]
  /\ wpc' = [wpc EXCEPT ![w] = "dispatch"]
  /\ UNCHANGED <<waiting, lbVars, backlog, up, left, table, faultVars, gaveUp>>

(* recv_fd_nb reports Closed although the other end is there: recvmsg fails *)
(* with anything but EAGAIN, or there was no free number for the           *)
(* descriptor of the message.  drain_fds takes it for the end.             *)
RecvFdFails(w) ==
  /\ up[w] /\ wpc[w] = "drain" /\ left[w] > 0
  /\ recvErrors < MaxRecvErrors
  /\ recvErrors' = recvErrors + 1
  /\ CloseControl(w)
  /\ events' = [events EXCEPT ![w] = Tail(@)]
  /\ wpc' = [wpc EXCEPT ![w] = "dispatch"]
  /\ UNCHANGED <<waiting, lbVars, backlog, up, left, table, wcrashes, lcrashes,
                 refused, gaveUp>>

Worker(w) == \/ EpollWait(w) \/ BatchDone(w) \/ Dispatch(w) \/ InstallControl(w)
             \/ CloseExtra(w) \/ AcceptWouldBlock(w) \/ RecvFd(w) \/ RecvFdFails(w)
             \/ DrainDone(w)

-----------------------------------------------------------------------------
(* Crashes, and the restart of what crashed.                               *)

(* Every descriptor of the worker is closed: its clients, its control      *)
(* connection, and those its listener holds.                               *)
WorkerCrash(w) ==
  /\ up[w] /\ wcrashes < MaxWorkerCrashes
  /\ wcrashes' = wcrashes + 1
  /\ up' = [up EXCEPT ![w] = FALSE]
  /\ conn' = [conn EXCEPT ![w] = [k \in Slots |-> WorkerEndClosed(@[k])]]
  /\ backlog' = [backlog EXCEPT ![w] = << >>]
  /\ control' = [control EXCEPT ![w] = NoSlot]
  /\ ready' = [ready EXCEPT ![w] = << >>]
  /\ events' = [events EXCEPT ![w] = << >>]
  /\ wpc' = [wpc EXCEPT ![w] = "wait"]
  /\ left' = [left EXCEPT ![w] = 0]
  /\ table' = [table EXCEPT ![w] = {}]
  /\ UNCHANGED <<waiting, lbVars, lcrashes, recvErrors, refused, gaveUp>>

WorkerRestart(w) ==
  /\ ~up[w]
  /\ up' = [up EXCEPT ![w] = TRUE]
  /\ UNCHANGED <<waiting, lbVars, conn, backlog, ready, control, events, wpc,
                 left, table, faultVars, gaveUp>>

(* The balancer's ends close; descriptors in flight stay readable.         *)
LbCrash ==
  /\ lpc # "down" /\ lcrashes < MaxLbCrashes
  /\ lcrashes' = lcrashes + 1
  /\ lpc' = "down"
  /\ peer' = NoClient
  /\ conn' = [w \in Workers |-> [k \in Slots |->
                IF k = link[w] THEN [conn[w][k] EXCEPT !.lb = FALSE]
                ELSE conn[w][k]]]
  /\ ready' = [w \in Workers |->
                IF control[w] # NoSlot /\ control[w] = link[w]
                THEN Wake(ready[w], "control") ELSE ready[w]]
  /\ link' = [w \in Workers |-> NoSlot]
  /\ cursor' = 0 /\ start' = 0 /\ step' = 0 /\ mode' = "async"
  /\ UNCHANGED <<waiting, backlog, workerVars, wcrashes, recvErrors, refused, gaveUp>>

LbRestart ==
  /\ lpc = "down"
  /\ lpc' = "link"
  /\ UNCHANGED <<waiting, peer, cursor, start, step, mode, link, conn, backlog,
                 ready, workerVars, faultVars, gaveUp>>

-----------------------------------------------------------------------------
Init ==
  /\ waiting = Clients
  /\ lpc = "link" /\ peer = NoClient
  /\ cursor = 0 /\ start = 0 /\ step = 0 /\ mode = "async"
  /\ link = [w \in Workers |-> NoSlot]
  /\ conn = [w \in Workers |-> [k \in Slots |-> FreeConn]]
  /\ up = [w \in Workers |-> TRUE]
  /\ backlog = [w \in Workers |-> << >>]
  /\ control = [w \in Workers |-> NoSlot]
  /\ ready = [w \in Workers |-> << >>]
  /\ events = [w \in Workers |-> << >>]
  /\ wpc = [w \in Workers |-> "wait"]
  /\ left = [w \in Workers |-> 0]
  /\ table = [w \in Workers |-> {}]
  /\ wcrashes = 0 /\ lcrashes = 0 /\ recvErrors = 0
  /\ gaveUp = {} /\ refused = {}

Next ==
  \/ Balancer
  \/ \E w \in Workers : Worker(w) \/ WorkerCrash(w) \/ WorkerRestart(w)
  \/ LbCrash
  \/ LbRestart

(* Both processes run, and the container runtime restarts them.            *)
Fairness ==
  /\ WF_vars(Balancer)
  /\ WF_vars(LbRestart)
  /\ \A w \in Workers : WF_vars(Worker(w)) /\ WF_vars(WorkerRestart(w))

Spec == Init /\ [][Next]_vars /\ Fairness

-----------------------------------------------------------------------------
(* Properties.                                                             *)

(* The link the balancer sends on is open on its side and belongs to it    *)
(* alone, the listener and the control slot of a running worker hold what  *)
(* they accepted, and a slot is never in two of these places: no stale     *)
(* descriptor is sent on, received from or closed (evented.rs:97-121,      *)
(* lb/main.rs:87-97).                                                      *)
DescriptorsAreCurrent ==
  \A w \in Workers :
    /\ link[w] # NoSlot => conn[w][link[w]].lb
    /\ \A k \in Slots : conn[w][k].lb => link[w] = k
    /\ control[w] # NoSlot => conn[w][control[w]].api = "control"
    /\ \A k \in Slots : conn[w][k].api = "control" => control[w] = k
    /\ \A i \in DOMAIN backlog[w] : conn[w][backlog[w][i]].api = "backlog"

(* A worker that goes back to epoll_wait has been, or will be, told of     *)
(* every descriptor in its control connection, of the hang-up of that      *)
(* connection, and of every connection its listener holds: the budgets of  *)
(* drain_fds and accept_control strand nothing (evented.rs:161-214).       *)
NothingStranded ==
  \A w \in Workers :
    up[w] /\ wpc[w] = "wait" =>
      /\ control[w] # NoSlot /\ ControlReadable(conn[w][control[w]])
           => \E i \in DOMAIN ready[w] : ready[w][i] = "control"
      /\ backlog[w] # << >> => \E i \in DOMAIN ready[w] : ready[w][i] = "listener"

(* Where the hand-off has brought client c.                                *)
Place(c) ==
  IF c \in waiting THEN "waiting"
  ELSE IF \E w \in Workers : c \in table[w] THEN "received"
  ELSE IF \E w \in Workers, k \in Slots : \E i \in DOMAIN conn[w][k].queue :
            conn[w][k].queue[i] = c THEN "passed"
  ELSE IF peer = c /\ lpc \in {"send", "restore", "resend"} THEN "held"
  ELSE "lost"

(* The hand-off implements the abstract one: each client is accepted once, *)
(* passed on at most once although route_to_upstream retries, received     *)
(* once, and never comes back (lb/main.rs:205-226, evented.rs:194-214).    *)
Abstract == INSTANCE Handoff WITH place <- [c \in Clients |-> Place(c)]
HandoffIsAbstract == Abstract!Spec

(* While no process has crashed and no reception has failed, a client is   *)
(* lost only by being refused in its worker: neither the retries of        *)
(* route_to_upstream, nor the silent close after its last attempt, nor the *)
(* closing of connections beside the installed one drops a client          *)
(* (lb/main.rs:205-226, evented.rs:97-121,161-192).  Each of the two       *)
(* exceptions loses clients that nobody is told of.                        *)
OnlyFaultsLose ==
  wcrashes = 0 /\ lcrashes = 0 /\ recvErrors = 0 =>
    \A c \in Clients : Place(c) = "lost" => c \in refused

(* The balancer closes a client it has not passed on only after its        *)
(* synchronous attempt found the connection broken twice: while it has not *)
(* crashed itself, that takes two crashes or failed receptions of workers  *)
(* (lb/main.rs:213-223,308-318, evented.rs:208-211).                       *)
GiveUpTakesTwoBreaks ==
  lcrashes = 0 /\ gaveUp # {} => wcrashes + recvErrors >= 2

(* Every client the balancer has accepted is received by a worker, or lost *)
(* with a process or connection that ended or by a refusal: none is left   *)
(* in a queue, nor in the balancer's hands while its last, synchronous     *)
(* attempt blocks.                                                         *)
EveryClientSettles ==
  \A c \in Clients : Place(c) \in {"held", "passed"} ~> Place(c) \in {"received", "lost"}
=============================================================================
