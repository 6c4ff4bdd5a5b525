-------------------------- MODULE FdHandoffProofs --------------------------
(***************************************************************************)
(* Theorems about FdHandoff, for every number of clients, workers, slots   *)
(* and crashes and all budgets and depths.                                 *)
(***************************************************************************)
EXTENDS FdHandoff, SequenceTheorems, TLAPS

Ends   == {"closed", "backlog", "control"}
Tokens == {"listener", "control"}

Connections == [lb : BOOLEAN, api : Ends, queue : Seq(Clients)]
EventSet    == [token : Tokens, slot : Slots \cup {NoSlot}, hup : BOOLEAN]

TypeOK ==
  /\ waiting \in SUBSET Clients
  /\ lpc \in {"link", "accept", "send", "restore", "resend", "close", "down"}
  /\ peer \in Clients \cup {NoClient}
  /\ cursor \in Workers /\ start \in Workers /\ step \in Workers
  /\ mode \in {"async", "sync"}
  /\ link \in [Workers -> Slots \cup {NoSlot}]
  /\ conn \in [Workers -> [Slots -> Connections]]
  /\ up \in [Workers -> BOOLEAN]
  /\ backlog \in [Workers -> Seq(Slots)]
  /\ control \in [Workers -> Slots \cup {NoSlot}]
  /\ ready \in [Workers -> Seq(Tokens)]
  /\ events \in [Workers -> Seq(EventSet)]
  /\ wpc \in [Workers -> {"wait", "dispatch", "accept", "drain"}]
  /\ left \in [Workers -> Nat]
  /\ table \in [Workers -> SUBSET Clients]
  /\ wcrashes \in Nat /\ lcrashes \in Nat /\ recvErrors \in Nat
  /\ gaveUp \in SUBSET Clients /\ refused \in SUBSET Clients

(* Where the balancer is says whether it holds a client.                   *)
HoldsPeer == peer \in Clients <=> lpc \in {"send", "restore", "resend", "close"}

(* Where the balancer is says which of its links are made.                 *)
LinksMade ==
  /\ lpc = "link" => \A w \in Workers : link[w] # NoSlot <=> w < step
  /\ lpc = "down" => step = 0 /\ \A w \in Workers : link[w] = NoSlot
  /\ lpc \in {"accept", "send", "resend", "close"}
       => \A w \in Workers : link[w] # NoSlot
  /\ lpc = "restore" => \A w \in Workers : link[w] = NoSlot <=> w = Target

(* Where a worker is says what it has open and which event it handles.     *)
LoopAt(w) ==
  /\ wpc[w] = "drain" =>
       control[w] # NoSlot /\ events[w] # << >> /\ Head(events[w]).token = "control"
  /\ wpc[w] = "wait" => events[w] = << >>
  /\ wpc[w] = "accept" /\ AcceptBudget # 0 => left[w] # 0
  /\ ~up[w] => /\ wpc[w] = "wait" /\ control[w] = NoSlot
               /\ backlog[w] = << >> /\ ready[w] = << >>
               /\ \A k \in Slots : conn[w][k].api = "closed"

(* What DescriptorsAreCurrent says of one worker.                          *)
CurrentAt(w) ==
  /\ link[w] # NoSlot => conn[w][link[w]].lb
  /\ \A k \in Slots : conn[w][k].lb => link[w] = k
  /\ control[w] # NoSlot => conn[w][control[w]].api = "control"
  /\ \A k \in Slots : conn[w][k].api = "control" => control[w] = k
  /\ \A i \in DOMAIN backlog[w] : conn[w][backlog[w][i]].api = "backlog"

(* A closed end holds nothing, and the listener holds an end once.         *)
EndsOnceAt(w) ==
  /\ \A k \in Slots : conn[w][k].api = "closed" => conn[w][k].queue = << >>
  /\ \A i, j \in DOMAIN backlog[w] : backlog[w][i] = backlog[w][j] => i = j

WorkerAt(w) == LoopAt(w) /\ CurrentAt(w) /\ EndsOnceAt(w)

LinkInv == TypeOK /\ HoldsPeer /\ LinksMade /\ \A w \in Workers : WorkerAt(w)

(* Client c is in flight in connection k of worker w.                      *)
InQueue(c, w, k) == \E i \in DOMAIN conn[w][k].queue : conn[w][k].queue[i] = c

Held(c) == peer = c /\ lpc \in {"send", "restore", "resend"}

(* A client is in one place only, and there once.                          *)
OnePlace ==
  /\ \A c \in waiting : peer # c
  /\ \A c \in Clients, w \in Workers, k \in Slots :
       InQueue(c, w, k) => c \notin waiting /\ ~Held(c)
  /\ \A c \in Clients, w \in Workers :
       c \in table[w] => c \notin waiting /\ ~Held(c)
  /\ \A c \in Clients, v, w \in Workers, k \in Slots :
       InQueue(c, w, k) => c \notin table[v]
  /\ \A c \in Clients, v, w \in Workers : c \in table[v] /\ c \in table[w] => v = w
  /\ \A c \in Clients, v, w \in Workers, k, l \in Slots :
       InQueue(c, v, k) /\ InQueue(c, w, l) => v = w /\ k = l
  /\ \A w \in Workers, k \in Slots : \A i, j \in DOMAIN conn[w][k].queue :
       conn[w][k].queue[i] = conn[w][k].queue[j] => i = j

(* What closes the worker's end of an installed connection.                *)
Breaks == wcrashes + recvErrors

(* While the balancer has not crashed, only crashes and failed receptions  *)
(* of workers break connections.                                           *)
BreaksTakeCrashes ==
  lcrashes = 0 =>
    /\ lpc # "down"
    /\ \A w \in Workers, k \in Slots : conn[w][k].api # "closed" => conn[w][k].lb
    /\ \A w \in Workers : \A i \in DOMAIN events[w] : ~events[w][i].hup
    /\ \A w \in Workers : link[w] # NoSlot /\ Broken(w) => Breaks >= 1
    /\ lpc \in {"restore", "resend"} => Breaks >= 1
    /\ lpc = "resend" /\ Broken(Target) => Breaks >= 2
    /\ gaveUp # {} => Breaks >= 2

(* Token t is in the ready list of worker w.                               *)
Pending(w, t) == \E i \in DOMAIN ready[w] : ready[w][i] = t

(* The batch of worker w still has an event of token t.                    *)
InBatch(w, t) == \E i \in DOMAIN events[w] : events[w][i].token = t

HangUpInBatch(w) ==
  \E i \in DOMAIN events[w] : events[w][i].token = "control" /\ events[w][i].hup

(* The sockets of worker w hold what the budgets let one event take.       *)
Bounded(w) ==
  /\ Len(backlog[w]) <= Backlog
  /\ \A k \in Slots : Len(conn[w][k].queue) <= QueueDepth

(* What is readable has an edge still to be handled.                       *)
ListenerEdge(w) ==
  backlog[w] # << >> =>
    \/ Pending(w, "listener") \/ InBatch(w, "listener")
    \/ wpc[w] = "accept" /\ Len(backlog[w]) <= left[w]

HangUpEdge(w) ==
  control[w] # NoSlot /\ ~ControlConn(w).lb => Pending(w, "control") \/ HangUpInBatch(w)

QueueEdge(w) ==
  control[w] # NoSlot /\ ControlConn(w).queue # << >> =>
    \/ Pending(w, "control")
    \/ wpc[w] # "drain" /\ InBatch(w, "control")
    \/ wpc[w] = "drain" /\ Len(ControlConn(w).queue) <= left[w]

EdgeLeft(w) == ListenerEdge(w) /\ HangUpEdge(w) /\ QueueEdge(w)

BudgetsSuffice == AcceptBudget >= Backlog /\ RecvFdBudget >= QueueDepth

EdgesLeft == \A w \in Workers : Bounded(w) /\ EdgeLeft(w)

-----------------------------------------------------------------------------
(* What the operators the actions share return.                            *)

LEMMA ModInWorkers ==
  ASSUME NEW n \in Nat
  PROVE  n % WorkerCount \in Workers
BY HandoffAssumption DEF Workers

LEMMA TargetInWorkers == TypeOK => Target \in Workers
<1>1. \A v \in Workers : v \in Nat
  BY HandoffAssumption DEF Workers
<1>2. TypeOK => start \in Nat /\ step \in Nat /\ start \in Workers
  BY <1>1, Zenon DEF TypeOK
<1>3. TypeOK => start + step \in Nat
  BY <1>2
<1> QED BY <1>2, <1>3, ModInWorkers DEF Target

LEMMA HeadTail ==
  ASSUME NEW S, NEW q \in Seq(S), q # << >>
  PROVE  /\ Head(q) \in S /\ Head(q) = q[1] /\ 1 \in DOMAIN q
         /\ Tail(q) \in Seq(S) /\ Len(Tail(q)) = Len(q) - 1
         /\ \A i \in DOMAIN Tail(q) : i + 1 \in DOMAIN q /\ Tail(q)[i] = q[i + 1]
         /\ \A j \in DOMAIN q : j # 1 => j - 1 \in DOMAIN Tail(q)
OBVIOUS

LEMMA Appended ==
  ASSUME NEW S, NEW q \in Seq(S), NEW e \in S
  PROVE  /\ Append(q, e) \in Seq(S) /\ Append(q, e) # << >>
         /\ Len(Append(q, e)) = Len(q) + 1
         /\ DOMAIN q \in SUBSET (Nat \ {0}) /\ Len(q) + 1 \notin DOMAIN q
         /\ DOMAIN Append(q, e) = DOMAIN q \cup {Len(q) + 1}
         /\ \A i \in DOMAIN q : Append(q, e)[i] = q[i]
         /\ Append(q, e)[Len(q) + 1] = e
         /\ \A i \in DOMAIN Append(q, e) :
              \/ i \in DOMAIN q /\ Append(q, e)[i] = q[i]
              \/ i = Len(q) + 1 /\ Append(q, e)[i] = e
OBVIOUS

(* Wake adds the token if it is not there, and nothing else.               *)
LEMMA Woken ==
  ASSUME NEW list \in Seq(Tokens), NEW t \in Tokens
  PROVE  /\ Wake(list, t) \in Seq(Tokens) /\ Wake(list, t) # << >>
         /\ \A u : (\E i \in DOMAIN Wake(list, t) : Wake(list, t)[i] = u)
                     <=> u = t \/ \E i \in DOMAIN list : list[i] = u
<1>1. CASE \E i \in DOMAIN list : list[i] = t
  BY <1>1 DEF Wake
<1>2. CASE ~ \E i \in DOMAIN list : list[i] = t
  BY <1>2, Appended DEF Wake
<1> QED BY <1>1, <1>2

LEMMA OneElement ==
  ASSUME NEW S, NEW e \in S
  PROVE  <<e>> \in Seq(S) /\ \A u : (\E i \in DOMAIN <<e>> : <<e>>[i] = u) <=> u = e
OBVIOUS

(* Kept leaves the tokens of keep, and nothing else.                       *)
LEMMA KeptTokens ==
  ASSUME NEW list \in Seq(Tokens), NEW keep
  PROVE  /\ Kept(list, keep) \in Seq(Tokens)
         /\ \A u : (\E i \in DOMAIN Kept(list, keep) : Kept(list, keep)[i] = u)
                     <=> u \in keep /\ \E i \in DOMAIN list : list[i] = u
<1> DEFINE rest == {list[i] : i \in DOMAIN list} \cap keep
           one  == CHOOSE token \in rest : TRUE
<1>1. rest \in SUBSET Tokens
  OBVIOUS
<1>2. CASE \A i \in DOMAIN list : list[i] \in keep
  BY <1>2 DEF Kept
<1>3. CASE (\E i \in DOMAIN list : list[i] \notin keep) /\ rest = {}
  <2>1. Kept(list, keep) = << >>
    BY <1>3 DEF Kept
  <2> QED BY <2>1, <1>3
<1>4. CASE (\E i \in DOMAIN list : list[i] \notin keep) /\ rest # {}
  <2>1. Kept(list, keep) = <<one>>
    BY <1>4 DEF Kept
  <2>2. one \in rest
    BY <1>4
  <2>3. \A u \in rest : u = one
    BY <1>1, <1>4, <2>2 DEF Tokens
  <2> HIDE DEF one
  <2>4. one \in Tokens
    BY <2>2, <1>1
  <2>5. <<one>> \in Seq(Tokens)
        /\ \A u : (\E i \in DOMAIN <<one>> : <<one>>[i] = u) <=> u = one
    BY <2>4, OneElement
  <2> QED BY <2>1, <2>2, <2>3, <2>4, <2>5
<1> QED BY <1>2, <1>3, <1>4

-----------------------------------------------------------------------------
(* The links, the ends of the connections and the loops that use them.     *)

(* Connection k of worker w becomes r, and no other changes.               *)
Becomes(w, k, r) ==
  /\ conn' \in [Workers -> [Slots -> Connections]]
  /\ \A v \in Workers, l \in Slots :
       conn'[v][l] = IF v = w /\ l = k THEN r ELSE conn[v][l]

LEMMA CellSet ==
  ASSUME TypeOK, NEW w \in Workers, NEW k \in Slots, NEW r \in Connections,
         conn' = [conn EXCEPT ![w][k] = r]
  PROVE  Becomes(w, k, r)
BY DEF TypeOK, Becomes

LEMMA ConnFields ==
  ASSUME TypeOK, NEW w \in Workers, NEW k \in Slots
  PROVE  /\ conn[w][k] \in Connections
         /\ conn[w][k].lb \in BOOLEAN /\ conn[w][k].api \in Ends
         /\ conn[w][k].queue \in Seq(Clients)
<1>1. conn[w][k] \in Connections
  BY DEF TypeOK
<1> QED BY <1>1 DEF Connections

LEMMA SlotsOf ==
  ASSUME TypeOK, NEW w \in Workers
  PROVE  /\ control[w] \in Slots \cup {NoSlot} /\ link[w] \in Slots \cup {NoSlot}
         /\ backlog[w] \in Seq(Slots) /\ \A i \in DOMAIN backlog[w] : backlog[w][i] \in Slots
<1>1. backlog[w] \in Seq(Slots)
  BY DEF TypeOK
<1>2. control[w] \in Slots \cup {NoSlot} /\ link[w] \in Slots \cup {NoSlot}
  BY DEF TypeOK
<1> QED BY <1>1, <1>2

LEMMA ClosedEnd ==
  ASSUME NEW c \in Connections
  PROVE  /\ WorkerEndClosed(c) \in Connections
         /\ WorkerEndClosed(c).lb = c.lb /\ WorkerEndClosed(c).api = "closed"
         /\ WorkerEndClosed(c).queue = << >>
<1> DEFINE d == [c EXCEPT !.api = "closed"]
<1>1. d \in Connections /\ d.lb = c.lb /\ d.api = "closed"
  BY DEF Connections, Ends
<1>2. WorkerEndClosed(c) = [d EXCEPT !.queue = << >>]
  BY DEF WorkerEndClosed
<1> HIDE DEF d
<1>3. << >> \in Seq(Clients)
  OBVIOUS
<1> QED BY <1>1, <1>2, <1>3 DEF Connections

(* connect() makes a new connection of a free slot.                        *)
LEMMA Connected ==
  ASSUME TypeOK, NEW w \in Workers, Connect(w)
  PROVE  \E k \in Slots :
           /\ ~conn[w][k].lb /\ conn[w][k].api = "closed"
           /\ link' = [link EXCEPT ![w] = k]
           /\ Becomes(w, k, [lb |-> TRUE, api |-> "backlog", queue |-> << >>])
           /\ backlog' = [backlog EXCEPT ![w] = Append(@, k)]
           /\ link' \in [Workers -> Slots \cup {NoSlot}]
           /\ backlog' \in [Workers -> Seq(Slots)]
           /\ ready' \in [Workers -> Seq(Tokens)]
           /\ up[w] /\ Len(backlog[w]) < Backlog
           /\ \A v \in Workers \ {w} : ready'[v] = ready[v]
           /\ ready'[w] = Wake(ready[w], "listener")
<1>1. PICK k \in Slots :
        /\ Free(w, k)
        /\ link' = [link EXCEPT ![w] = k]
        /\ conn' = [conn EXCEPT ![w][k] = [lb |-> TRUE, api |-> "backlog", queue |-> << >>]]
        /\ backlog' = [backlog EXCEPT ![w] = Append(@, k)]
  BY DEF Connect
<1>2. [lb |-> TRUE, api |-> "backlog", queue |-> << >>] \in Connections
  BY DEF Connections, Ends
<1>3. Becomes(w, k, [lb |-> TRUE, api |-> "backlog", queue |-> << >>])
  BY <1>1, <1>2, CellSet
<1>4. Wake(ready[w], "listener") \in Seq(Tokens)
  BY Woken DEF TypeOK, Tokens
<1>5. ready' = [ready EXCEPT ![w] = Wake(@, "listener")] /\ up[w] /\ Len(backlog[w]) < Backlog
  BY DEF Connect
<1>6. link' \in [Workers -> Slots \cup {NoSlot}]
  BY <1>1 DEF TypeOK
<1>7. backlog' \in [Workers -> Seq(Slots)]
  BY <1>1, Appended DEF TypeOK
<1>8. /\ ready' \in [Workers -> Seq(Tokens)] /\ ready'[w] = Wake(ready[w], "listener")
      /\ \A v \in Workers \ {w} : ready'[v] = ready[v]
  BY <1>4, <1>5 DEF TypeOK
<1> QED BY <1>1, <1>3, <1>5, <1>6, <1>7, <1>8 DEF Free

(* Nothing of worker w changes.                                            *)
Untouched(w) ==
  /\ link'[w] = link[w] /\ backlog'[w] = backlog[w] /\ ready'[w] = ready[w]
  /\ up'[w] = up[w] /\ control'[w] = control[w] /\ events'[w] = events[w]
  /\ wpc'[w] = wpc[w] /\ left'[w] = left[w]
  /\ \A k \in Slots : conn'[w][k] = conn[w][k]

LEMMA UntouchedWorker ==
  ASSUME TypeOK, NEW w \in Workers, WorkerAt(w), Untouched(w)
  PROVE  WorkerAt(w)'
<1> USE DEF Untouched, WorkerAt
<1>1. LoopAt(w)'
  BY DEF LoopAt
<1>2. CurrentAt(w)'
  BY SlotsOf DEF CurrentAt
<1>3. EndsOnceAt(w)'
  BY DEF EndsOnceAt
<1> QED BY <1>1, <1>2, <1>3

(* What the balancer does to its own variables leaves the workers alone.   *)
LEMMA WorkersUntouched ==
  ASSUME LinkInv, UNCHANGED <<link, conn, backlog, ready, workerVars>>
  PROVE  \A w \in Workers : WorkerAt(w)'
BY UntouchedWorker DEF LinkInv, Untouched, workerVars

LEMMA NextCursor ==
  ASSUME TypeOK
  PROVE  /\ (cursor + 1) % WorkerCount \in Workers /\ 0 \in Workers
         /\ step + 1 < WorkerCount => step + 1 \in Workers
<1>1. cursor + 1 \in Nat /\ step + 1 \in Nat
  BY HandoffAssumption DEF TypeOK, Workers
<1>2. 0 \in Workers /\ (step + 1 < WorkerCount => step + 1 \in Workers)
  BY <1>1, HandoffAssumption DEF Workers
<1> QED BY <1>1, <1>2, ModInWorkers

LEMMA LinkInvAccept ==
  ASSUME LinkInv, AcceptIncoming
  PROVE  LinkInv'
<1> USE DEF LinkInv, AcceptIncoming
<1>1. TypeOK'
  BY NextCursor DEF TypeOK, workerVars, faultVars
<1>2. HoldsPeer'
  BY <1>1, HandoffAssumption DEF HoldsPeer, TypeOK
<1>3. LinksMade'
  BY DEF LinksMade
<1> QED BY <1>1, <1>2, <1>3, WorkersUntouched

LEMMA LinkInvRouteFailed ==
  ASSUME LinkInv, TransferWouldBlock \/ RetransferError
  PROVE  LinkInv'
<1> USE DEF LinkInv, TransferWouldBlock, RetransferError, RouteFailed
<1>0. peer \in Clients
  BY DEF HoldsPeer
<1>1. UNCHANGED <<waiting, peer, cursor, start, link, conn, backlog, ready,
                  workerVars, faultVars>>
  OBVIOUS
<1>2. /\ step' \in Workers /\ mode' \in {"async", "sync"}
      /\ lpc' \in {"send", "close"} /\ gaveUp' \in SUBSET Clients
  <2>1. step' \in Workers
    BY NextCursor DEF TypeOK
  <2>2. mode' \in {"async", "sync"} /\ lpc' \in {"send", "close"}
    BY DEF TypeOK
  <2>3. gaveUp' = gaveUp \/ gaveUp' = gaveUp \cup {peer}
    OBVIOUS
  <2> QED BY <1>0, <2>1, <2>2, <2>3 DEF TypeOK
<1>3. TypeOK'
  BY <1>1, <1>2 DEF TypeOK, workerVars, faultVars
<1>4. HoldsPeer'
  BY <1>1, <1>2 DEF HoldsPeer
<1>5. LinksMade'
  BY <1>1, <1>2 DEF LinksMade
<1> QED BY <1>1, <1>3, <1>4, <1>5, WorkersUntouched

LEMMA LinkInvClose ==
  ASSUME LinkInv, ClosePeer \/ LbRestart
  PROVE  LinkInv'
<1> USE DEF LinkInv, ClosePeer, LbRestart
<1>1. TypeOK'
  BY DEF TypeOK, workerVars, faultVars
<1>2. HoldsPeer'
  BY HandoffAssumption DEF HoldsPeer
<1>3. LinksMade'
  <2>1. \A w \in Workers : ~(w < 0)
    BY HandoffAssumption DEF Workers
  <2> QED BY <2>1 DEF LinksMade
<1> QED BY <1>1, <1>2, <1>3, WorkersUntouched

LEMMA ConnectPreserves ==
  ASSUME LinkInv, NEW w \in Workers, Connect(w), link[w] = NoSlot, UNCHANGED workerVars
  PROVE  \A v \in Workers : WorkerAt(v)'
<1>0. TypeOK /\ WorkerAt(w) /\ \A v \in Workers : WorkerAt(v)
  BY DEF LinkInv
<1> USE <1>0
<1>1. PICK k \in Slots :
           /\ ~conn[w][k].lb /\ conn[w][k].api = "closed"
           /\ link' = [link EXCEPT ![w] = k]
           /\ Becomes(w, k, [lb |-> TRUE, api |-> "backlog", queue |-> << >>])
           /\ backlog' = [backlog EXCEPT ![w] = Append(@, k)]
           /\ up[w]
           /\ \A v \in Workers \ {w} : ready'[v] = ready[v]
  BY Connected DEF LinkInv
<1>2. ASSUME NEW v \in Workers
      PROVE  WorkerAt(v)'
  <2>1. CASE v # w
    BY <2>1, <1>1, UntouchedWorker DEF Untouched, workerVars, Becomes, TypeOK
  <2>2. CASE v = w
    <3> DEFINE b == backlog[w]
    <3>0. LoopAt(w) /\ CurrentAt(w) /\ EndsOnceAt(w)
      BY DEF WorkerAt
    <3>1. /\ link'[w] = k /\ backlog'[w] = Append(b, k) /\ b \in Seq(Slots)
          /\ conn'[w][k] = [lb |-> TRUE, api |-> "backlog", queue |-> << >>]
          /\ \A l \in Slots : l # k => conn'[w][l] = conn[w][l]
      BY <1>1 DEF Becomes, TypeOK
    <3>2. UNCHANGED <<up, control, events, wpc, left>> /\ k # NoSlot
      BY HandoffAssumption DEF workerVars
    <3>3. \A i \in DOMAIN b : b[i] \in Slots /\ b[i] # k
      BY <3>0, <3>1, <1>1 DEF CurrentAt
    <3>a. \A i \in DOMAIN backlog'[w] :
              \/ i \in DOMAIN b /\ backlog'[w][i] = b[i]
              \/ i = Len(b) + 1 /\ backlog'[w][i] = k
      <4> HIDE DEF b
      <4> QED BY <3>1, Appended
    <3>4. LoopAt(w)'
      <4>1. up[w] /\ up'[w]
        BY <3>2, <1>1
      <4> QED BY <3>0, <3>2, <4>1 DEF LoopAt
    <3>5. CurrentAt(w)'
      <4>1. control[w] \in Slots \cup {NoSlot} /\ control[w] # k
        BY <3>0, <3>2, <1>1 DEF TypeOK, CurrentAt
      <4>2. \A i \in DOMAIN backlog'[w] : conn'[w][backlog'[w][i]].api = "backlog"
        <5> HIDE DEF b
        <5>1. \A i \in DOMAIN b : conn'[w][b[i]].api = "backlog"
          BY <3>0, <3>1, <3>3 DEF b, CurrentAt
        <5> QED BY <5>1, <3>1, <3>a
      <4> QED BY SMTT(20), <3>0, <3>1, <3>2, <4>1, <4>2, HandoffAssumption DEF CurrentAt
    <3>6. EndsOnceAt(w)'
      <4> HIDE DEF b
      <4>1. \A i, j \in DOMAIN backlog'[w] : backlog'[w][i] = backlog'[w][j] => i = j
        <5>1. \A i, j \in DOMAIN b : b[i] = b[j] => i = j
          BY <3>0 DEF b, EndsOnceAt
        <5> QED BY <5>1, <3>3, <3>a
      <4>2. \A l \in Slots : conn'[w][l].api = "closed" => conn'[w][l].queue = << >>
        BY <3>0, <3>1 DEF EndsOnceAt
      <4> QED BY <4>1, <4>2 DEF EndsOnceAt
    <3> QED BY <2>2, <3>4, <3>5, <3>6 DEF WorkerAt
  <2> QED BY <2>1, <2>2
<1> QED BY <1>2

LEMMA LinkInvConnect ==
  ASSUME LinkInv, EstablishLink \/ RestoreConnection
  PROVE  LinkInv'
<1> USE DEF LinkInv
<1>0. /\ UNCHANGED <<waiting, peer, cursor, start, mode, workerVars, faultVars, gaveUp>>
      /\ \E w \in Workers : /\ w = IF lpc = "link" THEN step ELSE Target
                            /\ Connect(w) /\ link[w] = NoSlot
  <2>1. CASE EstablishLink
    BY <2>1, HandoffAssumption DEF EstablishLink, LinksMade, TypeOK, Workers
  <2>2. CASE RestoreConnection
    BY <2>2, TargetInWorkers DEF RestoreConnection, LinksMade
  <2> QED BY <2>1, <2>2
<1>1. PICK w \in Workers : /\ w = IF lpc = "link" THEN step ELSE Target
                           /\ Connect(w) /\ link[w] = NoSlot
  BY <1>0
<1>2. PICK k \in Slots :
        /\ link' = [link EXCEPT ![w] = k]
        /\ Becomes(w, k, [lb |-> TRUE, api |-> "backlog", queue |-> << >>])
        /\ link' \in [Workers -> Slots \cup {NoSlot}]
        /\ backlog' \in [Workers -> Seq(Slots)]
        /\ ready' \in [Workers -> Seq(Tokens)]
  BY <1>1, Connected
<1>3. TypeOK'
  <2>1. lpc' \in {"link", "accept", "resend"} /\ step' \in Workers
    BY NextCursor DEF TypeOK, EstablishLink, RestoreConnection
  <2> QED BY <1>0, <1>2, <2>1 DEF TypeOK, workerVars, faultVars, Becomes
<1>4. HoldsPeer'
  BY DEF HoldsPeer, EstablishLink, RestoreConnection
<1>5. LinksMade'
  <2>0. k # NoSlot
    BY HandoffAssumption
  <2>1. CASE EstablishLink
    <3>1. w = step /\ step \in Workers /\ \A v \in Workers : v \in Int
      BY <2>1, <1>1, HandoffAssumption DEF EstablishLink, TypeOK, Workers
    <3>2. \A v \in Workers : link'[v] # NoSlot <=> v < step + 1
      <4>1. \A v \in Workers : link[v] # NoSlot <=> v < step
        BY <2>1 DEF EstablishLink, LinksMade
      <4>2. \A v \in Workers : link'[v] = IF v = w THEN k ELSE link[v]
        BY <1>2 DEF TypeOK
      <4> QED BY <2>0, <3>1, <4>1, <4>2
    <3>3. step + 1 < WorkerCount \/ \A v \in Workers : v < step + 1
      BY HandoffAssumption DEF TypeOK, Workers
    <3> QED BY <2>1, <3>2, <3>3 DEF EstablishLink, LinksMade
  <2>2. CASE RestoreConnection
    BY <2>0, <2>2, <1>1, <1>2 DEF RestoreConnection, LinksMade, TypeOK
  <2> QED BY <2>1, <2>2
<1> QED BY <1>0, <1>1, <1>3, <1>4, <1>5, ConnectPreserves


(* sendmsg appends the descriptor to what is in flight on the link.        *)
LEMMA Transferred ==
  ASSUME LinkInv, TransferDescriptor
  PROVE  \E w \in Workers, k \in Slots, r \in Connections :
           /\ w = Target /\ k = link[w] /\ peer \in Clients
           /\ conn[w][k].api # "closed" /\ Len(conn[w][k].queue) < QueueDepth
           /\ Becomes(w, k, r) /\ r.lb = conn[w][k].lb /\ r.api = conn[w][k].api
           /\ r.queue = Append(conn[w][k].queue, peer)
           /\ ready' \in [Workers -> Seq(Tokens)]
           /\ \A v \in Workers : ready'[v] =
                IF v = w /\ control[w] = k THEN Wake(ready[w], "control") ELSE ready[v]
<1> USE DEF LinkInv
<1>1. PICK w \in Workers : w = Target
  BY TargetInWorkers
<1>2. /\ ~Broken(w) /\ ~QueueFull(w) /\ lpc \in {"send", "resend"}
      /\ conn' = [conn EXCEPT ![w][link[w]].queue = Append(@, peer)]
      /\ ready' = IF control[w] = link[w]
                  THEN [ready EXCEPT ![w] = Wake(@, "control")] ELSE ready
  BY <1>1 DEF TransferDescriptor
<1>3. PICK k \in Slots : k = link[w]
  BY <1>2 DEF Broken, TypeOK
<1>4. peer \in Clients
  BY <1>2 DEF HoldsPeer
<1> DEFINE r == [conn[w][k] EXCEPT !.queue = Append(@, peer)]
<1>5. /\ r \in Connections /\ r.lb = conn[w][k].lb /\ r.api = conn[w][k].api
      /\ r.queue = Append(conn[w][k].queue, peer)
  <2>1. Append(conn[w][k].queue, peer) \in Seq(Clients)
    BY <1>4, ConnFields, Appended
  <2> QED BY <2>1, ConnFields DEF Connections
<1>6. conn' = [conn EXCEPT ![w][k] = r]
  BY <1>2, <1>3
<1>7. Wake(ready[w], "control") \in Seq(Tokens)
  BY Woken DEF TypeOK, Tokens
<1>8. /\ ready' \in [Workers -> Seq(Tokens)]
      /\ \A v \in Workers : ready'[v] =
           IF v = w /\ control[w] = k THEN Wake(ready[w], "control") ELSE ready[v]
  BY <1>2, <1>3, <1>7 DEF TypeOK
<1>9. conn[w][k].api # "closed" /\ Len(conn[w][k].queue) < QueueDepth
  <2>1. Len(conn[w][k].queue) \in Nat
    BY ConnFields
  <2> QED BY SMTT(30), <1>2, <1>3, <2>1, HandoffAssumption DEF Broken, QueueFull
<1> HIDE DEF r
<1>10. Becomes(w, k, r)
  BY <1>5, <1>6, CellSet
<1> QED BY <1>1, <1>3, <1>4, <1>5, <1>8, <1>9, <1>10

LEMMA LinkInvTransfer ==
  ASSUME LinkInv, TransferDescriptor
  PROVE  LinkInv'
<1> USE DEF LinkInv
<1>1. PICK w \in Workers, k \in Slots, r \in Connections :
           /\ k = link[w] /\ conn[w][k].api # "closed"
           /\ Becomes(w, k, r) /\ r.lb = conn[w][k].lb /\ r.api = conn[w][k].api
           /\ ready' \in [Workers -> Seq(Tokens)]
           /\ \A v \in Workers : ready'[v] =
                IF v = w /\ control[w] = k THEN Wake(ready[w], "control") ELSE ready[v]
  BY Transferred
<1>2. /\ UNCHANGED <<waiting, peer, cursor, start, step, mode, link, backlog,
                     workerVars, faultVars, gaveUp>>
      /\ lpc \in {"send", "resend"} /\ lpc' = "close"
  BY DEF TransferDescriptor
<1>3. TypeOK'
  BY <1>1, <1>2 DEF TypeOK, workerVars, faultVars, Becomes
<1>4. HoldsPeer' /\ LinksMade'
  BY <1>2 DEF HoldsPeer, LinksMade
<1>5. ASSUME NEW v \in Workers
      PROVE  WorkerAt(v)'
  <2>1. LoopAt(v) /\ CurrentAt(v) /\ EndsOnceAt(v)
    BY DEF WorkerAt
  <2>2. \A l \in Slots : /\ conn'[v][l].lb = conn[v][l].lb
                         /\ conn'[v][l].api = conn[v][l].api
                         /\ conn[v][l].api = "closed" => conn'[v][l].queue = conn[v][l].queue
    BY <1>1 DEF Becomes
  <2>3. UNCHANGED <<link, backlog, up, control, events, wpc, left>>
    BY <1>2 DEF workerVars
  <2>4. LoopAt(v)'
    BY <2>1, <2>2, <2>3, <1>1 DEF LoopAt
  <2>5. CurrentAt(v)'
    BY <2>1, <2>2, <2>3, SlotsOf DEF CurrentAt
  <2>6. EndsOnceAt(v)'
    BY <2>1, <2>2, <2>3 DEF EndsOnceAt
  <2> QED BY <2>4, <2>5, <2>6 DEF WorkerAt
<1> QED BY <1>3, <1>4, <1>5

LEMMA LinkInvTransferError ==
  ASSUME LinkInv, TransferError
  PROVE  LinkInv'
<1> USE DEF LinkInv
<1>1. /\ UNCHANGED <<waiting, peer, cursor, start, step, mode, backlog, ready,
                     workerVars, faultVars, gaveUp>>
      /\ lpc = "send" /\ lpc' = "restore" /\ Target' = Target
  BY DEF TransferError, Target
<1>2. PICK w \in Workers : w = Target
  BY TargetInWorkers
<1>3. PICK k \in Slots : k = link[w]
  BY <1>1 DEF LinksMade, TypeOK
<1>4. k # NoSlot
  BY HandoffAssumption
<1>5. /\ conn' = [conn EXCEPT ![w][k].lb = FALSE] /\ link' = [link EXCEPT ![w] = NoSlot]
  BY <1>2, <1>3, <1>4 DEF TransferError
<1>6. PICK r \in Connections : /\ Becomes(w, k, r) /\ r.lb = FALSE
                               /\ r.api = conn[w][k].api /\ r.queue = conn[w][k].queue
  <2> DEFINE r == [conn[w][k] EXCEPT !.lb = FALSE]
  <2>1. /\ r \in Connections /\ r.lb = FALSE
        /\ r.api = conn[w][k].api /\ r.queue = conn[w][k].queue
    BY ConnFields DEF Connections
  <2>2. conn' = [conn EXCEPT ![w][k] = r]
    BY <1>5
  <2> HIDE DEF r
  <2> QED BY <2>1, <2>2, CellSet
<1>7. TypeOK'
  BY <1>1, <1>5, <1>6 DEF TypeOK, workerVars, faultVars, Becomes
<1>8. HoldsPeer' /\ LinksMade'
  BY <1>1, <1>2, <1>5, HandoffAssumption DEF HoldsPeer, LinksMade, TypeOK
<1>9. ASSUME NEW v \in Workers
      PROVE  WorkerAt(v)'
  <2>1. LoopAt(v) /\ CurrentAt(v) /\ EndsOnceAt(v)
    BY DEF WorkerAt
  <2>2. \A l \in Slots : /\ conn'[v][l].api = conn[v][l].api
                         /\ conn'[v][l].queue = conn[v][l].queue
                         /\ conn'[v][l].lb => conn[v][l].lb /\ ~(v = w /\ l = k)
                         /\ v # w => conn'[v][l] = conn[v][l]
    BY <1>6 DEF Becomes
  <2>3. /\ UNCHANGED <<backlog, up, control, ready, events, wpc, left>>
        /\ link'[v] = IF v = w THEN NoSlot ELSE link[v]
    BY <1>1, <1>5 DEF workerVars, TypeOK
  <2>4. LoopAt(v)'
    BY <2>1, <2>2, <2>3 DEF LoopAt
  <2>5. CurrentAt(v)'
    BY <2>1, <2>2, <2>3, <1>3, SlotsOf DEF CurrentAt
  <2>6. EndsOnceAt(v)'
    BY <2>1, <2>2, <2>3 DEF EndsOnceAt
  <2> QED BY <2>4, <2>5, <2>6 DEF WorkerAt
<1> QED BY <1>7, <1>8, <1>9

(* What a worker does leaves the balancer where it is, and other workers.  *)
LEMMA BalancerUntouched ==
  ASSUME HoldsPeer, LinksMade, UNCHANGED lbVars
  PROVE  HoldsPeer' /\ LinksMade'
BY DEF HoldsPeer, LinksMade, lbVars, Target

(* The steps of the loop that open and close nothing.                      *)
LEMMA EventTyped ==
  ASSUME TypeOK, NEW w \in Workers, NEW t \in Tokens, StillReady(w, t)
  PROVE  Event(w, t) \in EventSet /\ Event(w, t).token = t
<1>1. CASE t = "listener"
  BY <1>1 DEF Event, EventSet, Tokens
<1>2. CASE t # "listener"
  <2>1. control[w] \in Slots
    BY <1>2, SlotsOf DEF StillReady
  <2> QED BY <1>2, <2>1, ConnFields DEF Event, EventSet, Tokens
<1> QED BY <1>1, <1>2

(* epoll_wait returns an event for each token that still is ready.         *)
LEMMA Waited ==
  ASSUME TypeOK, NEW w \in Workers, EpollWait(w)
  PROVE  /\ events' \in [Workers -> Seq(EventSet)]
         /\ ready' \in [Workers -> Seq(Tokens)] /\ ready'[w] = << >>
         /\ \A v \in Workers \ {w} : events'[v] = events[v] /\ ready'[v] = ready[v]
         /\ \A i \in DOMAIN events'[w] : \E t \in Tokens :
              StillReady(w, t) /\ events'[w][i] = Event(w, t)
         /\ \A t \in Tokens : Pending(w, t) /\ StillReady(w, t) =>
              \E i \in DOMAIN events'[w] : events'[w][i] = Event(w, t)
<1> DEFINE keep == {t \in {"listener", "control"} : StillReady(w, t)}
           still == Kept(ready[w], keep)
           batch == [i \in DOMAIN still |-> Event(w, still[i])]
<1>1. /\ events' = [events EXCEPT ![w] = batch] /\ ready' = [ready EXCEPT ![w] = << >>]
  BY DEF EpollWait
<1>2. /\ still \in Seq(Tokens)
      /\ \A u : (\E i \in DOMAIN still : still[i] = u)
                  <=> u \in keep /\ \E i \in DOMAIN ready[w] : ready[w][i] = u
  <2>1. ready[w] \in Seq(Tokens)
    BY DEF TypeOK
  <2>2. still = Kept(ready[w], keep)
    OBVIOUS
  <2> HIDE DEF still
  <2>3. \A list \in Seq(Tokens) : still = Kept(list, keep) =>
          /\ still \in Seq(Tokens)
          /\ \A u : (\E i \in DOMAIN still : still[i] = u)
                     <=> u \in keep /\ \E i \in DOMAIN list : list[i] = u
    <3> HIDE DEF keep
    <3> QED BY KeptTokens
  <2> HIDE DEF keep
  <2> QED BY <2>1, <2>2, <2>3
<1>3. \A i \in DOMAIN still : still[i] \in Tokens /\ StillReady(w, still[i])
  <2> HIDE DEF still
  <2> QED BY <1>2
<1>4. /\ DOMAIN batch = 1..Len(still) /\ Len(still) \in Nat
      /\ \A i \in DOMAIN batch : batch[i] = Event(w, still[i])
  <2> HIDE DEF still
  <2> QED BY <1>2
<1>5. \A i \in DOMAIN batch : batch[i] \in EventSet
  <2> HIDE DEF still
  <2> QED BY <1>3, EventTyped
<1>6. batch \in Seq(EventSet)
  <2>1. batch \in [1..Len(still) -> EventSet]
    <3> HIDE DEF still
    <3> QED BY <1>4, <1>5
  <2> HIDE DEF batch, still
  <2> QED BY <1>4, <2>1, SeqDef
<1>7. \A t \in Tokens : Pending(w, t) /\ StillReady(w, t) =>
              \E i \in DOMAIN batch : batch[i] = Event(w, t)
  <2>1. \A t \in Tokens : Pending(w, t) /\ StillReady(w, t) =>
              \E i \in DOMAIN still : still[i] = t
    <3> HIDE DEF still
    <3> QED BY <1>2 DEF Pending, Tokens
  <2> HIDE DEF still
  <2> QED BY <2>1
<1>8. \A i \in DOMAIN batch : \E t \in Tokens : StillReady(w, t) /\ batch[i] = Event(w, t)
  <2> HIDE DEF still
  <2> QED BY <1>3
<1> HIDE DEF batch
<1>9. events'[w] = batch
  BY <1>1 DEF TypeOK
<1>10. /\ events' \in [Workers -> Seq(EventSet)]
      /\ ready' \in [Workers -> Seq(Tokens)] /\ ready'[w] = << >>
      /\ \A v \in Workers \ {w} : events'[v] = events[v] /\ ready'[v] = ready[v]
  BY SMTT(30), <1>1, <1>6 DEF TypeOK
<1> QED BY <1>7, <1>8, <1>9, <1>10

LEMMA LinkInvLoop ==
  ASSUME LinkInv, NEW w \in Workers,
         EpollWait(w) \/ BatchDone(w) \/ Dispatch(w) \/ AcceptWouldBlock(w)
  PROVE  LinkInv'
<1> USE DEF LinkInv
<1>0. /\ UNCHANGED <<waiting, lbVars, conn, backlog, up, control, table, faultVars, gaveUp>>
      /\ events' = events \/ \E b : events' = [events EXCEPT ![w] = b]
      /\ ready' = ready \/ ready' = [ready EXCEPT ![w] = << >>]
      /\ \/ UNCHANGED wpc
         \/ \E c \in {"wait", "dispatch", "accept", "drain"} : wpc' = [wpc EXCEPT ![w] = c]
      /\ \/ UNCHANGED left
         \/ \E n \in {AcceptBudget, RecvFdBudget} : left' = [left EXCEPT ![w] = n]
  <2>1. CASE EpollWait(w)
    BY <2>1, Zenon DEF EpollWait
  <2>2. CASE BatchDone(w)
    BY <2>2, Zenon DEF BatchDone
  <2>3. CASE AcceptWouldBlock(w)
    BY <2>3, Zenon DEF AcceptWouldBlock
  <2>4. CASE Dispatch(w)
    <3>1. /\ UNCHANGED <<waiting, lbVars, conn, backlog, up, control, table, faultVars, gaveUp>>
          /\ UNCHANGED ready
      BY <2>4, Zenon DEF Dispatch
    <3>2. \/ /\ wpc' = [wpc EXCEPT ![w] = "accept"] /\ left' = [left EXCEPT ![w] = AcceptBudget]
             /\ events' = [events EXCEPT ![w] = Tail(events[w])]
          \/ events' = [events EXCEPT ![w] = Tail(events[w])] /\ UNCHANGED <<wpc, left>>
          \/ /\ wpc' = [wpc EXCEPT ![w] = "drain"] /\ left' = [left EXCEPT ![w] = RecvFdBudget]
             /\ UNCHANGED events
      BY <2>4, Zenon DEF Dispatch
    <3> QED BY <3>1, <3>2, Zenon
  <2> QED BY <2>1, <2>2, <2>3, <2>4
<1>1. /\ UNCHANGED <<waiting, lbVars, conn, backlog, up, control, table, faultVars, gaveUp>>
      /\ \A v \in Workers \ {w} : /\ events'[v] = events[v] /\ ready'[v] = ready[v]
                                  /\ wpc'[v] = wpc[v] /\ left'[v] = left[v]
  <2>1. /\ DOMAIN events = Workers /\ DOMAIN ready = Workers
        /\ DOMAIN wpc = Workers /\ DOMAIN left = Workers
    BY DEF TypeOK
  <2>2. \A v \in Workers \ {w} : events'[v] = events[v]
    BY <1>0, <2>1
  <2>3. \A v \in Workers \ {w} : ready'[v] = ready[v]
    BY <1>0, <2>1
  <2>4. \A v \in Workers \ {w} : wpc'[v] = wpc[v]
    BY <1>0, <2>1
  <2>5. \A v \in Workers \ {w} : left'[v] = left[v]
    BY <1>0, <2>1
  <2> QED BY <1>0, <2>2, <2>3, <2>4, <2>5
<1>2. TypeOK'
  <2>1. ready' \in [Workers -> Seq(Tokens)]
    BY Waited DEF BatchDone, Dispatch, AcceptWouldBlock, TypeOK
  <2>2. events' \in [Workers -> Seq(EventSet)]
    <3>1. events[w] # << >> => Tail(events[w]) \in Seq(EventSet)
      BY HeadTail DEF TypeOK
    <3> QED BY <3>1, Waited DEF BatchDone, Dispatch, AcceptWouldBlock, TypeOK
  <2>3. wpc' \in [Workers -> {"wait", "dispatch", "accept", "drain"}]
    <3>1. wpc \in [Workers -> {"wait", "dispatch", "accept", "drain"}]
      BY DEF TypeOK
    <3> QED BY <1>0, <3>1
  <2>4. left' \in [Workers -> Nat]
    <3>1. left \in [Workers -> Nat] /\ AcceptBudget \in Nat /\ RecvFdBudget \in Nat
      BY HandoffAssumption DEF TypeOK
    <3> QED BY <1>0, <3>1
  <2> QED BY <1>1, <2>1, <2>2, <2>3, <2>4 DEF TypeOK, lbVars, faultVars
<1>3. ASSUME NEW v \in Workers
      PROVE  WorkerAt(v)'
  <2>1. CASE v # w
    BY <2>1, <1>1, UntouchedWorker DEF Untouched, lbVars
  <2>2. CASE v = w
    <3>1. LoopAt(w) /\ CurrentAt(w) /\ EndsOnceAt(w)
      BY DEF WorkerAt
    <3>2. CurrentAt(w)' /\ EndsOnceAt(w)'
      BY <3>1, <1>1 DEF CurrentAt, EndsOnceAt, lbVars
    <3>3. up[w] /\ up'[w] /\ control'[w] = control[w]
      BY <1>1 DEF EpollWait, BatchDone, Dispatch, AcceptWouldBlock
    <3>4. LoopAt(w)'
      <4>1. CASE EpollWait(w) \/ AcceptWouldBlock(w)
        <5>1. wpc'[w] = "dispatch"
          BY <4>1 DEF EpollWait, AcceptWouldBlock, TypeOK
        <5> QED BY <5>1, <3>3 DEF LoopAt
      <4>2. CASE BatchDone(w)
        <5>1. wpc'[w] = "wait" /\ events'[w] = << >>
          BY <4>2 DEF BatchDone, TypeOK
        <5> QED BY <5>1, <3>3 DEF LoopAt
      <4>3. CASE Dispatch(w)
        <5>1. \/ wpc'[w] = "accept" /\ left'[w] = AcceptBudget
              \/ wpc'[w] = "dispatch"
              \/ /\ wpc'[w] = "drain" /\ events'[w] = events[w] /\ control[w] # NoSlot
                 /\ events[w] # << >> /\ Head(events[w]).token # "listener"
          BY <4>3 DEF Dispatch, TypeOK
        <5>2. events[w] # << >> => Head(events[w]).token \in Tokens
          <6>1. events[w] \in Seq(EventSet)
            BY DEF TypeOK
          <6>2. events[w] # << >> => Head(events[w]) \in EventSet
            BY <6>1, HeadTail
          <6> QED BY <6>2 DEF EventSet
        <5> QED BY <5>1, <5>2, <3>3 DEF LoopAt, Tokens
      <4> QED BY <4>1, <4>2, <4>3
    <3> QED BY <2>2, <3>2, <3>4 DEF WorkerAt
  <2> QED BY <2>1, <2>2
<1> QED BY <1>1, <1>2, <1>3, BalancerUntouched

(* The steps of the loop that change a connection: accept4, recvmsg, close. *)

(* The head of the backlog is a connection that no other place holds.      *)
LEMMA BacklogHead ==
  ASSUME TypeOK, NEW w \in Workers, WorkerAt(w), backlog[w] # << >>
  PROVE  /\ Head(backlog[w]) \in Slots /\ Tail(backlog[w]) \in Seq(Slots)
         /\ conn[w][Head(backlog[w])].api = "backlog"
         /\ Head(backlog[w]) # control[w]
         /\ \A i \in DOMAIN Tail(backlog[w]) :
              /\ i + 1 \in DOMAIN backlog[w]
              /\ Tail(backlog[w])[i] = backlog[w][i + 1]
              /\ Tail(backlog[w])[i] # Head(backlog[w])
              /\ Tail(backlog[w])[i] \in Slots
              /\ conn[w][Tail(backlog[w])[i]].api = "backlog"
<1> DEFINE b == backlog[w]
<1>1. b \in Seq(Slots) /\ b # << >>
  BY DEF TypeOK
<1>2. CurrentAt(w) /\ EndsOnceAt(w)
  BY DEF WorkerAt
<1>3. /\ \A i \in DOMAIN b : conn[w][b[i]].api = "backlog"
      /\ \A i, j \in DOMAIN b : b[i] = b[j] => i = j
      /\ control[w] # NoSlot => conn[w][control[w]].api = "control"
  BY <1>2 DEF CurrentAt, EndsOnceAt
<1> HIDE DEF b
<1>4. /\ Head(b) \in Slots /\ Head(b) = b[1] /\ 1 \in DOMAIN b
      /\ Tail(b) \in Seq(Slots)
      /\ \A i \in DOMAIN Tail(b) : i + 1 \in DOMAIN b /\ Tail(b)[i] = b[i + 1] /\ i + 1 # 1
  <2>1. \A i \in DOMAIN Tail(b) : i + 1 # 1
    BY <1>1
  <2> QED BY <1>1, <2>1, HeadTail
<1>5. Head(b) # control[w]
  BY <1>3, <1>4, HandoffAssumption
<1>6. \A i \in DOMAIN Tail(b) : Tail(b)[i] # Head(b)
  BY <1>3, <1>4
<1>7. \A i \in DOMAIN Tail(b) : Tail(b)[i] \in Slots /\ conn[w][Tail(b)[i]].api = "backlog"
  BY <1>1, <1>3, <1>4
<1> QED BY <1>3, <1>4, <1>5, <1>6, <1>7 DEF b

LEMMA Installed ==
  ASSUME TypeOK, NEW w \in Workers, WorkerAt(w), InstallControl(w)
  PROVE  \E k \in Slots, r \in Connections :
           /\ k = Head(backlog[w]) /\ Becomes(w, k, r)
           /\ conn[w][k].api = "backlog" /\ r.api = "control"
           /\ r.lb = conn[w][k].lb /\ r.queue = conn[w][k].queue
           /\ control' = [control EXCEPT ![w] = k]
           /\ ready' \in [Workers -> Seq(Tokens)]
           /\ \A v \in Workers \ {w} : ready'[v] = ready[v]
           /\ ready'[w] = IF ControlReadable(conn[w][k])
                          THEN Wake(ready[w], "control") ELSE ready[w]
<1>1. PICK k \in Slots : k = Head(backlog[w]) /\ conn[w][k].api = "backlog"
  BY BacklogHead DEF InstallControl
<1> DEFINE r == [conn[w][k] EXCEPT !.api = "control"]
<1>2. /\ control' = [control EXCEPT ![w] = k] /\ conn' = [conn EXCEPT ![w][k] = r]
      /\ ready' = IF ControlReadable(conn[w][k])
                  THEN [ready EXCEPT ![w] = Wake(@, "control")] ELSE ready
  BY <1>1 DEF InstallControl
<1>3. /\ r \in Connections /\ r.api = "control"
      /\ r.lb = conn[w][k].lb /\ r.queue = conn[w][k].queue
  BY ConnFields DEF Connections, Ends
<1> HIDE DEF r
<1>4. Becomes(w, k, r)
  BY <1>2, <1>3, CellSet
<1>5. Wake(ready[w], "control") \in Seq(Tokens)
  BY Woken DEF TypeOK, Tokens
<1>6. /\ ready' \in [Workers -> Seq(Tokens)]
      /\ \A v \in Workers \ {w} : ready'[v] = ready[v]
      /\ ready'[w] = IF ControlReadable(conn[w][k])
                     THEN Wake(ready[w], "control") ELSE ready[w]
  BY <1>2, <1>5 DEF TypeOK
<1> QED BY <1>1, <1>2, <1>3, <1>4, <1>6

LEMMA ExtraClosed ==
  ASSUME TypeOK, NEW w \in Workers, WorkerAt(w), CloseExtra(w)
  PROVE  \E k \in Slots, r \in Connections :
           /\ k = Head(backlog[w]) /\ Becomes(w, k, r)
           /\ conn[w][k].api = "backlog" /\ k # control[w]
           /\ r.api = "closed" /\ r.lb = conn[w][k].lb /\ r.queue = << >>
<1>1. PICK k \in Slots : k = Head(backlog[w]) /\ conn[w][k].api = "backlog" /\ k # control[w]
  BY BacklogHead DEF CloseExtra
<1> DEFINE r == WorkerEndClosed(conn[w][k])
<1>2. conn' = [conn EXCEPT ![w][k] = r]
  BY <1>1 DEF CloseExtra
<1>3. r \in Connections /\ r.api = "closed" /\ r.lb = conn[w][k].lb /\ r.queue = << >>
  BY ConnFields, ClosedEnd
<1> HIDE DEF r
<1> QED BY <1>1, <1>2, <1>3, CellSet

LEMMA Received ==
  ASSUME TypeOK, NEW w \in Workers, WorkerAt(w), RecvFd(w)
  PROVE  \E k \in Slots, r \in Connections :
           /\ k = control[w] /\ Becomes(w, k, r) /\ conn[w][k].queue # << >>
           /\ r.api = conn[w][k].api /\ r.lb = conn[w][k].lb
           /\ r.queue = Tail(conn[w][k].queue)
           /\ conn[w][k].api = "control" /\ Head(conn[w][k].queue) \in Clients
           /\ OnNewClientFd(w, Head(conn[w][k].queue))
<1>1. PICK k \in Slots : k = control[w] /\ conn[w][k].api = "control"
  BY SlotsOf DEF RecvFd, WorkerAt, LoopAt, CurrentAt
<1> DEFINE q == conn[w][k].queue
           r == [conn[w][k] EXCEPT !.queue = Tail(@)]
<1>2. /\ conn' = [conn EXCEPT ![w][k] = r] /\ q # << >>
      /\ OnNewClientFd(w, Head(q))
  BY <1>1 DEF RecvFd, ControlConn
<1>3. Tail(q) \in Seq(Clients) /\ Head(q) \in Clients
  <2>1. q \in Seq(Clients)
    BY ConnFields
  <2> HIDE DEF q
  <2> QED BY <1>2, <2>1, HeadTail
<1>4. /\ r \in Connections /\ r.api = conn[w][k].api /\ r.lb = conn[w][k].lb
      /\ r.queue = Tail(q)
  BY <1>3, ConnFields DEF Connections
<1> HIDE DEF r
<1> QED BY <1>1, <1>2, <1>3, <1>4, CellSet

(* drain_fds returns: nothing changes, or the control connection closes.   *)
Drains(w) == DrainDone(w) \/ RecvFdFails(w)

LEMMA Drained ==
  ASSUME TypeOK, NEW w \in Workers, WorkerAt(w), Drains(w)
  PROVE  /\ events[w] # << >> /\ Head(events[w]).token = "control"
         /\ control[w] \in Slots /\ conn[w][control[w]].api = "control"
         /\ events' = [events EXCEPT ![w] = Tail(events[w])]
         /\ Tail(events[w]) \in Seq(EventSet)
         /\ \/ UNCHANGED <<conn, control, ready>>
            \/ \E k \in Slots, r \in Connections :
                 /\ k = control[w] /\ Becomes(w, k, r)
                 /\ r.api = "closed" /\ r.lb = conn[w][k].lb /\ r.queue = << >>
                 /\ control' = [control EXCEPT ![w] = NoSlot]
                 /\ ready' = [ready EXCEPT ![w] = Kept(ready[w], {"listener"})]
                 /\ Kept(ready[w], {"listener"}) \in Seq(Tokens)
                 /\ ~conn[w][k].lb \/ Head(events[w]).hup \/ RecvFdFails(w)
<1>1. /\ LoopAt(w) /\ CurrentAt(w) /\ wpc[w] = "drain"
      /\ events' = [events EXCEPT ![w] = Tail(events[w])]
  BY DEF Drains, DrainDone, RecvFdFails, WorkerAt
<1>2. PICK k \in Slots : k = control[w] /\ conn[w][k].api = "control"
  BY <1>1, SlotsOf DEF LoopAt, CurrentAt
<1>3. events[w] # << >> /\ Head(events[w]).token = "control"
  BY <1>1 DEF LoopAt
<1>4. Tail(events[w]) \in Seq(EventSet)
  <2>1. events[w] \in Seq(EventSet)
    BY DEF TypeOK
  <2> QED BY <2>1, <1>3, HeadTail
<1>5. Kept(ready[w], {"listener"}) \in Seq(Tokens)
  <2>1. ready[w] \in Seq(Tokens)
    BY DEF TypeOK
  <2> QED BY <2>1, KeptTokens
<1> DEFINE r == WorkerEndClosed(conn[w][k])
<1>6. r \in Connections /\ r.api = "closed" /\ r.lb = conn[w][k].lb /\ r.queue = << >>
  BY ConnFields, ClosedEnd
<1>7. CASE UNCHANGED <<conn, control, ready>>
  BY <1>1, <1>2, <1>3, <1>4, <1>7
<1>8. CASE ~UNCHANGED <<conn, control, ready>>
  <2>1. /\ conn' = [conn EXCEPT ![w][k] = r] /\ control' = [control EXCEPT ![w] = NoSlot]
        /\ ready' = [ready EXCEPT ![w] = Kept(ready[w], {"listener"})]
        /\ ~conn[w][k].lb \/ Head(events[w]).hup \/ RecvFdFails(w)
    BY <1>2, <1>8 DEF Drains, DrainDone, RecvFdFails, CloseControl, ControlConn
  <2> HIDE DEF r
  <2>2. Becomes(w, k, r)
    BY <2>1, <1>6, CellSet
  <2> QED BY <1>1, <1>2, <1>3, <1>4, <1>5, <1>6, <2>1, <2>2
<1> QED BY <1>7, <1>8

(* A step of worker w at connection k of its own.                          *)
StepAt(w, k, r) ==
  /\ Becomes(w, k, r)
  /\ UNCHANGED <<lbVars, up>>
  /\ \A v \in Workers \ {w} :
       /\ backlog'[v] = backlog[v] /\ ready'[v] = ready[v] /\ control'[v] = control[v]
       /\ events'[v] = events[v] /\ wpc'[v] = wpc[v] /\ left'[v] = left[v]

LEMMA OtherWorkers ==
  ASSUME LinkInv, NEW w \in Workers, NEW k \in Slots, NEW r \in Connections,
         StepAt(w, k, r), NEW v \in Workers, v # w
  PROVE  WorkerAt(v)'
<1>1. Untouched(v)
  BY DEF StepAt, Untouched, Becomes, lbVars
<1> QED BY <1>1, UntouchedWorker DEF LinkInv

LEMMA LinkInvInstall ==
  ASSUME LinkInv, NEW w \in Workers, InstallControl(w)
  PROVE  LinkInv'
<1>0. TypeOK /\ WorkerAt(w) /\ LoopAt(w) /\ CurrentAt(w) /\ EndsOnceAt(w)
  BY DEF LinkInv, WorkerAt
<1>1. PICK k \in Slots, r \in Connections :
           /\ k = Head(backlog[w]) /\ Becomes(w, k, r)
           /\ conn[w][k].api = "backlog" /\ r.api = "control"
           /\ r.lb = conn[w][k].lb /\ r.queue = conn[w][k].queue
           /\ control' = [control EXCEPT ![w] = k]
           /\ ready' \in [Workers -> Seq(Tokens)]
           /\ \A v \in Workers \ {w} : ready'[v] = ready[v]
  BY <1>0, Installed
<1>2. /\ UNCHANGED <<waiting, lbVars, up, events, table, faultVars, gaveUp>>
      /\ up[w] /\ control[w] = NoSlot /\ backlog[w] # << >> /\ wpc[w] = "accept"
      /\ backlog' = [backlog EXCEPT ![w] = Tail(@)]
      /\ \/ AcceptBudget = 0 /\ wpc' = [wpc EXCEPT ![w] = "dispatch"] /\ UNCHANGED left
         \/ left[w] = 1 /\ wpc' = [wpc EXCEPT ![w] = "dispatch"] /\ UNCHANGED left
         \/ /\ AcceptBudget # 0 /\ left[w] # 1 /\ UNCHANGED wpc
            /\ left' = [left EXCEPT ![w] = left[w] - 1]
  BY DEF InstallControl
<1>3. /\ backlog'[w] = Tail(backlog[w]) /\ control'[w] = k /\ k # NoSlot
      /\ up'[w] /\ link'[w] = link[w]
      /\ \A v \in Workers \ {w} : backlog'[v] = backlog[v] /\ control'[v] = control[v]
            /\ wpc'[v] = wpc[v] /\ left'[v] = left[v]
      /\ wpc' \in [Workers -> {"wait", "dispatch", "accept", "drain"}]
  BY ZenonT(30), <1>0, <1>1, <1>2, HandoffAssumption DEF TypeOK, lbVars
<1>4. left' \in [Workers -> Nat] /\ (wpc'[w] = "accept" /\ AcceptBudget # 0 => left'[w] # 0)
  <2>1. left[w] \in Nat /\ (AcceptBudget # 0 => left[w] # 0)
    BY <1>0, <1>2 DEF TypeOK, LoopAt
  <2>2. AcceptBudget # 0 /\ left[w] # 1 => left[w] - 1 \in Nat /\ left[w] - 1 # 0
    BY <2>1
  <2> QED BY ZenonT(30), <1>0, <1>2, <2>2 DEF TypeOK
<1>5. StepAt(w, k, r)
  BY <1>1, <1>2, <1>3 DEF StepAt
<1>6. TypeOK'
  <2>1. backlog' \in [Workers -> Seq(Slots)]
    BY <1>0, <1>2, BacklogHead DEF TypeOK
  <2>2. control' \in [Workers -> Slots \cup {NoSlot}]
    BY <1>0, <1>1 DEF TypeOK
  <2> QED BY <1>0, <1>1, <1>2, <1>3, <1>4, <2>1, <2>2 DEF TypeOK, Becomes, lbVars, faultVars
<1>7. WorkerAt(w)'
  <2>1. \A l \in Slots : /\ conn'[w][l].lb = conn[w][l].lb
                         /\ conn'[w][l].queue = conn[w][l].queue
                         /\ l # k => conn'[w][l].api = conn[w][l].api
                         /\ l = k => conn'[w][l].api = "control"
    BY <1>1 DEF Becomes
  <2>2. LoopAt(w)'
    <3>1. wpc'[w] = "dispatch" \/ wpc'[w] = "accept"
      BY <1>0, <1>2 DEF TypeOK
    <3> QED BY <1>3, <1>4, <3>1 DEF LoopAt
  <2>3. CurrentAt(w)'
    <3>1. \A i \in DOMAIN backlog'[w] : conn'[w][backlog'[w][i]].api = "backlog"
      <4>1. \A i \in DOMAIN backlog'[w] :
              /\ backlog'[w][i] \in Slots /\ backlog'[w][i] # k
              /\ conn[w][backlog'[w][i]].api = "backlog"
        <5>1. \A i \in DOMAIN Tail(backlog[w]) :
                /\ Tail(backlog[w])[i] # Head(backlog[w])
                /\ Tail(backlog[w])[i] \in Slots
                /\ conn[w][Tail(backlog[w])[i]].api = "backlog"
          BY <1>0, <1>2, BacklogHead
        <5>2. backlog'[w] = Tail(backlog[w]) /\ k = Head(backlog[w])
          BY <1>1, <1>3
        <5> QED BY <5>1, <5>2, Zenon
      <4> QED BY <2>1, <4>1
    <3>2. \A l \in Slots : conn'[w][l].api = "control" => l = k
      BY <1>0, <1>2, <2>1, HandoffAssumption DEF CurrentAt
    <3> QED BY <1>0, <1>3, <2>1, <3>1, <3>2, SlotsOf DEF CurrentAt
  <2>4. EndsOnceAt(w)'
    <3>1. \A i, j \in DOMAIN backlog'[w] : backlog'[w][i] = backlog'[w][j] => i = j
      BY <1>0, <1>2, <1>3, BacklogHead DEF EndsOnceAt
    <3> QED BY <1>0, <2>1, <3>1 DEF EndsOnceAt
  <2> QED BY <2>2, <2>3, <2>4 DEF WorkerAt
<1> QED BY <1>2, <1>5, <1>6, <1>7, OtherWorkers, BalancerUntouched DEF LinkInv

LEMMA LinkInvCloseExtra ==
  ASSUME LinkInv, NEW w \in Workers, CloseExtra(w)
  PROVE  LinkInv'
<1>0. TypeOK /\ WorkerAt(w) /\ LoopAt(w) /\ CurrentAt(w) /\ EndsOnceAt(w)
  BY DEF LinkInv, WorkerAt
<1>1. PICK k \in Slots, r \in Connections :
           /\ k = Head(backlog[w]) /\ Becomes(w, k, r)
           /\ conn[w][k].api = "backlog" /\ k # control[w]
           /\ r.api = "closed" /\ r.lb = conn[w][k].lb /\ r.queue = << >>
  BY <1>0, ExtraClosed
<1>2. /\ UNCHANGED <<waiting, lbVars, ready, up, control, events, table, faultVars, gaveUp>>
      /\ up[w] /\ backlog[w] # << >> /\ wpc[w] = "accept"
      /\ backlog' = [backlog EXCEPT ![w] = Tail(@)]
      /\ \/ AcceptBudget = 0 /\ UNCHANGED <<wpc, left>>
         \/ left[w] = 1 /\ wpc' = [wpc EXCEPT ![w] = "dispatch"] /\ UNCHANGED left
         \/ /\ AcceptBudget # 0 /\ left[w] # 1 /\ UNCHANGED wpc
            /\ left' = [left EXCEPT ![w] = left[w] - 1]
  BY DEF CloseExtra
<1>3. /\ backlog'[w] = Tail(backlog[w]) /\ up'[w] /\ link'[w] = link[w]
      /\ \A v \in Workers \ {w} : backlog'[v] = backlog[v]
            /\ wpc'[v] = wpc[v] /\ left'[v] = left[v]
      /\ wpc' \in [Workers -> {"wait", "dispatch", "accept", "drain"}]
  BY <1>0, <1>2 DEF TypeOK, lbVars
<1>4. left' \in [Workers -> Nat] /\ (wpc'[w] = "accept" /\ AcceptBudget # 0 => left'[w] # 0)
  <2>1. left[w] \in Nat /\ (AcceptBudget # 0 => left[w] # 0)
    BY <1>0, <1>2 DEF TypeOK, LoopAt
  <2>2. AcceptBudget # 0 /\ left[w] # 1 => left[w] - 1 \in Nat /\ left[w] - 1 # 0
    BY <2>1
  <2> QED BY ZenonT(30), <1>0, <1>2, <2>2 DEF TypeOK
<1>5. StepAt(w, k, r)
  BY <1>1, <1>2, <1>3 DEF StepAt
<1>6. TypeOK'
  <2>1. backlog' \in [Workers -> Seq(Slots)]
    BY <1>0, <1>2, BacklogHead DEF TypeOK
  <2> QED BY <1>0, <1>1, <1>2, <1>3, <1>4, <2>1 DEF TypeOK, Becomes, lbVars, faultVars
<1>7. WorkerAt(w)'
  <2>1. \A l \in Slots : /\ conn'[w][l].lb = conn[w][l].lb
                         /\ l # k => conn'[w][l] = conn[w][l]
                         /\ l = k => conn'[w][l].api = "closed" /\ conn'[w][l].queue = << >>
    BY <1>1 DEF Becomes
  <2>2. LoopAt(w)'
    <3>1. wpc'[w] = "dispatch" \/ wpc'[w] = "accept"
      BY <1>0, <1>2 DEF TypeOK
    <3> QED BY <1>3, <1>4, <3>1 DEF LoopAt
  <2>3. CurrentAt(w)'
    <3>1. \A i \in DOMAIN backlog'[w] : conn'[w][backlog'[w][i]].api = "backlog"
      <4>1. \A i \in DOMAIN backlog'[w] :
              /\ backlog'[w][i] \in Slots /\ backlog'[w][i] # k
              /\ conn[w][backlog'[w][i]].api = "backlog"
        <5>1. \A i \in DOMAIN Tail(backlog[w]) :
                /\ Tail(backlog[w])[i] # Head(backlog[w])
                /\ Tail(backlog[w])[i] \in Slots
                /\ conn[w][Tail(backlog[w])[i]].api = "backlog"
          BY <1>0, <1>2, BacklogHead
        <5>2. backlog'[w] = Tail(backlog[w]) /\ k = Head(backlog[w])
          BY <1>1, <1>3
        <5> QED BY <5>1, <5>2, Zenon
      <4> QED BY <2>1, <4>1
    <3>2. \A l \in Slots : conn'[w][l].api = "control" => conn[w][l].api = "control"
      <4>1. conn'[w][k].api = "closed"
        BY <2>1
      <4>2. \A l \in Slots \ {k} : conn'[w][l] = conn[w][l]
        BY <2>1
      <4> QED BY <4>1, <4>2
    <3>3. control'[w] = control[w] /\ link'[w] = link[w]
      BY <1>2, <1>3
    <3>4. control[w] # NoSlot => control[w] \in Slots /\ control[w] # k
      BY <1>0, <1>1, SlotsOf
    <3>5. control[w] # NoSlot => conn'[w][control[w]].api = "control"
      BY <1>0, <2>1, <3>4 DEF CurrentAt
    <3>6. /\ link[w] # NoSlot => conn'[w][link[w]].lb
          /\ \A l \in Slots : conn'[w][l].lb => link[w] = l
      <4>1. link[w] # NoSlot => link[w] \in Slots
        BY <1>0, SlotsOf
      <4>2. \A l \in Slots : conn'[w][l].lb = conn[w][l].lb
        BY <2>1
      <4>3. link[w] # NoSlot => conn[w][link[w]].lb
        BY <1>0 DEF CurrentAt
      <4>4. \A l \in Slots : conn[w][l].lb => link[w] = l
        BY <1>0 DEF CurrentAt
      <4>5. link[w] # NoSlot => conn'[w][link[w]].lb
        BY <4>1, <4>2, <4>3, Zenon
      <4>6. \A l \in Slots : conn'[w][l].lb => link[w] = l
        BY <4>2, <4>4, Zenon
      <4> QED BY <4>5, <4>6
    <3>7. \A l \in Slots : conn'[w][l].api = "control" => control[w] = l
      BY <1>0, <3>2 DEF CurrentAt
    <3> QED BY <3>1, <3>3, <3>5, <3>6, <3>7 DEF CurrentAt
  <2>4. EndsOnceAt(w)'
    <3>1. \A i, j \in DOMAIN backlog'[w] : backlog'[w][i] = backlog'[w][j] => i = j
      BY <1>0, <1>2, <1>3, BacklogHead DEF EndsOnceAt
    <3> QED BY <1>0, <2>1, <3>1 DEF EndsOnceAt
  <2> QED BY <2>2, <2>3, <2>4 DEF WorkerAt
<1> QED BY <1>2, <1>5, <1>6, <1>7, OtherWorkers, BalancerUntouched DEF LinkInv

LEMMA LinkInvReceive ==
  ASSUME LinkInv, NEW w \in Workers, RecvFd(w)
  PROVE  LinkInv'
<1>0. TypeOK /\ WorkerAt(w) /\ LoopAt(w) /\ CurrentAt(w) /\ EndsOnceAt(w)
  BY DEF LinkInv, WorkerAt
<1>1. PICK k \in Slots, r \in Connections :
           /\ k = control[w] /\ Becomes(w, k, r)
           /\ r.api = conn[w][k].api /\ r.lb = conn[w][k].lb
           /\ conn[w][k].api = "control" /\ Head(conn[w][k].queue) \in Clients
           /\ OnNewClientFd(w, Head(conn[w][k].queue))
  BY <1>0, Received
<1>2. /\ UNCHANGED <<waiting, lbVars, backlog, ready, up, control, events, wpc,
                     wcrashes, lcrashes, recvErrors, gaveUp>>
      /\ up[w] /\ wpc[w] = "drain" /\ left[w] > 0
      /\ left' = [left EXCEPT ![w] = left[w] - 1]
  BY DEF RecvFd
<1>3. /\ left' \in [Workers -> Nat] /\ \A v \in Workers \ {w} : left'[v] = left[v]
      /\ table' \in [Workers -> SUBSET Clients] /\ refused' \in SUBSET Clients
  <2>1. /\ table[w] \cup {Head(conn[w][k].queue)} \in SUBSET Clients
        /\ refused \cup {Head(conn[w][k].queue)} \in SUBSET Clients
    BY <1>0, <1>1 DEF TypeOK
  <2>2. left[w] \in Nat /\ left[w] - 1 \in Nat
    BY SMTT(30), <1>0, <1>2 DEF TypeOK
  <2>3. /\ table' \in [Workers -> SUBSET Clients] /\ refused' \in SUBSET Clients
    <3> DEFINE h == Head(conn[w][k].queue)
    <3> HIDE DEF h
    <3>1. \/ table' = [table EXCEPT ![w] = @ \cup {h}] /\ refused' = refused
          \/ refused' = refused \cup {h} /\ table' = table
      BY <1>1 DEF OnNewClientFd, h
    <3>2. table[w] \cup {h} \in SUBSET Clients /\ refused \cup {h} \in SUBSET Clients
      BY <2>1 DEF h
    <3>3. table \in [Workers -> SUBSET Clients] /\ refused \in SUBSET Clients
      BY <1>0 DEF TypeOK
    <3> QED BY <3>1, <3>2, <3>3
  <2> QED BY <1>0, <1>2, <2>2, <2>3 DEF TypeOK
<1>4. StepAt(w, k, r)
  BY <1>1, <1>2, <1>3 DEF StepAt
<1>5. TypeOK'
  BY <1>0, <1>1, <1>2, <1>3 DEF TypeOK, Becomes, lbVars
<1>6. WorkerAt(w)'
  <2>1. \A l \in Slots : /\ conn'[w][l].lb = conn[w][l].lb
                         /\ conn'[w][l].api = conn[w][l].api
                         /\ conn[w][l].api = "closed" => conn'[w][l].queue = conn[w][l].queue
    BY <1>1 DEF Becomes
  <2>2. LoopAt(w)'
    BY <1>0, <1>2 DEF LoopAt
  <2>3. CurrentAt(w)'
    BY <1>0, <1>2, <2>1, SlotsOf DEF CurrentAt, lbVars
  <2>4. EndsOnceAt(w)'
    BY <1>0, <1>2, <2>1 DEF EndsOnceAt
  <2> QED BY <2>2, <2>3, <2>4 DEF WorkerAt
<1> QED BY <1>2, <1>4, <1>5, <1>6, OtherWorkers, BalancerUntouched DEF LinkInv

LEMMA LinkInvDrained ==
  ASSUME LinkInv, NEW w \in Workers, Drains(w)
  PROVE  LinkInv'
<1>0. TypeOK /\ WorkerAt(w) /\ LoopAt(w) /\ CurrentAt(w) /\ EndsOnceAt(w)
  BY DEF LinkInv, WorkerAt
<1>1. /\ UNCHANGED <<waiting, lbVars, backlog, up, left, table, wcrashes, lcrashes,
                     refused, gaveUp>>
      /\ up[w] /\ wpc' = [wpc EXCEPT ![w] = "dispatch"] /\ recvErrors' \in Nat
  <2>1. CASE DrainDone(w)
    BY <1>0, <2>1 DEF DrainDone, TypeOK, faultVars
  <2>2. CASE RecvFdFails(w)
    BY <1>0, <2>2 DEF RecvFdFails, TypeOK
  <2> QED BY <2>1, <2>2 DEF Drains
<1>2. events' = [events EXCEPT ![w] = Tail(events[w])] /\ Tail(events[w]) \in Seq(EventSet)
  BY <1>0, Drained
<1>3. /\ events' \in [Workers -> Seq(EventSet)] /\ wpc'[w] = "dispatch"
      /\ wpc' \in [Workers -> {"wait", "dispatch", "accept", "drain"}]
      /\ \A v \in Workers \ {w} : events'[v] = events[v] /\ wpc'[v] = wpc[v]
  BY <1>0, <1>1, <1>2 DEF TypeOK
<1>4. LoopAt(w)'
  BY <1>1, <1>3 DEF LoopAt
<1>5. CASE UNCHANGED <<conn, control, ready>>
  <2>1. TypeOK'
    BY <1>0, <1>1, <1>3, <1>5 DEF TypeOK, lbVars
  <2>2. CurrentAt(w)' /\ EndsOnceAt(w)'
    BY <1>0, <1>1, <1>5 DEF CurrentAt, EndsOnceAt, lbVars
  <2>3. ASSUME NEW v \in Workers, v # w
        PROVE  WorkerAt(v)'
    BY <1>0, <1>1, <1>3, <1>5, <2>3, UntouchedWorker DEF Untouched, lbVars, LinkInv
  <2> QED BY <1>1, <1>4, <2>1, <2>2, <2>3, BalancerUntouched DEF LinkInv, WorkerAt
<1>6. CASE ~UNCHANGED <<conn, control, ready>>
  <2>1. PICK k \in Slots, r \in Connections :
                 /\ k = control[w] /\ Becomes(w, k, r)
                 /\ r.api = "closed" /\ r.lb = conn[w][k].lb /\ r.queue = << >>
                 /\ control' = [control EXCEPT ![w] = NoSlot]
                 /\ ready' = [ready EXCEPT ![w] = Kept(ready[w], {"listener"})]
                 /\ Kept(ready[w], {"listener"}) \in Seq(Tokens)
    BY <1>0, <1>6, Drained
  <2>2. /\ control' \in [Workers -> Slots \cup {NoSlot}] /\ control'[w] = NoSlot
        /\ ready' \in [Workers -> Seq(Tokens)]
        /\ \A v \in Workers \ {w} : control'[v] = control[v] /\ ready'[v] = ready[v]
    BY <1>0, <2>1 DEF TypeOK
  <2>3. StepAt(w, k, r)
    BY <1>1, <1>3, <2>1, <2>2 DEF StepAt
  <2>4. TypeOK'
    BY <1>0, <1>1, <1>3, <2>1, <2>2 DEF TypeOK, Becomes, lbVars
  <2>5. \A l \in Slots : /\ conn'[w][l].lb = conn[w][l].lb
                         /\ l # k => conn'[w][l] = conn[w][l]
                         /\ l = k => conn'[w][l].api = "closed" /\ conn'[w][l].queue = << >>
    BY <2>1 DEF Becomes
  <2>6. CurrentAt(w)'
    <3>1. \A i \in DOMAIN backlog[w] : backlog[w][i] \in Slots /\ backlog[w][i] # k
      BY <1>0, <2>1, SlotsOf, HandoffAssumption DEF CurrentAt
    <3>2. \A l \in Slots : conn'[w][l].api # "control"
      BY <1>0, <2>1, <2>5 DEF CurrentAt
    <3>3. \A i \in DOMAIN backlog'[w] : conn'[w][backlog'[w][i]].api = "backlog"
      BY <1>0, <1>1, <2>5, <3>1 DEF CurrentAt
    <3> QED BY <1>0, <1>1, <2>2, <2>5, <3>2, <3>3, SlotsOf DEF CurrentAt, lbVars
  <2>7. EndsOnceAt(w)'
    BY <1>0, <1>1, <2>5 DEF EndsOnceAt
  <2> QED BY <1>1, <1>4, <2>3, <2>4, <2>6, <2>7, OtherWorkers, BalancerUntouched
        DEF LinkInv, WorkerAt
<1> QED BY <1>5, <1>6

(* A crash closes every end the process holds.                             *)
LEMMA Crashed ==
  ASSUME TypeOK, NEW w \in Workers, WorkerCrash(w)
  PROVE  /\ conn' \in [Workers -> [Slots -> Connections]]
         /\ \A v \in Workers \ {w} : \A k \in Slots : conn'[v][k] = conn[v][k]
         /\ \A k \in Slots : /\ conn'[w][k].lb = conn[w][k].lb
                             /\ conn'[w][k].api = "closed" /\ conn'[w][k].queue = << >>
<1> DEFINE row == [k \in Slots |-> WorkerEndClosed(conn[w][k])]
<1>1. conn' = [conn EXCEPT ![w] = row]
  BY DEF WorkerCrash
<1>2. \A k \in Slots : /\ row[k] \in Connections /\ row[k].lb = conn[w][k].lb
                       /\ row[k].api = "closed" /\ row[k].queue = << >>
  BY ConnFields, ClosedEnd
<1>3. row \in [Slots -> Connections]
  <2>1. \A k \in Slots : WorkerEndClosed(conn[w][k]) \in Connections
    BY ConnFields, ClosedEnd
  <2> QED BY <2>1
<1> HIDE DEF row
<1>4. /\ conn' \in [Workers -> [Slots -> Connections]] /\ conn'[w] = row
      /\ \A v \in Workers \ {w} : conn'[v] = conn[v]
  BY <1>1, <1>3 DEF TypeOK
<1> QED BY <1>2, <1>4

LEMMA LinkInvWorkerCrash ==
  ASSUME LinkInv, NEW w \in Workers, WorkerCrash(w)
  PROVE  LinkInv'
<1>0. TypeOK /\ WorkerAt(w) /\ LoopAt(w) /\ CurrentAt(w) /\ EndsOnceAt(w)
  BY DEF LinkInv, WorkerAt
<1>1. /\ conn' \in [Workers -> [Slots -> Connections]]
      /\ \A v \in Workers \ {w} : \A k \in Slots : conn'[v][k] = conn[v][k]
      /\ \A k \in Slots : /\ conn'[w][k].lb = conn[w][k].lb
                          /\ conn'[w][k].api = "closed" /\ conn'[w][k].queue = << >>
  BY <1>0, Crashed
<1>2. /\ wcrashes' = wcrashes + 1
      /\ UNCHANGED <<waiting, lbVars, lcrashes, recvErrors, refused, gaveUp>>
      /\ up' = [up EXCEPT ![w] = FALSE] /\ backlog' = [backlog EXCEPT ![w] = << >>]
      /\ control' = [control EXCEPT ![w] = NoSlot] /\ ready' = [ready EXCEPT ![w] = << >>]
      /\ events' = [events EXCEPT ![w] = << >>] /\ wpc' = [wpc EXCEPT ![w] = "wait"]
      /\ left' = [left EXCEPT ![w] = 0] /\ table' = [table EXCEPT ![w] = {}]
  BY DEF WorkerCrash
<1>3. /\ up' \in [Workers -> BOOLEAN] /\ backlog' \in [Workers -> Seq(Slots)]
      /\ control' \in [Workers -> Slots \cup {NoSlot}] /\ ready' \in [Workers -> Seq(Tokens)]
      /\ events' \in [Workers -> Seq(EventSet)] /\ left' \in [Workers -> Nat]
      /\ wpc' \in [Workers -> {"wait", "dispatch", "accept", "drain"}]
      /\ table' \in [Workers -> SUBSET Clients] /\ wcrashes' \in Nat
  BY SMTT(30), <1>0, <1>2 DEF TypeOK
<1>4. TypeOK'
  BY <1>0, <1>1, <1>2, <1>3 DEF TypeOK, lbVars
<1>5. ASSUME NEW v \in Workers, v # w
      PROVE  WorkerAt(v)'
  <2>1. Untouched(v)
    BY <1>0, <1>1, <1>2, <1>5 DEF Untouched, TypeOK, lbVars
  <2> QED BY <1>0, <2>1, UntouchedWorker DEF LinkInv
<1>6. WorkerAt(w)'
  <2>1. /\ backlog'[w] = << >> /\ control'[w] = NoSlot /\ ready'[w] = << >>
        /\ events'[w] = << >> /\ wpc'[w] = "wait" /\ link'[w] = link[w]
    BY <1>0, <1>2 DEF TypeOK, lbVars
  <2>2. LoopAt(w)'
    BY <1>1, <2>1 DEF LoopAt
  <2>3. CurrentAt(w)'
    BY <1>0, <1>1, <2>1, SlotsOf DEF CurrentAt
  <2>4. EndsOnceAt(w)'
    BY <1>1, <2>1 DEF EndsOnceAt
  <2> QED BY <2>2, <2>3, <2>4 DEF WorkerAt
<1> QED BY <1>2, <1>4, <1>5, <1>6, BalancerUntouched DEF LinkInv

LEMMA LinkInvRestart ==
  ASSUME LinkInv, NEW w \in Workers, WorkerRestart(w)
  PROVE  LinkInv'
<1>1. /\ UNCHANGED <<waiting, lbVars, conn, backlog, ready, control, events, wpc,
                     left, table, faultVars, gaveUp>>
      /\ ~up[w] /\ up' = [up EXCEPT ![w] = TRUE]
  BY DEF WorkerRestart
<1>2. TypeOK'
  BY <1>1 DEF LinkInv, TypeOK, lbVars, faultVars
<1>3. ASSUME NEW v \in Workers
      PROVE  WorkerAt(v)'
  <2>1. LoopAt(v) /\ CurrentAt(v) /\ EndsOnceAt(v)
    BY DEF LinkInv, WorkerAt
  <2>2. CurrentAt(v)' /\ EndsOnceAt(v)'
    BY <1>1, <2>1 DEF CurrentAt, EndsOnceAt, lbVars
  <2>3. LoopAt(v)'
    <3>1. ~up'[v] => ~up[v]
      BY <1>1 DEF LinkInv, TypeOK
    <3> QED BY <1>1, <2>1, <3>1 DEF LoopAt
  <2> QED BY <2>2, <2>3 DEF WorkerAt
<1> QED BY <1>1, <1>2, <1>3, BalancerUntouched DEF LinkInv

LEMMA LbCrashed ==
  ASSUME LinkInv, LbCrash
  PROVE  /\ conn' \in [Workers -> [Slots -> Connections]]
         /\ \A w \in Workers, k \in Slots :
              /\ ~conn'[w][k].lb /\ conn'[w][k].api = conn[w][k].api
              /\ conn'[w][k].queue = conn[w][k].queue
         /\ ready' \in [Workers -> Seq(Tokens)]
         /\ \A w \in Workers : ready'[w] =
              IF control[w] # NoSlot /\ control[w] = link[w]
              THEN Wake(ready[w], "control") ELSE ready[w]
<1> USE DEF LinkInv
<1>1. /\ conn' = [w \in Workers |-> [k \in Slots |->
                IF k = link[w] THEN [conn[w][k] EXCEPT !.lb = FALSE]
                ELSE conn[w][k]]]
      /\ ready' = [w \in Workers |->
                IF control[w] # NoSlot /\ control[w] = link[w]
                THEN Wake(ready[w], "control") ELSE ready[w]]
  BY DEF LbCrash
<1>2. ASSUME NEW w \in Workers, NEW k \in Slots
      PROVE  /\ conn'[w][k] \in Connections
             /\ ~conn'[w][k].lb /\ conn'[w][k].api = conn[w][k].api
             /\ conn'[w][k].queue = conn[w][k].queue
  <2>1. conn[w][k].lb => link[w] = k
    BY DEF WorkerAt, CurrentAt
  <2>2. conn'[w][k] = IF k = link[w] THEN [conn[w][k] EXCEPT !.lb = FALSE] ELSE conn[w][k]
    BY <1>1
  <2>3. CASE k = link[w]
    BY ZenonT(30), <2>2, <2>3, ConnFields DEF Connections
  <2>4. CASE k # link[w]
    BY <2>1, <2>2, <2>4, ConnFields
  <2> QED BY <2>3, <2>4
<1>3. conn' \in [Workers -> [Slots -> Connections]]
  <2>1. conn' = [w \in Workers |-> [k \in Slots |-> conn'[w][k]]]
    BY <1>1
  <2> QED BY <1>2, <2>1
<1>4. ASSUME NEW w \in Workers
      PROVE  Wake(ready[w], "control") \in Seq(Tokens) /\ ready[w] \in Seq(Tokens)
  BY Woken DEF TypeOK, Tokens
<1> QED BY ZenonT(30), <1>1, <1>2, <1>3, <1>4

LEMMA LinkInvLbCrash ==
  ASSUME LinkInv, LbCrash
  PROVE  LinkInv'
<1> USE DEF LinkInv
<1>1. /\ lcrashes' = lcrashes + 1 /\ lpc' = "down" /\ peer' = NoClient
      /\ link' = [w \in Workers |-> NoSlot]
      /\ cursor' = 0 /\ start' = 0 /\ step' = 0 /\ mode' = "async"
      /\ UNCHANGED <<waiting, backlog, workerVars, wcrashes, recvErrors, refused, gaveUp>>
  BY DEF LbCrash
<1>2. TypeOK'
  <2>1. link' \in [Workers -> Slots \cup {NoSlot}] /\ 0 \in Workers /\ lcrashes' \in Nat
    BY SMTT(20), <1>1, NextCursor DEF TypeOK
  <2>2. conn' \in [Workers -> [Slots -> Connections]] /\ ready' \in [Workers -> Seq(Tokens)]
    BY LbCrashed
  <2> QED BY <1>1, <2>1, <2>2 DEF TypeOK, workerVars
<1>3. HoldsPeer' /\ LinksMade'
  BY <1>1, HandoffAssumption DEF HoldsPeer, LinksMade
<1>4. ASSUME NEW v \in Workers
      PROVE  WorkerAt(v)'
  <2>1. LoopAt(v) /\ CurrentAt(v) /\ EndsOnceAt(v)
    BY DEF WorkerAt
  <2>2. LoopAt(v)'
    BY <1>1, <2>1, LbCrashed DEF LoopAt, workerVars
  <2>3. CurrentAt(v)'
    <3>1. /\ link'[v] = NoSlot /\ control'[v] = control[v] /\ backlog'[v] = backlog[v]
          /\ \A k \in Slots : ~conn'[v][k].lb /\ conn'[v][k].api = conn[v][k].api
      BY <1>1, LbCrashed DEF workerVars
    <3> QED BY <2>1, <3>1, SlotsOf DEF CurrentAt
  <2>4. EndsOnceAt(v)'
    BY <1>1, <2>1, LbCrashed DEF EndsOnceAt
  <2> QED BY <2>2, <2>3, <2>4 DEF WorkerAt
<1> QED BY <1>2, <1>3, <1>4

LEMMA LinkInvInit == Init => LinkInv
<1> SUFFICES ASSUME Init PROVE LinkInv
  OBVIOUS
<1>1. FreeConn \in Connections /\ FreeConn.queue = << >> /\ ~FreeConn.lb /\ FreeConn.api = "closed"
  BY DEF FreeConn, Connections, Ends
<1>2. 0 \in Workers /\ \A w \in Workers : ~(w < 0)
  BY HandoffAssumption DEF Workers
<1>3. \A w \in Workers, k \in Slots : conn[w][k] = FreeConn
  BY DEF Init
<1> HIDE DEF FreeConn
<1>4. TypeOK
  BY <1>1, <1>2 DEF Init, TypeOK
<1>5. HoldsPeer /\ LinksMade
  BY <1>2, HandoffAssumption DEF Init, HoldsPeer, LinksMade
<1>6. ASSUME NEW w \in Workers
      PROVE  WorkerAt(w)
  <2>1. LoopAt(w)
    BY DEF Init, LoopAt
  <2>2. CurrentAt(w)
    BY <1>1, <1>3 DEF Init, CurrentAt
  <2>3. EndsOnceAt(w)
    BY <1>1, <1>3 DEF Init, EndsOnceAt
  <2> QED BY <2>1, <2>2, <2>3 DEF WorkerAt
<1> QED BY <1>4, <1>5, <1>6 DEF LinkInv

LEMMA LinkInvNext == LinkInv /\ [Next]_vars => LinkInv'
<1> SUFFICES ASSUME LinkInv, [Next]_vars PROVE LinkInv'
  OBVIOUS
<1>1. CASE Balancer
  BY <1>1, LinkInvConnect, LinkInvAccept, LinkInvTransfer, LinkInvRouteFailed,
     LinkInvTransferError, LinkInvClose DEF Balancer
<1>2. CASE \E w \in Workers : Worker(w) \/ WorkerCrash(w) \/ WorkerRestart(w)
  BY <1>2, LinkInvLoop, LinkInvInstall, LinkInvCloseExtra, LinkInvReceive,
     LinkInvDrained, LinkInvWorkerCrash, LinkInvRestart DEF Worker, Drains
<1>3. CASE LbCrash \/ LbRestart
  BY <1>3, LinkInvLbCrash, LinkInvClose
<1>4. CASE UNCHANGED vars
  <2>1. TypeOK'
    BY <1>4 DEF LinkInv, TypeOK, vars, lbVars, workerVars, faultVars
  <2>2. UNCHANGED lbVars /\ UNCHANGED <<link, conn, backlog, ready, workerVars>>
    BY <1>4 DEF vars, lbVars
  <2> QED BY <2>1, <2>2, BalancerUntouched, WorkersUntouched DEF LinkInv
<1> QED BY <1>1, <1>2, <1>3, <1>4 DEF Next

LEMMA AlwaysLinkInv == Spec => []LinkInv
BY LinkInvInit, LinkInvNext, PTL DEF Spec

(* Every variable of the hand-off keeps its type.                          *)
THEOREM Typed == Spec => []TypeOK
<1>1. LinkInv => TypeOK
  BY DEF LinkInv
<1> QED BY <1>1, AlwaysLinkInv, PTL

(* No stale descriptor is sent on, received from or closed, whatever       *)
(* crashes and whenever (lb/main.rs:87-97, evented.rs:97-121).             *)
THEOREM NoStaleDescriptor == Spec => []DescriptorsAreCurrent
<1>1. LinkInv => DescriptorsAreCurrent
  BY DEF LinkInv, WorkerAt, CurrentAt, DescriptorsAreCurrent
<1> QED BY <1>1, AlwaysLinkInv, PTL

-----------------------------------------------------------------------------
(* Each client is in one place.                                            *)

(* A step that moves no client.                                            *)
Keeps ==
  /\ waiting' = waiting /\ table' = table /\ peer' \in {peer, NoClient}
  /\ \A w \in Workers, k \in Slots : conn'[w][k].queue = conn[w][k].queue
  /\ \A c \in Clients : Held(c)' <=> Held(c)

(* A step that moves no client anywhere, but may lose some.                *)
Shrinks ==
  /\ waiting' = waiting /\ peer' \in {peer, NoClient}
  /\ \A w \in Workers : table'[w] \in SUBSET table[w]
  /\ \A w \in Workers, k \in Slots : conn'[w][k].queue \in {conn[w][k].queue, << >>}
  /\ \A c \in Clients : Held(c)' => Held(c)

LEMMA KeepsShrinks == Keeps => Shrinks
BY DEF Keeps, Shrinks

(* The steps that close a connection or a process with what it holds.      *)
Closing ==
  \/ RetransferError /\ mode = "sync"
  \/ \E w \in Workers : \/ CloseExtra(w)
                        \/ Drains(w) /\ ~UNCHANGED <<conn, control, ready>>
                        \/ WorkerCrash(w)
  \/ LbCrash

LEMMA BalancerKeeps ==
  ASSUME LinkInv,
         \/ EstablishLink \/ TransferWouldBlock \/ TransferError \/ RestoreConnection
         \/ (RetransferError /\ mode # "sync")
         \/ ClosePeer \/ LbRestart
  PROVE  Keeps
<1> USE DEF LinkInv
<1>1. CASE EstablishLink \/ RestoreConnection
  <2>1. /\ UNCHANGED <<waiting, table, peer>> /\ \E w \in Workers : Connect(w)
        /\ lpc' \in {"send", "restore", "resend"} <=> lpc \in {"send", "restore", "resend"}
    BY <1>1, TargetInWorkers DEF EstablishLink, RestoreConnection, workerVars, TypeOK
  <2>2. PICK w \in Workers, k \in Slots :
          /\ conn[w][k].api = "closed"
          /\ Becomes(w, k, [lb |-> TRUE, api |-> "backlog", queue |-> << >>])
    BY <2>1, Connected
  <2>3. conn[w][k].queue = << >>
    BY <2>2 DEF WorkerAt, EndsOnceAt
  <2> QED BY <2>1, <2>2, <2>3 DEF Becomes, Keeps, Held
<1>2. CASE TransferError
  <2>1. /\ UNCHANGED <<waiting, table, peer>> /\ lpc = "send" /\ lpc' = "restore"
    BY <1>2 DEF TransferError, workerVars
  <2>2. \A w \in Workers, k \in Slots : conn'[w][k].queue = conn[w][k].queue
    <3>1. PICK w \in Workers : w = Target
      BY TargetInWorkers
    <3>2. CASE link[w] = NoSlot
      BY <1>2, <3>1, <3>2 DEF TransferError
    <3>3. CASE link[w] # NoSlot
      <4>1. PICK k \in Slots : k = link[w]
        BY <3>3 DEF TypeOK
      <4>2. conn' = [conn EXCEPT ![w][k].lb = FALSE]
        BY <1>2, <3>1, <3>3, <4>1 DEF TransferError
      <4> DEFINE r == [conn[w][k] EXCEPT !.lb = FALSE]
      <4>3. r \in Connections /\ r.queue = conn[w][k].queue
        BY ConnFields DEF Connections
      <4>4. conn' = [conn EXCEPT ![w][k] = r]
        BY <4>2
      <4> HIDE DEF r
      <4>5. Becomes(w, k, r)
        BY <4>3, <4>4, CellSet
      <4> QED BY <4>3, <4>5 DEF Becomes
    <3> QED BY <3>2, <3>3
  <2> QED BY <2>1, <2>2 DEF Keeps, Held
<1>3. CASE TransferWouldBlock \/ (RetransferError /\ mode # "sync")
  <2>1. /\ UNCHANGED <<waiting, table, peer, conn>>
        /\ lpc \in {"send", "resend"} /\ lpc' = "send"
    BY <1>3 DEF TransferWouldBlock, RetransferError, RouteFailed, workerVars, TypeOK
  <2> QED BY <2>1 DEF Keeps, Held
<1>4. CASE ClosePeer \/ LbRestart
  BY <1>4 DEF ClosePeer, LbRestart, workerVars, Keeps, Held
<1> QED BY <1>1, <1>2, <1>3, <1>4

LEMMA WorkerKeeps ==
  ASSUME LinkInv, NEW w \in Workers,
         \/ EpollWait(w) \/ BatchDone(w) \/ Dispatch(w) \/ InstallControl(w)
         \/ AcceptWouldBlock(w) \/ WorkerRestart(w)
         \/ (Drains(w) /\ UNCHANGED <<conn, control, ready>>)
  PROVE  Keeps
<1>1. CASE InstallControl(w)
  <2>1. UNCHANGED <<waiting, lbVars, table>>
    BY <1>1 DEF InstallControl
  <2>2. PICK k \in Slots, r \in Connections :
          Becomes(w, k, r) /\ r.queue = conn[w][k].queue
    BY <1>1, Installed DEF LinkInv
  <2> QED BY <2>1, <2>2 DEF Becomes, Keeps, Held, lbVars
<1>2. CASE ~InstallControl(w)
  BY <1>2 DEF EpollWait, BatchDone, Dispatch, AcceptWouldBlock, Drains, DrainDone,
              RecvFdFails, WorkerRestart,
              Keeps, Held, lbVars
<1> QED BY <1>1, <1>2

LEMMA ClosingShrinks ==
  ASSUME LinkInv, Closing
  PROVE  Shrinks
<1> USE DEF LinkInv
<1>1. CASE RetransferError /\ mode = "sync"
  BY <1>1 DEF RetransferError, RouteFailed, workerVars, Shrinks, Held
<1>2. ASSUME NEW w \in Workers, CloseExtra(w) PROVE Shrinks
  <2>1. UNCHANGED <<waiting, lbVars, table>>
    BY <1>2 DEF CloseExtra
  <2>2. PICK k \in Slots, r \in Connections : Becomes(w, k, r) /\ r.queue = << >>
    BY <1>2, ExtraClosed
  <2> QED BY <2>1, <2>2 DEF Becomes, Shrinks, Held, lbVars
<1>3. ASSUME NEW w \in Workers, Drains(w), ~UNCHANGED <<conn, control, ready>> PROVE Shrinks
  <2>1. UNCHANGED <<waiting, lbVars, table>>
    BY <1>3 DEF Drains, DrainDone, RecvFdFails
  <2>2. PICK k \in Slots, r \in Connections : Becomes(w, k, r) /\ r.queue = << >>
    BY <1>3, Drained
  <2> QED BY <2>1, <2>2 DEF Becomes, Shrinks, Held, lbVars
<1>4. ASSUME NEW w \in Workers, WorkerCrash(w) PROVE Shrinks
  <2>1. UNCHANGED <<waiting, lbVars>> /\ table' = [table EXCEPT ![w] = {}]
    BY <1>4 DEF WorkerCrash
  <2>2. \A v \in Workers : table'[v] \in SUBSET table[v]
    BY <2>1 DEF TypeOK
  <2>3. \A v \in Workers, k \in Slots : conn'[v][k].queue \in {conn[v][k].queue, << >>}
    BY <1>4, Crashed
  <2> QED BY <2>1, <2>2, <2>3 DEF Shrinks, Held, lbVars
<1>5. CASE LbCrash
  <2>1. UNCHANGED <<waiting, table>> /\ lpc' = "down" /\ peer' = NoClient
    BY <1>5 DEF LbCrash, workerVars
  <2> QED BY <1>5, <2>1, LbCrashed DEF Shrinks, Held
<1> QED BY <1>1, <1>2, <1>3, <1>4, <1>5 DEF Closing

(* Every step keeps the clients where they are, moves one on, or closes.   *)
LEMMA StepKinds ==
  ASSUME LinkInv, [Next]_vars
  PROVE  \/ Keeps \/ AcceptIncoming \/ TransferDescriptor
         \/ \E w \in Workers : RecvFd(w)
         \/ Closing
<1>1. CASE Balancer
  BY <1>1, BalancerKeeps DEF Balancer, Closing
<1>2. ASSUME NEW w \in Workers, Worker(w) \/ WorkerCrash(w) \/ WorkerRestart(w)
      PROVE  Keeps \/ RecvFd(w) \/ Closing
  <2>1. CASE WorkerCrash(w) \/ CloseExtra(w)
    BY <2>1 DEF Closing
  <2>2. CASE Drains(w) /\ ~UNCHANGED <<conn, control, ready>>
    BY <2>2 DEF Closing
  <2>3. CASE Drains(w) /\ UNCHANGED <<conn, control, ready>>
    BY <2>3, WorkerKeeps
  <2>4. CASE \/ EpollWait(w) \/ BatchDone(w) \/ Dispatch(w) \/ InstallControl(w)
             \/ AcceptWouldBlock(w) \/ WorkerRestart(w)
    BY <2>4, WorkerKeeps
  <2> QED BY <1>2, <2>1, <2>2, <2>3, <2>4 DEF Worker, Drains
<1>3. CASE LbCrash \/ LbRestart
  BY <1>3, BalancerKeeps DEF Closing
<1>4. CASE UNCHANGED vars
  BY <1>4 DEF vars, lbVars, workerVars, Keeps, Held
<1> QED BY <1>1, <1>2, <1>3, <1>4 DEF Next

LEMMA OnePlaceShrinks ==
  ASSUME TypeOK, OnePlace, Shrinks
  PROVE  OnePlace'
<1>1. \A c \in Clients, w \in Workers, k \in Slots : InQueue(c, w, k)' => InQueue(c, w, k)
  <2> SUFFICES ASSUME NEW c \in Clients, NEW w \in Workers, NEW k \in Slots, InQueue(c, w, k)'
               PROVE  InQueue(c, w, k)
    OBVIOUS
  <2>1. conn'[w][k].queue # << >>
    BY DEF InQueue
  <2>2. conn'[w][k].queue = conn[w][k].queue
    BY <2>1 DEF Shrinks
  <2> QED BY <2>2 DEF InQueue
<1>2. \A w \in Workers, k \in Slots : \A i, j \in DOMAIN conn'[w][k].queue :
        conn'[w][k].queue[i] = conn'[w][k].queue[j] => i = j
  <2> SUFFICES ASSUME NEW w \in Workers, NEW k \in Slots
               PROVE  \A i, j \in DOMAIN conn'[w][k].queue :
                        conn'[w][k].queue[i] = conn'[w][k].queue[j] => i = j
    OBVIOUS
  <2>1. CASE conn'[w][k].queue = conn[w][k].queue
    BY <2>1 DEF OnePlace
  <2>2. CASE conn'[w][k].queue = << >>
    BY <2>2
  <2> QED BY <2>1, <2>2 DEF Shrinks
<1>3. \A c \in waiting' : peer' # c
  BY HandoffAssumption DEF OnePlace, Shrinks, TypeOK
<1> QED BY ZenonT(30), <1>1, <1>2, <1>3 DEF OnePlace, Shrinks

LEMMA OnePlaceAccept ==
  ASSUME LinkInv, OnePlace, AcceptIncoming
  PROVE  OnePlace'
<1>1. PICK c \in waiting : peer' = c /\ waiting' = waiting \ {c}
  BY DEF AcceptIncoming
<1>2. UNCHANGED <<conn, table>> /\ lpc = "accept" /\ lpc' = "send"
  BY DEF AcceptIncoming, workerVars
<1>3. \A d, w, k : InQueue(d, w, k)' <=> InQueue(d, w, k)
  BY <1>2 DEF InQueue
<1>4. \A d : Held(d)' <=> d = c
  BY <1>1, <1>2 DEF Held
<1> QED BY <1>1, <1>2, <1>3, <1>4 DEF OnePlace

(* The descriptor in flight joins a queue, and leaves the balancer.        *)
LEMMA TransferMoves ==
  ASSUME LinkInv, TransferDescriptor
  PROVE  \E w \in Workers, k \in Slots :
           /\ peer \in Clients /\ Held(peer) /\ \A c \in Clients : ~Held(c)'
           /\ waiting' = waiting /\ peer' = peer /\ table' = table
           /\ conn[w][k].queue \in Seq(Clients)
           /\ conn'[w][k].queue = Append(conn[w][k].queue, peer)
           /\ \A v \in Workers, l \in Slots :
                ~(v = w /\ l = k) => conn'[v][l].queue = conn[v][l].queue
           /\ \A c \in Clients, v \in Workers, l \in Slots :
                InQueue(c, v, l)' <=> InQueue(c, v, l) \/ (c = peer /\ v = w /\ l = k)
<1>1. PICK w \in Workers, k \in Slots, r \in Connections :
           /\ peer \in Clients /\ Becomes(w, k, r)
           /\ r.queue = Append(conn[w][k].queue, peer)
  BY Transferred
<1>2. /\ UNCHANGED <<waiting, peer, table>>
      /\ lpc \in {"send", "resend"} /\ lpc' = "close"
  BY DEF TransferDescriptor, workerVars
<1>3. conn[w][k].queue \in Seq(Clients)
  BY ConnFields DEF LinkInv
<1>4. conn'[w][k].queue = Append(conn[w][k].queue, peer)
  BY <1>1 DEF Becomes
<1>5. \A v \in Workers, l \in Slots :
        ~(v = w /\ l = k) => conn'[v][l].queue = conn[v][l].queue
  BY <1>1 DEF Becomes
<1>6. ASSUME NEW c \in Clients, NEW v \in Workers, NEW l \in Slots
      PROVE  InQueue(c, v, l)' <=> InQueue(c, v, l) \/ (c = peer /\ v = w /\ l = k)
  <2>1. CASE v = w /\ l = k
    <3> DEFINE q == conn[w][k].queue
               a == Append(q, peer)
    <3>1. (\E i \in DOMAIN a : a[i] = c) <=> (\E i \in DOMAIN q : q[i] = c) \/ c = peer
      <4>1. q \in Seq(Clients)
        BY <1>3
      <4> HIDE DEF q
      <4>2. /\ \A i \in DOMAIN q : i \in DOMAIN a /\ a[i] = q[i]
            /\ Len(q) + 1 \in DOMAIN a /\ a[Len(q) + 1] = peer
            /\ \A i \in DOMAIN a : \/ i \in DOMAIN q /\ a[i] = q[i]
                                   \/ i = Len(q) + 1 /\ a[i] = peer
        BY <4>1, <1>1, Appended
      <4> HIDE DEF a
      <4> QED BY <4>2
    <3> HIDE DEF q, a
    <3>2. (InQueue(c, w, k) <=> \E i \in DOMAIN q : q[i] = c)
          /\ (InQueue(c, w, k)' <=> \E i \in DOMAIN a : a[i] = c)
      BY <1>4 DEF InQueue, q, a
    <3> QED BY <2>1, <3>1, <3>2
  <2>2. CASE ~(v = w /\ l = k)
    BY <2>2, <1>5 DEF InQueue
  <2> QED BY <2>1, <2>2
<1>7. Held(peer) /\ \A c \in Clients : ~Held(c)'
  BY <1>2 DEF Held
<1> QED BY SMTT(30), <1>1, <1>2, <1>3, <1>4, <1>5, <1>6, <1>7

LEMMA OnePlaceTransfer ==
  ASSUME LinkInv, OnePlace, TransferDescriptor
  PROVE  OnePlace'
<1>1. PICK w \in Workers, k \in Slots :
           /\ peer \in Clients /\ Held(peer) /\ \A c \in Clients : ~Held(c)'
           /\ waiting' = waiting /\ peer' = peer /\ table' = table
           /\ conn[w][k].queue \in Seq(Clients)
           /\ conn'[w][k].queue = Append(conn[w][k].queue, peer)
           /\ \A v \in Workers, l \in Slots :
                ~(v = w /\ l = k) => conn'[v][l].queue = conn[v][l].queue
           /\ \A c \in Clients, v \in Workers, l \in Slots :
                InQueue(c, v, l)' <=> InQueue(c, v, l) \/ (c = peer /\ v = w /\ l = k)
  BY TransferMoves
<1>2. peer \notin waiting /\ \A v \in Workers, l \in Slots : peer \notin table[v] /\ ~InQueue(peer, v, l)
  BY <1>1 DEF OnePlace
<1>3. ASSUME NEW v \in Workers, NEW l \in Slots
      PROVE  \A i, j \in DOMAIN conn'[v][l].queue :
               conn'[v][l].queue[i] = conn'[v][l].queue[j] => i = j
  <2>1. CASE v = w /\ l = k
    <3> DEFINE q == conn[w][k].queue
    <3>1. q \in Seq(Clients) /\ conn'[v][l].queue = Append(q, peer)
      BY <1>1, <2>1
    <3>2. \A i, j \in DOMAIN q : q[i] = q[j] => i = j
      BY DEF OnePlace
    <3>3. \A i \in DOMAIN q : q[i] # peer
      BY <1>2 DEF InQueue
    <3> HIDE DEF q
    <3>4. \A i \in DOMAIN Append(q, peer) :
              \/ i \in DOMAIN q /\ Append(q, peer)[i] = q[i]
              \/ i = Len(q) + 1 /\ Append(q, peer)[i] = peer
      BY <1>1, <3>1, Appended
    <3> QED BY <3>1, <3>2, <3>3, <3>4
  <2>2. CASE ~(v = w /\ l = k)
    BY <2>2, <1>1 DEF OnePlace
  <2> QED BY <2>1, <2>2
<1>4. /\ \A c \in waiting' : peer' # c
      /\ \A c \in Clients, v \in Workers, l \in Slots :
           InQueue(c, v, l)' => c \notin waiting' /\ ~Held(c)'
  BY <1>1, <1>2 DEF OnePlace
<1>5. \A c \in Clients, v, u \in Workers, l \in Slots : InQueue(c, v, l)' => c \notin table'[u]
  BY <1>1, <1>2 DEF OnePlace
<1>6. \A c \in Clients, v, u \in Workers, l, m \in Slots :
        InQueue(c, v, l)' /\ InQueue(c, u, m)' => v = u /\ l = m
  BY <1>1, <1>2 DEF OnePlace
<1> QED BY <1>1, <1>3, <1>4, <1>5, <1>6 DEF OnePlace

(* The oldest descriptor in flight leaves its queue for the table.         *)
LEMMA ReceiveMoves ==
  ASSUME LinkInv, OnePlace, NEW w \in Workers, RecvFd(w)
  PROVE  \E k \in Slots, h \in Clients :
           /\ InQueue(h, w, k) /\ UNCHANGED <<waiting, peer, lpc>>
           /\ \/ \A v \in Workers : table'[v] = IF v = w THEN table[v] \cup {h} ELSE table[v]
              \/ table' = table /\ h \in refused'
           /\ \A c \in Clients, v \in Workers, l \in Slots :
                InQueue(c, v, l)' <=> InQueue(c, v, l) /\ c # h
           /\ \A v \in Workers, l \in Slots : \A i, j \in DOMAIN conn'[v][l].queue :
                conn'[v][l].queue[i] = conn'[v][l].queue[j] => i = j
<1>1. PICK k \in Slots, r \in Connections :
           /\ Becomes(w, k, r) /\ conn[w][k].queue # << >>
           /\ r.queue = Tail(conn[w][k].queue)
           /\ Head(conn[w][k].queue) \in Clients
           /\ OnNewClientFd(w, Head(conn[w][k].queue))
  BY Received DEF LinkInv
<1> DEFINE q == conn[w][k].queue
           h == Head(q)
<1>2. UNCHANGED <<waiting, peer, lpc>>
  BY DEF RecvFd, lbVars
<1>3. \/ \A v \in Workers : table'[v] = IF v = w THEN table[v] \cup {h} ELSE table[v]
      \/ table' = table /\ h \in refused'
  BY <1>1 DEF OnNewClientFd, LinkInv, TypeOK
<1>4. /\ conn'[w][k].queue = Tail(q)
      /\ \A v \in Workers, l \in Slots : ~(v = w /\ l = k) => conn'[v][l].queue = conn[v][l].queue
  BY <1>1 DEF Becomes
<1>5. q \in Seq(Clients) /\ q # << >> /\ (\A i, j \in DOMAIN q : q[i] = q[j] => i = j)
  BY <1>1, ConnFields DEF LinkInv, OnePlace
<1>6. /\ h = q[1] /\ 1 \in DOMAIN q
      /\ \A i \in DOMAIN Tail(q) : i + 1 \in DOMAIN q /\ Tail(q)[i] = q[i + 1] /\ i + 1 # 1
      /\ \A j \in DOMAIN q : j # 1 => j - 1 \in DOMAIN Tail(q) /\ Tail(q)[j - 1] = q[j]
      /\ DOMAIN Tail(q) \in SUBSET Int
  <2> HIDE DEF q
  <2>1. \A j \in DOMAIN q : (j - 1) + 1 = j
    BY <1>5
  <2>2. \A i \in DOMAIN Tail(q) : i + 1 # 1
    BY <1>5
  <2>3. DOMAIN Tail(q) \in SUBSET Int
    BY <1>5
  <2> QED BY <1>5, <2>1, <2>2, <2>3, HeadTail
<1>7. InQueue(h, w, k)
  BY <1>6 DEF InQueue
<1>8. \A i, j \in DOMAIN Tail(q) : Tail(q)[i] = Tail(q)[j] => i = j
  <2> HIDE DEF q
  <2> QED BY <1>5, <1>6
<1>9. ASSUME NEW c \in Clients
      PROVE  (\E i \in DOMAIN Tail(q) : Tail(q)[i] = c)
                           <=> (\E i \in DOMAIN q : q[i] = c) /\ c # h
  <2> HIDE DEF q, h
  <2>1. ASSUME NEW i \in DOMAIN Tail(q) PROVE i + 1 \in DOMAIN q /\ q[i + 1] = Tail(q)[i] /\ Tail(q)[i] # h
    BY <1>5, <1>6
  <2>2. ASSUME NEW j \in DOMAIN q, q[j] # h PROVE j - 1 \in DOMAIN Tail(q) /\ Tail(q)[j - 1] = q[j]
    BY <1>6, <2>2
  <2> QED BY <2>1, <2>2
<1>10. ASSUME NEW c \in Clients, NEW v \in Workers, NEW l \in Slots
       PROVE  InQueue(c, v, l)' <=> InQueue(c, v, l) /\ c # h
  <2>1. CASE v = w /\ l = k
    <3>1. (InQueue(c, w, k) <=> \E i \in DOMAIN q : q[i] = c)
          /\ (InQueue(c, w, k)' <=> \E i \in DOMAIN Tail(q) : Tail(q)[i] = c)
      <4> DEFINE t == Tail(q)
      <4>1. conn'[w][k].queue = t
        BY <1>4
      <4> HIDE DEF t
      <4>2. InQueue(c, w, k)' <=> \E i \in DOMAIN t : t[i] = c
        BY <4>1 DEF InQueue
      <4> QED BY <4>2 DEF InQueue, t
    <3> QED BY <2>1, <3>1, <1>9
  <2>2. CASE ~(v = w /\ l = k)
    <3>1. InQueue(c, v, l)' <=> InQueue(c, v, l)
      BY <2>2, <1>4 DEF InQueue
    <3>2. InQueue(h, v, l) => v = w /\ l = k
      BY <1>1, <1>7 DEF OnePlace
    <3> QED BY <2>2, <3>1, <3>2
  <2> QED BY <2>1, <2>2
<1>11. \A v \in Workers, l \in Slots : \A i, j \in DOMAIN conn'[v][l].queue :
                conn'[v][l].queue[i] = conn'[v][l].queue[j] => i = j
  <2> SUFFICES ASSUME NEW v \in Workers, NEW l \in Slots
               PROVE  \A i, j \in DOMAIN conn'[v][l].queue :
                        conn'[v][l].queue[i] = conn'[v][l].queue[j] => i = j
    OBVIOUS
  <2>1. CASE v = w /\ l = k
    <3> DEFINE t == Tail(q)
    <3>1. conn'[w][k].queue = t /\ \A i, j \in DOMAIN t : t[i] = t[j] => i = j
      BY <1>4, <1>8
    <3> HIDE DEF t
    <3> QED BY <2>1, <3>1
  <2>2. CASE ~(v = w /\ l = k)
    BY <2>2, <1>4 DEF OnePlace
  <2> QED BY <2>1, <2>2
<1> QED BY <1>1, <1>2, <1>3, <1>7, <1>10, <1>11

LEMMA OnePlaceReceive ==
  ASSUME LinkInv, OnePlace, NEW w \in Workers, RecvFd(w)
  PROVE  OnePlace'
<1>1. PICK k \in Slots, h \in Clients :
           /\ InQueue(h, w, k) /\ UNCHANGED <<waiting, peer, lpc>>
           /\ \/ \A v \in Workers : table'[v] = IF v = w THEN table[v] \cup {h} ELSE table[v]
              \/ table' = table /\ h \in refused'
           /\ \A c \in Clients, v \in Workers, l \in Slots :
                InQueue(c, v, l)' <=> InQueue(c, v, l) /\ c # h
           /\ \A v \in Workers, l \in Slots : \A i, j \in DOMAIN conn'[v][l].queue :
                conn'[v][l].queue[i] = conn'[v][l].queue[j] => i = j
  BY ReceiveMoves
<1>2. h \notin waiting /\ ~Held(h) /\ \A v \in Workers : h \notin table[v]
  BY <1>1 DEF OnePlace
<1>3. \A c : Held(c)' <=> Held(c)
  BY <1>1 DEF Held
<1>a. \A c \in Clients, v \in Workers : c \in table'[v] => c \in table[v] \/ (v = w /\ c = h)
  BY <1>1
<1>b. \A c \in Clients, v \in Workers, l \in Slots :
        InQueue(c, v, l)' <=> InQueue(c, v, l) /\ c # h
  BY <1>1
<1>4. \A c \in Clients, v \in Workers : c \in table'[v] => c \notin waiting' /\ ~Held(c)'
  BY <1>a, <1>1, <1>2, <1>3 DEF OnePlace
<1>5. \A c \in Clients, u, v \in Workers : c \in table'[u] /\ c \in table'[v] => u = v
  <2>1. \A c \in Clients, u, v \in Workers : c \in table[u] /\ c \in table[v] => u = v
    BY DEF OnePlace
  <2> QED BY <1>a, <1>2, <2>1
<1>6. \A c \in Clients, u, v \in Workers, l \in Slots : InQueue(c, v, l)' => c \notin table'[u]
  <2>1. \A c \in Clients, u, v \in Workers, l \in Slots : InQueue(c, v, l) => c \notin table[u]
    BY DEF OnePlace
  <2> QED BY <1>a, <1>b, <2>1
<1> QED BY <1>1, <1>3, <1>4, <1>5, <1>6 DEF OnePlace

LEMMA OnePlaceInit == Init => OnePlace
<1> SUFFICES ASSUME Init PROVE OnePlace
  OBVIOUS
<1>1. /\ \A w \in Workers, k \in Slots : conn[w][k].queue = << >>
      /\ \A w \in Workers : table[w] = {}
  BY DEF Init, FreeConn
<1>2. \A c \in Clients, w \in Workers, k \in Slots : ~InQueue(c, w, k)
  BY <1>1 DEF InQueue
<1>3. \A c \in waiting : peer # c
  BY HandoffAssumption DEF Init
<1> QED BY <1>1, <1>2, <1>3 DEF OnePlace

LEMMA OnePlaceNext == LinkInv /\ OnePlace /\ [Next]_vars => OnePlace'
<1> SUFFICES ASSUME LinkInv, OnePlace, [Next]_vars PROVE OnePlace'
  OBVIOUS
<1>1. TypeOK
  BY DEF LinkInv
<1> QED BY <1>1, StepKinds, KeepsShrinks, ClosingShrinks, OnePlaceShrinks,
           OnePlaceAccept, OnePlaceTransfer, OnePlaceReceive

(* No client is ever in two places, or in flight twice, although           *)
(* route_to_upstream retries (lb/main.rs:316-324).                         *)
THEOREM NeverInTwoPlaces == Spec => []OnePlace
BY OnePlaceInit, OnePlaceNext, AlwaysLinkInv, PTL DEF Spec

-----------------------------------------------------------------------------
(* The hand-off implements Handoff: what each step does to the places.     *)

InTable(c)  == \E w \in Workers : c \in table[w]
InFlight(c) == \E w \in Workers, k \in Slots : InQueue(c, w, k)

LEMMA PlaceIs ==
  ASSUME NEW c \in Clients
  PROVE  Place(c) = IF c \in waiting THEN "waiting"
                    ELSE IF InTable(c) THEN "received"
                    ELSE IF InFlight(c) THEN "passed"
                    ELSE IF Held(c) THEN "held"
                    ELSE "lost"
BY DEF Place, InTable, InFlight, InQueue, Held

LEMMA PlaceIsNext ==
  ASSUME NEW c \in Clients
  PROVE  Place(c)' = IF c \in waiting' THEN "waiting"
                     ELSE IF InTable(c)' THEN "received"
                     ELSE IF InFlight(c)' THEN "passed"
                     ELSE IF Held(c)' THEN "held"
                     ELSE "lost"
BY DEF Place, InTable, InFlight, InQueue, Held

LEMMA KeepsPlaces ==
  ASSUME Keeps, NEW c \in Clients
  PROVE  Place(c)' = Place(c)
<1>1. InTable(c)' <=> InTable(c)
  BY DEF Keeps, InTable
<1>2. InFlight(c)' <=> InFlight(c)
  BY DEF Keeps, InFlight, InQueue
<1> QED BY <1>1, <1>2, PlaceIs, PlaceIsNext DEF Keeps

LEMMA ShrinkingLoses ==
  ASSUME OnePlace, Shrinks, NEW c \in Clients
  PROVE  \/ Place(c)' = Place(c)
         \/ Place(c)' = "lost" /\ Place(c) \in {"held", "passed", "received"}
<1>1. InTable(c)' => InTable(c)
  BY DEF Shrinks, InTable
<1>2. InFlight(c)' => InFlight(c)
  <2> SUFFICES ASSUME NEW w \in Workers, NEW k \in Slots, InQueue(c, w, k)'
               PROVE  InFlight(c)
    BY DEF InFlight
  <2>1. conn'[w][k].queue # << >>
    BY DEF InQueue
  <2>2. conn'[w][k].queue = conn[w][k].queue
    BY <2>1 DEF Shrinks
  <2> QED BY <2>2 DEF InQueue, InFlight
<1>3. (Held(c)' => Held(c)) /\ waiting' = waiting
  BY DEF Shrinks
<1>4. /\ InTable(c) => ~InFlight(c) /\ ~Held(c)
      /\ InFlight(c) => ~Held(c)
  BY DEF OnePlace, InTable, InFlight
<1> QED BY <1>1, <1>2, <1>3, <1>4, PlaceIs, PlaceIsNext

LEMMA AcceptPlaces ==
  ASSUME OnePlace, LinkInv, AcceptIncoming
  PROVE  \E c \in Clients :
           /\ Place(c) = "waiting" /\ Place(c)' = "held"
           /\ \A d \in Clients \ {c} : Place(d)' = Place(d)
<1>1. PICK c \in waiting : peer' = c /\ waiting' = waiting \ {c}
  BY DEF AcceptIncoming
<1>2. UNCHANGED <<conn, table>> /\ lpc = "accept" /\ lpc' = "send" /\ c \in Clients
  BY DEF AcceptIncoming, workerVars, LinkInv, TypeOK
<1>3. \A d \in Clients : /\ InTable(d)' <=> InTable(d)
                         /\ InFlight(d)' <=> InFlight(d)
                         /\ ~Held(d) /\ (Held(d)' <=> d = c)
  BY <1>1, <1>2 DEF InTable, InFlight, InQueue, Held
<1>4. ~InTable(c) /\ ~InFlight(c)
  BY <1>2 DEF OnePlace, InTable, InFlight
<1> QED BY <1>1, <1>2, <1>3, <1>4, PlaceIs, PlaceIsNext

LEMMA TransferPlaces ==
  ASSUME OnePlace, LinkInv, TransferDescriptor
  PROVE  \E c \in Clients :
           /\ Place(c) = "held" /\ Place(c)' = "passed"
           /\ \A d \in Clients \ {c} : Place(d)' = Place(d)
<1>1. PICK w \in Workers, k \in Slots :
           /\ peer \in Clients /\ Held(peer) /\ \A c \in Clients : ~Held(c)'
           /\ waiting' = waiting /\ table' = table
           /\ \A c \in Clients, v \in Workers, l \in Slots :
                InQueue(c, v, l)' <=> InQueue(c, v, l) \/ (c = peer /\ v = w /\ l = k)
  BY TransferMoves
<1>2. \A d \in Clients : /\ InTable(d)' <=> InTable(d)
                         /\ InFlight(d)' <=> InFlight(d) \/ d = peer
                         /\ Held(d) => d = peer
  BY <1>1 DEF InTable, InFlight, Held
<1>3. peer \notin waiting /\ ~InTable(peer) /\ ~InFlight(peer)
  BY <1>1 DEF OnePlace, InTable, InFlight
<1> QED BY <1>1, <1>2, <1>3, PlaceIs, PlaceIsNext

LEMMA ReceivePlaces ==
  ASSUME OnePlace, LinkInv, NEW w \in Workers, RecvFd(w)
  PROVE  \E c \in Clients :
           /\ Place(c) = "passed"
           /\ Place(c)' = "received" \/ (Place(c)' = "lost" /\ c \in refused')
           /\ \A d \in Clients \ {c} : Place(d)' = Place(d)
<1>1. PICK k \in Slots, h \in Clients :
           /\ InQueue(h, w, k) /\ UNCHANGED <<waiting, peer, lpc>>
           /\ \/ \A v \in Workers : table'[v] = IF v = w THEN table[v] \cup {h} ELSE table[v]
              \/ table' = table /\ h \in refused'
           /\ \A c \in Clients, v \in Workers, l \in Slots :
                InQueue(c, v, l)' <=> InQueue(c, v, l) /\ c # h
           /\ \A v \in Workers, l \in Slots : \A i, j \in DOMAIN conn'[v][l].queue :
                conn'[v][l].queue[i] = conn'[v][l].queue[j] => i = j
  BY ReceiveMoves
<1>2. \A d \in Clients : Held(d)' <=> Held(d)
  BY <1>1 DEF Held
<1>3. \/ \A d \in Clients : InTable(d)' <=> InTable(d) \/ d = h
      \/ h \in refused' /\ \A d \in Clients : InTable(d)' <=> InTable(d)
  <2>1. CASE \A v \in Workers : table'[v] = IF v = w THEN table[v] \cup {h} ELSE table[v]
    <3>1. \A d \in Clients, v \in Workers : d \in table'[v] <=> d \in table[v] \/ (v = w /\ d = h)
      BY <2>1
    <3> QED BY <3>1 DEF InTable
  <2>2. CASE table' = table /\ h \in refused'
    BY <2>2 DEF InTable
  <2> QED BY <1>1, <2>1, <2>2
<1>4. \A d \in Clients : InFlight(d)' <=> InFlight(d) /\ d # h
  BY <1>1 DEF InFlight
<1>5. h \notin waiting /\ ~InTable(h) /\ InFlight(h) /\ ~Held(h)
  BY <1>1 DEF OnePlace, InTable, InFlight
<1> QED BY <1>1, <1>2, <1>3, <1>4, <1>5, PlaceIs, PlaceIsNext

places == [c \in Clients |-> Place(c)]

LEMMA StepIsAbstract ==
  LinkInv /\ OnePlace /\ [Next]_vars => [Abstract!Next]_places
<1> SUFFICES ASSUME LinkInv, OnePlace, [Next]_vars PROVE Abstract!Next \/ places' = places
  OBVIOUS
<1>1. CASE Keeps
  BY <1>1, KeepsPlaces DEF places
<1>2. CASE AcceptIncoming
  <2>1. PICK c \in Clients :
           /\ Place(c) = "waiting" /\ Place(c)' = "held"
           /\ \A d \in Clients \ {c} : Place(d)' = Place(d)
    BY <1>2, AcceptPlaces
  <2>2. Abstract!Accept(c)
    BY <2>1 DEF Abstract!Accept, Abstract!Move
  <2> QED BY <2>2 DEF Abstract!Next
<1>3. CASE TransferDescriptor
  <2>1. PICK c \in Clients :
           /\ Place(c) = "held" /\ Place(c)' = "passed"
           /\ \A d \in Clients \ {c} : Place(d)' = Place(d)
    BY <1>3, TransferPlaces
  <2>2. Abstract!Pass(c)
    BY <2>1 DEF Abstract!Pass, Abstract!Move
  <2> QED BY <2>2 DEF Abstract!Next
<1>4. CASE \E w \in Workers : RecvFd(w)
  <2>1. PICK c \in Clients :
           /\ Place(c) = "passed"
           /\ Place(c)' = "received" \/ Place(c)' = "lost"
           /\ \A d \in Clients \ {c} : Place(d)' = Place(d)
    BY <1>4, ReceivePlaces
  <2>2. CASE Place(c)' = "received"
    <3>1. Abstract!Receive(c)
      BY <2>1, <2>2 DEF Abstract!Receive, Abstract!Move
    <3> QED BY <3>1 DEF Abstract!Next
  <2>3. CASE Place(c)' = "lost"
    <3>1. Abstract!Lose({c})
      BY <2>1, <2>3 DEF Abstract!Lose
    <3>2. {c} \in SUBSET Clients
      OBVIOUS
    <3> QED BY <3>1, <3>2 DEF Abstract!Next
  <2> QED BY <2>1, <2>2, <2>3
<1>5. CASE Closing
  <2>1. \A c \in Clients :
          \/ Place(c)' = Place(c)
          \/ Place(c)' = "lost" /\ Place(c) \in {"held", "passed", "received"}
    BY <1>5, ClosingShrinks, ShrinkingLoses
  <2> DEFINE S == {c \in Clients : Place(c)' = "lost" /\ Place(c) \in {"held", "passed", "received"}}
  <2>2. Abstract!Lose(S)
    BY <2>1 DEF Abstract!Lose
  <2>3. S \in SUBSET Clients
    OBVIOUS
  <2> QED BY <2>2, <2>3 DEF Abstract!Next
<1> QED BY <1>1, <1>2, <1>3, <1>4, <1>5, StepKinds

(* The hand-off implements its abstract specification: a client is         *)
(* accepted once, passed on at most once, received by one worker, and      *)
(* never comes back once lost (lb/main.rs:205-226, evented.rs:194-214).    *)
THEOREM ImplementsHandoff == Spec => HandoffIsAbstract
<1>1. Init => Abstract!Init
  BY PlaceIs DEF Init, Abstract!Init
<1>2. Spec => [](LinkInv /\ OnePlace)
  BY AlwaysLinkInv, NeverInTwoPlaces, PTL
<1> QED BY <1>1, <1>2, StepIsAbstract, PTL DEF Spec, HandoffIsAbstract, Abstract!Spec, places

-----------------------------------------------------------------------------
(* What is lost or given up takes crashes.                                 *)

LEMMA BreaksInit == Init => BreaksTakeCrashes
<1> SUFFICES ASSUME Init PROVE BreaksTakeCrashes
  OBVIOUS
<1>1. \A w \in Workers, k \in Slots : conn[w][k].api = "closed"
  BY DEF Init, FreeConn
<1>2. \A w \in Workers : events[w] = << >> /\ link[w] = NoSlot
  BY DEF Init
<1> QED BY <1>1, <1>2 DEF Init, BreaksTakeCrashes

(* Without a crash of the balancer nothing is closed but by crashes and    *)
(* failed receptions.                                                      *)
LEMMA NothingCloses ==
  ASSUME LinkInv, BreaksTakeCrashes, lcrashes = 0, NEW w \in Workers
  PROVE  /\ ~CloseExtra(w)
         /\ DrainDone(w) => UNCHANGED <<conn, control, ready>>
<1>0. TypeOK /\ WorkerAt(w) /\ LoopAt(w) /\ CurrentAt(w)
  BY DEF LinkInv, WorkerAt
<1>1. ASSUME CloseExtra(w) PROVE FALSE
  <2>1. PICK k \in Slots : conn[w][k].api = "backlog" /\ k # control[w]
    BY <1>0, <1>1, ExtraClosed
  <2>2. PICK l \in Slots : l = control[w] /\ conn[w][l].api = "control"
    BY <1>0, <1>1, SlotsOf DEF CloseExtra, CurrentAt
  <2>3. conn[w][k].lb /\ conn[w][l].lb
    BY <2>1, <2>2 DEF BreaksTakeCrashes
  <2> QED BY <1>0, <2>1, <2>2, <2>3 DEF CurrentAt
<1>2. ASSUME DrainDone(w), ~UNCHANGED <<conn, control, ready>> PROVE FALSE
  <2>1. /\ control[w] \in Slots /\ conn[w][control[w]].api = "control"
        /\ ~conn[w][control[w]].lb \/ Head(events[w]).hup
        /\ events[w] # << >>
    BY <1>0, <1>2, Drained DEF Drains, DrainDone, CloseControl, ControlConn
  <2>2. conn[w][control[w]].lb
    BY <2>1 DEF BreaksTakeCrashes
  <2>3. events[w] \in Seq(EventSet)
    BY <1>0 DEF TypeOK
  <2>4. 1 \in DOMAIN events[w] /\ Head(events[w]) = events[w][1]
    BY <2>1, <2>3, HeadTail
  <2>5. ~events[w][1].hup
    BY <2>4 DEF BreaksTakeCrashes
  <2> QED BY <2>1, <2>2, <2>4, <2>5
<1> QED BY <1>1, <1>2

(* The conjuncts of BreaksTakeCrashes, one by one.                         *)
OpenBothEnds == \A w \in Workers, k \in Slots : conn[w][k].api # "closed" => conn[w][k].lb

NoHangUp == \A w \in Workers : \A i \in DOMAIN events[w] : ~events[w][i].hup

BrokenTakesCrash ==
  /\ \A w \in Workers : link[w] # NoSlot /\ Broken(w) => Breaks >= 1
  /\ lpc \in {"restore", "resend"} => Breaks >= 1
  /\ lpc = "resend" /\ Broken(Target) => Breaks >= 2
  /\ gaveUp # {} => Breaks >= 2

LEMMA BreaksParts ==
  BreaksTakeCrashes <=>
    (lcrashes = 0 => lpc # "down" /\ OpenBothEnds /\ NoHangUp /\ BrokenTakesCrash)
BY DEF BreaksTakeCrashes, OpenBothEnds, NoHangUp, BrokenTakesCrash

(* A running worker that receives opens and closes no end of an open       *)
(* connection.                                                             *)
LEMMA WorkerOpensNothing ==
  ASSUME LinkInv, BreaksTakeCrashes, lcrashes = 0, NEW w \in Workers,
         (Worker(w) /\ ~RecvFdFails(w)) \/ WorkerRestart(w)
  PROVE  /\ UNCHANGED <<lbVars, wcrashes, lcrashes, recvErrors, gaveUp>>
         /\ \A v \in Workers, k \in Slots :
              /\ conn'[v][k].lb = conn[v][k].lb
              /\ conn'[v][k].api = "closed" <=> conn[v][k].api = "closed"
<1> USE NothingCloses
<1>1. CASE \/ EpollWait(w) \/ BatchDone(w) \/ Dispatch(w) \/ AcceptWouldBlock(w)
           \/ WorkerRestart(w)
  BY <1>1 DEF EpollWait, BatchDone, Dispatch, AcceptWouldBlock, WorkerRestart, faultVars
<1>2. CASE DrainDone(w)
  BY <1>2 DEF DrainDone, faultVars
<1>3. CASE InstallControl(w)
  <2>1. PICK k \in Slots, r \in Connections :
           /\ Becomes(w, k, r) /\ conn[w][k].api = "backlog" /\ r.api = "control"
           /\ r.lb = conn[w][k].lb
    BY <1>3, Installed DEF LinkInv
  <2> QED BY <1>3, <2>1 DEF Becomes, InstallControl, faultVars
<1>4. CASE RecvFd(w)
  <2>1. PICK k \in Slots, r \in Connections :
           Becomes(w, k, r) /\ r.api = conn[w][k].api /\ r.lb = conn[w][k].lb
    BY <1>4, Received DEF LinkInv
  <2> QED BY <1>4, <2>1 DEF Becomes, RecvFd
<1> QED BY <1>1, <1>2, <1>3, <1>4 DEF Worker

LEMMA TailNoHangUp ==
  ASSUME TypeOK, NoHangUp, NEW w \in Workers, events[w] # << >>,
         events' = [events EXCEPT ![w] = Tail(events[w])]
  PROVE  NoHangUp'
<1> SUFFICES ASSUME NEW v \in Workers, NEW i \in DOMAIN events'[v]
             PROVE  ~events'[v][i].hup
  BY DEF NoHangUp
<1>1. events[w] \in Seq(EventSet)
  BY DEF TypeOK
<1>2. v = w => i + 1 \in DOMAIN events[w] /\ events'[w][i] = events[w][i + 1]
  <2>1. events'[w] = Tail(events[w])
    BY DEF TypeOK
  <2>2. \A j \in DOMAIN Tail(events[w]) :
           j + 1 \in DOMAIN events[w] /\ Tail(events[w])[j] = events[w][j + 1]
    BY <1>1, HeadTail
  <2>3. v = w => i \in DOMAIN Tail(events[w])
    BY <2>1
  <2> QED BY <2>1, <2>2, <2>3
<1>3. v # w => events'[v] = events[v]
  BY DEF TypeOK
<1> QED BY <1>2, <1>3 DEF NoHangUp

LEMMA WorkerBreaks ==
  ASSUME LinkInv, BreaksTakeCrashes, NEW w \in Workers,
         (Worker(w) /\ ~RecvFdFails(w)) \/ WorkerRestart(w)
  PROVE  BreaksTakeCrashes'
<1>0. lcrashes' = lcrashes
  BY DEF Worker, EpollWait, BatchDone, Dispatch, InstallControl, CloseExtra, AcceptWouldBlock,
         RecvFd, DrainDone, WorkerRestart, faultVars
<1> SUFFICES ASSUME lcrashes = 0
             PROVE  (lpc # "down" /\ OpenBothEnds /\ NoHangUp /\ BrokenTakesCrash)'
  BY <1>0, BreaksParts DEF BreaksTakeCrashes, OpenBothEnds, NoHangUp, BrokenTakesCrash
<1>1. lpc # "down" /\ OpenBothEnds /\ NoHangUp /\ BrokenTakesCrash
  BY BreaksParts
<1>2. /\ UNCHANGED <<lbVars, wcrashes, lcrashes, recvErrors, gaveUp>>
      /\ \A v \in Workers, k \in Slots :
           /\ conn'[v][k].lb = conn[v][k].lb
           /\ conn'[v][k].api = "closed" <=> conn[v][k].api = "closed"
  BY WorkerOpensNothing
<1>3. OpenBothEnds'
  BY <1>1, <1>2 DEF OpenBothEnds
<1>4. BrokenTakesCrash'
  <2>1. \A v \in Workers : link[v] # NoSlot => (Broken(v)' <=> Broken(v))
    BY <1>2 DEF Broken, lbVars, LinkInv, TypeOK
  <2>2. Target' = Target /\ Target \in Workers
    BY <1>2, TargetInWorkers DEF Target, lbVars, LinkInv
  <2>3. lpc = "resend" => (Broken(Target)' <=> Broken(Target))
    BY <1>2, <2>1, <2>2 DEF LinkInv, LinksMade, Broken, lbVars, TypeOK
  <2> QED BY <1>1, <1>2, <2>1, <2>3 DEF BrokenTakesCrash, lbVars, Breaks
<1>5. NoHangUp'
  <2> SUFFICES ASSUME NEW v \in Workers, NEW i \in DOMAIN events'[v]
               PROVE  ~events'[v][i].hup
    BY DEF NoHangUp
  <2>1. CASE UNCHANGED events
    BY <1>1, <2>1 DEF NoHangUp
  <2>2. CASE EpollWait(w)
    <3>1. CASE v # w
      <4>1. events'[v] = events[v]
        BY <2>2, <3>1, Waited DEF LinkInv
      <4> QED BY <1>1, <4>1 DEF NoHangUp
    <3>2. CASE v = w
      <4>1. PICK t \in Tokens : StillReady(w, t) /\ events'[w][i] = Event(w, t)
        BY <2>2, <3>2, Waited DEF LinkInv
      <4>2. t # "listener" => conn[w][control[w]].lb
        <5>1. t # "listener" => control[w] \in Slots
          BY <4>1, SlotsOf DEF StillReady, LinkInv
        <5>2. CurrentAt(w)
          BY DEF LinkInv, WorkerAt
        <5>3. control[w] \in Slots => conn[w][control[w]].api = "control"
          BY <5>2, HandoffAssumption DEF CurrentAt
        <5> QED BY <1>1, <5>1, <5>3 DEF OpenBothEnds
      <4>3. Event(w, t).hup = IF t = "listener" THEN FALSE ELSE ~conn[w][control[w]].lb
        BY DEF Event
      <4>4. ~Event(w, t).hup
        BY <4>2, <4>3
      <4> QED BY <3>2, <4>1, <4>4
    <3> QED BY <3>1, <3>2
  <2>3. CASE ~UNCHANGED events /\ ~EpollWait(w)
    <3>1. events' = [events EXCEPT ![w] = Tail(events[w])] /\ events[w] # << >>
      BY <2>3, Drained DEF Worker, Drains, BatchDone, Dispatch, InstallControl, CloseExtra,
         AcceptWouldBlock, RecvFd, WorkerRestart, LinkInv
    <3> QED BY <1>1, <3>1, TailNoHangUp DEF NoHangUp, LinkInv
  <2> QED BY <2>1, <2>2, <2>3
<1> QED BY <1>1, <1>2, <1>3, <1>4, <1>5 DEF lbVars

(* A failed reception closes the worker's end of its control connection.   *)
LEMMA FailureBreaks ==
  ASSUME LinkInv, BreaksTakeCrashes, NEW w \in Workers, RecvFdFails(w)
  PROVE  BreaksTakeCrashes'
<1>0. /\ recvErrors' = recvErrors + 1 /\ recvErrors \in Nat /\ wcrashes \in Nat
      /\ UNCHANGED <<lbVars, wcrashes, lcrashes, gaveUp>> /\ TypeOK /\ WorkerAt(w)
  BY DEF RecvFdFails, LinkInv, TypeOK
<1>1. /\ events[w] # << >> /\ events' = [events EXCEPT ![w] = Tail(events[w])]
  BY <1>0, Drained DEF Drains
<1> SUFFICES ASSUME lcrashes = 0
             PROVE  (lpc # "down" /\ OpenBothEnds /\ NoHangUp /\ BrokenTakesCrash)'
  BY <1>0, BreaksParts DEF BreaksTakeCrashes, OpenBothEnds, NoHangUp, BrokenTakesCrash
<1>2. lpc # "down" /\ OpenBothEnds /\ NoHangUp /\ BrokenTakesCrash
  BY BreaksParts
<1>3. OpenBothEnds'
  <2>1. CASE UNCHANGED conn
    BY <1>2, <2>1 DEF OpenBothEnds
  <2>2. CASE ~UNCHANGED conn
    <3>1. PICK k \in Slots, r \in Connections : Becomes(w, k, r) /\ r.api = "closed"
      BY <1>0, <2>2, Drained DEF Drains
    <3> QED BY <1>2, <3>1 DEF OpenBothEnds, Becomes
  <2> QED BY <2>1, <2>2
<1>4. NoHangUp'
  BY <1>0, <1>1, <1>2, TailNoHangUp
<1>5. BrokenTakesCrash'
  BY <1>0, <1>2 DEF BrokenTakesCrash, lbVars, Breaks
<1> QED BY <1>0, <1>2, <1>3, <1>4, <1>5 DEF lbVars

LEMMA CrashBreaks ==
  ASSUME LinkInv, BreaksTakeCrashes, NEW w \in Workers, WorkerCrash(w)
  PROVE  BreaksTakeCrashes'
<1>0. /\ wcrashes' = wcrashes + 1 /\ wcrashes \in Nat /\ recvErrors \in Nat
      /\ UNCHANGED <<lbVars, lcrashes, recvErrors, gaveUp>>
      /\ events' = [events EXCEPT ![w] = << >>]
  BY DEF WorkerCrash, LinkInv, TypeOK
<1> SUFFICES ASSUME lcrashes = 0
             PROVE  (lpc # "down" /\ OpenBothEnds /\ NoHangUp /\ BrokenTakesCrash)'
  BY <1>0, BreaksParts DEF BreaksTakeCrashes, OpenBothEnds, NoHangUp, BrokenTakesCrash
<1>1. lpc # "down" /\ OpenBothEnds /\ NoHangUp /\ BrokenTakesCrash
  BY BreaksParts
<1>2. OpenBothEnds'
  <2>1. \A v \in Workers, k \in Slots :
          conn'[v][k].api # "closed" => conn'[v][k] = conn[v][k]
    BY Crashed DEF LinkInv
  <2> QED BY <1>1, <2>1 DEF OpenBothEnds
<1>3. NoHangUp'
  <2>1. \A v \in Workers : events'[v] = << >> \/ events'[v] = events[v]
    BY <1>0 DEF LinkInv, TypeOK
  <2> QED BY <1>1, <2>1 DEF NoHangUp
<1>4. BrokenTakesCrash'
  BY <1>0, <1>1 DEF BrokenTakesCrash, lbVars, Breaks
<1> QED BY <1>0, <1>1, <1>2, <1>3, <1>4 DEF lbVars

LEMMA BalancerBreaks ==
  ASSUME LinkInv, BreaksTakeCrashes, Balancer \/ LbRestart
  PROVE  BreaksTakeCrashes'
<1>0. UNCHANGED <<faultVars, events>> /\ TypeOK /\ \A w \in Workers : WorkerAt(w)
  BY DEF Balancer, EstablishLink, AcceptIncoming, TransferDescriptor, TransferWouldBlock,
         TransferError, RestoreConnection, RetransferError, ClosePeer, LbRestart, workerVars, LinkInv
<1> SUFFICES ASSUME lcrashes = 0
             PROVE  (lpc # "down" /\ OpenBothEnds /\ NoHangUp /\ BrokenTakesCrash)'
  BY <1>0, BreaksParts DEF BreaksTakeCrashes, OpenBothEnds, NoHangUp, BrokenTakesCrash, faultVars
<1>1. lpc # "down" /\ OpenBothEnds /\ NoHangUp /\ BrokenTakesCrash
  BY BreaksParts
<1>2. NoHangUp'
  BY <1>0, <1>1 DEF NoHangUp
<1>3. CASE EstablishLink \/ RestoreConnection
  <2>1. PICK w \in Workers : Connect(w) /\ (RestoreConnection => w = Target)
    BY <1>0, <1>3, TargetInWorkers DEF EstablishLink, RestoreConnection, TypeOK
  <2>2. PICK k \in Slots :
           /\ link' = [link EXCEPT ![w] = k]
           /\ Becomes(w, k, [lb |-> TRUE, api |-> "backlog", queue |-> << >>])
           /\ conn[w][k].api = "closed" /\ ~conn[w][k].lb
    BY <1>0, <2>1, Connected
  <2>3. OpenBothEnds'
    BY <1>1, <2>2 DEF OpenBothEnds, Becomes
  <2>4. /\ link'[w] = k /\ conn'[w][k].api = "backlog" /\ k # NoSlot
        /\ \A v \in Workers \ {w} : link'[v] = link[v] /\ \A l \in Slots : conn'[v][l] = conn[v][l]
    BY SMTT(30), <1>0, <2>2, HandoffAssumption DEF TypeOK, Becomes
  <2>5. \A v \in Workers : Broken(v)' => v # w /\ (link[v] # NoSlot /\ link'[v] # NoSlot => Broken(v))
    BY <1>0, <2>4, SlotsOf DEF Broken
  <2>6. \A v \in Workers : link'[v] # NoSlot /\ Broken(v)' => Breaks >= 1
    BY <1>1, <2>4, <2>5 DEF BrokenTakesCrash
  <2>7. lpc' \in {"restore", "resend"} => lpc = "restore" /\ RestoreConnection
    BY <1>3, <1>1 DEF EstablishLink, RestoreConnection
  <2>8. RestoreConnection => ~Broken(Target)'
    <3>1. RestoreConnection => Target' = w
      BY <2>1 DEF RestoreConnection, Target
    <3> QED BY <2>4, <3>1 DEF Broken
  <2>9. UNCHANGED gaveUp /\ lpc' # "down"
    BY <1>3, <1>1 DEF EstablishLink, RestoreConnection
  <2>10. BrokenTakesCrash'
    <3>1. lpc' # "resend" \/ ~Broken(Target)'
      BY <2>7, <2>8
    <3> QED BY <1>0, <1>1, <2>6, <2>7, <2>9, <3>1 DEF BrokenTakesCrash, faultVars, Breaks
  <2> QED BY <1>2, <2>3, <2>9, <2>10
<1>4. CASE AcceptIncoming \/ TransferWouldBlock \/ RetransferError \/ ClosePeer \/ LbRestart
  <2>1. UNCHANGED <<link, conn>> /\ lpc' \in {"send", "close", "accept", "link"}
    BY <1>4 DEF AcceptIncoming, TransferWouldBlock, RetransferError, RouteFailed, ClosePeer, LbRestart
  <2>2. OpenBothEnds'
    BY <1>1, <2>1 DEF OpenBothEnds
  <2>3. \A w \in Workers : Broken(w)' <=> Broken(w)
    BY <2>1 DEF Broken
  <2>4. gaveUp' # {} => Breaks >= 2
    <3>1. gaveUp' = gaveUp \/ (RetransferError /\ mode = "sync")
      <4>1. mode \in {"async", "sync"}
        BY <1>0 DEF TypeOK
      <4> QED BY <1>4, <4>1 DEF AcceptIncoming, TransferWouldBlock, RetransferError, RouteFailed,
                               ClosePeer, LbRestart
    <3> QED BY <1>1, <3>1 DEF BrokenTakesCrash, RetransferError
  <2>5. BrokenTakesCrash'
    BY <1>0, <1>1, <2>1, <2>3, <2>4 DEF BrokenTakesCrash, faultVars, Breaks
  <2> QED BY <1>2, <2>1, <2>2, <2>5
<1>5. CASE TransferDescriptor
  <2>1. UNCHANGED <<link, gaveUp>> /\ lpc' = "close"
    BY <1>5 DEF TransferDescriptor
  <2>2. PICK w \in Workers, k \in Slots, r \in Connections :
           Becomes(w, k, r) /\ r.lb = conn[w][k].lb /\ r.api = conn[w][k].api
    BY <1>5, Transferred
  <2>3. \A v \in Workers, l \in Slots :
          conn'[v][l].lb = conn[v][l].lb /\ conn'[v][l].api = conn[v][l].api
    BY <2>2 DEF Becomes
  <2>4. OpenBothEnds'
    BY <1>1, <2>3 DEF OpenBothEnds
  <2>5. \A v \in Workers : Broken(v)' <=> Broken(v)
    BY <1>0, <2>1, <2>3, SlotsOf DEF Broken
  <2>6. BrokenTakesCrash'
    BY <1>0, <1>1, <2>1, <2>5 DEF BrokenTakesCrash, faultVars, Breaks
  <2> QED BY <1>2, <2>1, <2>4, <2>6
<1>6. CASE TransferError
  <2>1. PICK w \in Workers : w = Target
    BY <1>0, TargetInWorkers
  <2>2. /\ lpc = "send" /\ lpc' = "restore" /\ UNCHANGED gaveUp
        /\ Broken(w) /\ link[w] # NoSlot /\ link' = [link EXCEPT ![w] = NoSlot]
    BY <1>6, <2>1 DEF TransferError, LinkInv, LinksMade
  <2>3. PICK k \in Slots : k = link[w] /\ conn[w][k].api = "closed"
    BY <1>0, <2>2, SlotsOf DEF Broken
  <2>4. conn' = [conn EXCEPT ![w][k].lb = FALSE]
    BY <1>6, <2>1, <2>2, <2>3 DEF TransferError
  <2>5. \A v \in Workers, l \in Slots :
          /\ conn'[v][l].api = conn[v][l].api
          /\ conn[v][l].api # "closed" => conn'[v][l] = conn[v][l]
    <3> DEFINE r == [conn[w][k] EXCEPT !.lb = FALSE]
    <3>1. r \in Connections /\ r.api = conn[w][k].api
      BY <1>0, ConnFields DEF Connections
    <3>2. conn' = [conn EXCEPT ![w][k] = r]
      BY <2>4
    <3> HIDE DEF r
    <3>3. Becomes(w, k, r)
      BY <1>0, <3>1, <3>2, CellSet
    <3> QED BY <2>3, <3>1, <3>3 DEF Becomes
  <2>6. OpenBothEnds'
    BY <1>1, <2>5 DEF OpenBothEnds
  <2>7. \A v \in Workers : link'[v] # NoSlot => link'[v] = link[v] /\ (Broken(v)' => Broken(v))
    BY <1>0, <2>2, <2>5, SlotsOf DEF Broken, TypeOK
  <2>8. Breaks >= 1
    BY <1>1, <2>2 DEF BrokenTakesCrash
  <2>9. BrokenTakesCrash'
    BY <1>0, <1>1, <2>2, <2>7, <2>8 DEF BrokenTakesCrash, faultVars, Breaks
  <2> QED BY <1>2, <2>2, <2>6, <2>9
<1> QED BY <1>3, <1>4, <1>5, <1>6 DEF Balancer

LEMMA BreaksNext == LinkInv /\ BreaksTakeCrashes /\ [Next]_vars => BreaksTakeCrashes'
<1> SUFFICES ASSUME LinkInv, BreaksTakeCrashes, [Next]_vars PROVE BreaksTakeCrashes'
  OBVIOUS
<1>1. CASE LbCrash
  BY <1>1 DEF LbCrash, BreaksTakeCrashes, LinkInv, TypeOK
<1>2. CASE UNCHANGED vars
  BY <1>2 DEF vars, lbVars, workerVars, faultVars, BreaksTakeCrashes, Breaks, Broken, Target
<1> QED BY <1>1, <1>2, BalancerBreaks, WorkerBreaks, FailureBreaks, CrashBreaks DEF Next

LEMMA AlwaysBreaks == Spec => []BreaksTakeCrashes
BY BreaksInit, BreaksNext, AlwaysLinkInv, PTL DEF Spec

(* The balancer gives a client up only after two crashes or failed         *)
(* receptions of workers, as long as it has not crashed itself             *)
(* (lb/main.rs:213-223,308-318, evented.rs:208-211).                       *)
THEOREM GivingUpTakesTwoBreaks == Spec => []GiveUpTakesTwoBreaks
<1>1. BreaksTakeCrashes => GiveUpTakesTwoBreaks
  BY DEF BreaksTakeCrashes, GiveUpTakesTwoBreaks, Breaks
<1> QED BY <1>1, AlwaysBreaks, PTL

(* No process has crashed and no reception has failed.                     *)
Faultless == wcrashes = 0 /\ lcrashes = 0 /\ recvErrors = 0

LEMMA FaultsStay ==
  ASSUME LinkInv, [Next]_vars
  PROVE  /\ Faultless' => Faultless
         /\ Faultless' => /\ ~LbCrash
                          /\ \A w \in Workers : ~WorkerCrash(w) /\ ~RecvFdFails(w)
         /\ refused \subseteq refused'
<1>1. wcrashes \in Nat /\ lcrashes \in Nat /\ recvErrors \in Nat
  BY DEF LinkInv, TypeOK
<1>2. CASE Balancer \/ LbRestart \/ UNCHANGED vars
  <2>1. UNCHANGED faultVars
    BY <1>2 DEF Balancer, EstablishLink, AcceptIncoming, TransferDescriptor,
       TransferWouldBlock, TransferError, RestoreConnection, RetransferError, ClosePeer,
       LbRestart, vars
  <2> QED BY <1>1, <2>1 DEF faultVars, Faultless, LbCrash, WorkerCrash, RecvFdFails
<1>3. ASSUME NEW w \in Workers,
             (Worker(w) /\ ~RecvFdFails(w) /\ ~RecvFd(w)) \/ WorkerRestart(w)
      PROVE  UNCHANGED faultVars
  BY <1>3 DEF Worker, EpollWait, BatchDone, Dispatch, InstallControl, CloseExtra,
     AcceptWouldBlock, DrainDone, WorkerRestart
<1>4. ASSUME NEW w \in Workers, RecvFd(w)
      PROVE  UNCHANGED <<wcrashes, lcrashes, recvErrors>> /\ refused \subseteq refused'
  BY <1>4 DEF RecvFd, OnNewClientFd
<1>5. ASSUME NEW w \in Workers, RecvFdFails(w) \/ WorkerCrash(w)
      PROVE  refused' = refused /\ ~Faultless'
  BY <1>1, <1>5 DEF RecvFdFails, WorkerCrash, Faultless
<1>6. CASE LbCrash
  BY <1>1, <1>6 DEF LbCrash, Faultless
<1>7. CASE \E w \in Workers : Worker(w) \/ WorkerCrash(w) \/ WorkerRestart(w)
  <2>1. PICK w \in Workers : Worker(w) \/ WorkerCrash(w) \/ WorkerRestart(w)
    BY <1>7
  <2>2. CASE RecvFdFails(w) \/ WorkerCrash(w)
    BY <1>5, <2>2
  <2>3. CASE ~(RecvFdFails(w) \/ WorkerCrash(w))
    <3>1. UNCHANGED <<wcrashes, lcrashes, recvErrors>> /\ refused \subseteq refused'
      BY <1>3, <1>4, <2>1, <2>3 DEF faultVars
    <3> QED BY <1>1, <3>1 DEF Faultless, LbCrash, WorkerCrash, RecvFdFails
  <2> QED BY <2>2, <2>3
<1> QED BY <1>2, <1>6, <1>7 DEF Next

LEMMA LosingTakesFault ==
  LinkInv /\ OnePlace /\ BreaksTakeCrashes /\ OnlyFaultsLose /\ [Next]_vars
    => OnlyFaultsLose'
<1> SUFFICES ASSUME LinkInv, OnePlace, BreaksTakeCrashes, OnlyFaultsLose, [Next]_vars,
                    Faultless', NEW c \in Clients, Place(c)' = "lost"
             PROVE  c \in refused'
  BY DEF OnlyFaultsLose, Faultless
<1>1. /\ Faultless /\ ~LbCrash /\ \A w \in Workers : ~WorkerCrash(w) /\ ~RecvFdFails(w)
      /\ refused \subseteq refused'
  BY FaultsStay
<1>2. Place(c) = "lost" => c \in refused'
  BY <1>1 DEF OnlyFaultsLose, Faultless
<1>3. ~Closing
  <2>1. ~RetransferError
    BY <1>1 DEF BreaksTakeCrashes, RetransferError, Breaks, Faultless
  <2> QED BY <1>1, <2>1, NothingCloses DEF Closing, Drains, Faultless
<1>4. CASE Keeps
  BY <1>2, <1>4, KeepsPlaces
<1>5. CASE AcceptIncoming
  BY <1>2, <1>5, AcceptPlaces
<1>6. CASE TransferDescriptor
  BY <1>2, <1>6, TransferPlaces
<1>7. CASE \E w \in Workers : RecvFd(w)
  BY <1>2, <1>7, ReceivePlaces
<1> QED BY <1>3, <1>4, <1>5, <1>6, <1>7, StepKinds

(* Without a crash and without a failed reception a client is lost only by *)
(* being refused in its worker: the retries and the silent close after the *)
(* last attempt drop none (lb/main.rs:205-226, evented.rs:194-226).        *)
THEOREM OnlyFaultsLoseClients == Spec => []OnlyFaultsLose
<1>1. Init => OnlyFaultsLose
  BY PlaceIs DEF Init, OnlyFaultsLose
<1> QED BY <1>1, LosingTakesFault, AlwaysLinkInv, NeverInTwoPlaces, AlwaysBreaks, PTL DEF Spec

-----------------------------------------------------------------------------
(* Nothing is stranded while the budgets cover what the sockets hold.      *)

(* Nothing that the edges of worker w speak of changes.                    *)
LEMMA EdgesUntouched ==
  ASSUME TypeOK, NEW w \in Workers, Bounded(w), EdgeLeft(w),
         backlog'[w] = backlog[w], ready'[w] = ready[w], control'[w] = control[w],
         events'[w] = events[w], wpc'[w] = wpc[w], left'[w] = left[w],
         \A k \in Slots : conn'[w][k].queue = conn[w][k].queue,
         control[w] # NoSlot => conn'[w][control[w]].lb = conn[w][control[w]].lb
  PROVE  Bounded(w)' /\ EdgeLeft(w)'
<1>1. Bounded(w)'
  BY DEF Bounded
<1>2. /\ Pending(w, "control")' <=> Pending(w, "control")
      /\ Pending(w, "listener")' <=> Pending(w, "listener")
      /\ InBatch(w, "control")' <=> InBatch(w, "control")
      /\ InBatch(w, "listener")' <=> InBatch(w, "listener")
      /\ HangUpInBatch(w)' <=> HangUpInBatch(w)
  BY DEF Pending, InBatch, HangUpInBatch
<1>3. control[w] # NoSlot => /\ ControlConn(w)'.lb = ControlConn(w).lb
                             /\ ControlConn(w)'.queue = ControlConn(w).queue
  BY SlotsOf DEF ControlConn
<1>4. ListenerEdge(w)'
  BY <1>2 DEF EdgeLeft, ListenerEdge
<1>5. HangUpEdge(w)'
  BY <1>2, <1>3 DEF EdgeLeft, HangUpEdge
<1>6. QueueEdge(w)'
  BY <1>2, <1>3 DEF EdgeLeft, QueueEdge
<1> QED BY <1>1, <1>4, <1>5, <1>6 DEF EdgeLeft

LEMMA WakePending ==
  ASSUME TypeOK, NEW w \in Workers, NEW t \in Tokens, ready'[w] = Wake(ready[w], t)
  PROVE  \A u : Pending(w, u)' <=> u = t \/ Pending(w, u)
<1> DEFINE woken == Wake(ready[w], t)
<1>1. ready[w] \in Seq(Tokens)
  BY DEF TypeOK
<1>2. \A u : (\E i \in DOMAIN woken : woken[i] = u) <=> u = t \/ \E i \in DOMAIN ready[w] : ready[w][i] = u
  BY <1>1, Woken
<1> HIDE DEF woken
<1>3. ready'[w] = woken
  BY DEF woken
<1> QED BY <1>2, <1>3 DEF Pending

LEMMA KeptPending ==
  ASSUME TypeOK, NEW w \in Workers, NEW keep, ready'[w] = Kept(ready[w], keep)
  PROVE  \A u : Pending(w, u)' <=> u \in keep /\ Pending(w, u)
<1> DEFINE kept == Kept(ready[w], keep)
<1>1. ready[w] \in Seq(Tokens)
  BY DEF TypeOK
<1>2. \A u : (\E i \in DOMAIN kept : kept[i] = u)
                <=> u \in keep /\ \E i \in DOMAIN ready[w] : ready[w][i] = u
  BY <1>1, KeptTokens
<1> HIDE DEF kept
<1>3. ready'[w] = kept
  BY DEF kept
<1> QED BY <1>2, <1>3 DEF Pending

EdgeInv == LinkInv /\ EdgesLeft

LEMMA EdgesAt ==
  ASSUME EdgeInv, NEW w \in Workers
  PROVE  /\ TypeOK /\ WorkerAt(w) /\ LoopAt(w) /\ CurrentAt(w) /\ EndsOnceAt(w)
         /\ Bounded(w) /\ EdgeLeft(w)
         /\ ListenerEdge(w) /\ HangUpEdge(w) /\ QueueEdge(w)
BY DEF EdgeInv, EdgesLeft, LinkInv, WorkerAt, EdgeLeft

LEMMA BalancerEdges ==
  ASSUME EdgeInv,
         \/ AcceptIncoming \/ TransferWouldBlock \/ TransferError \/ RetransferError
         \/ ClosePeer \/ LbRestart
  PROVE  EdgesLeft'
<1> SUFFICES ASSUME NEW w \in Workers PROVE Bounded(w)' /\ EdgeLeft(w)'
  BY DEF EdgesLeft
<1>1. UNCHANGED <<backlog, ready, control, events, wpc, left>>
  BY DEF AcceptIncoming, TransferWouldBlock, TransferError, RetransferError, ClosePeer,
         LbRestart, workerVars
<1>2. CASE ~TransferError
  BY <1>1, <1>2, EdgesAt, EdgesUntouched
     DEF AcceptIncoming, TransferWouldBlock, RetransferError, ClosePeer, LbRestart
<1>3. CASE TransferError
  <2>1. LinkInv /\ TypeOK
    BY DEF EdgeInv, LinkInv
  <2>2. PICK v \in Workers : v = Target
    BY <2>1, TargetInWorkers
  <2>3. PICK k \in Slots : k = link[v] /\ conn[v][k].api = "closed"
    BY <1>3, <2>1, <2>2, SlotsOf DEF TransferError, LinkInv, LinksMade, Broken
  <2>4. conn' = [conn EXCEPT ![v][k].lb = FALSE]
    BY <1>3, <2>2, <2>3, HandoffAssumption DEF TransferError
  <2> DEFINE r == [conn[v][k] EXCEPT !.lb = FALSE]
  <2>5. r \in Connections /\ r.queue = conn[v][k].queue
    BY <2>1, ConnFields DEF Connections
  <2>6. conn' = [conn EXCEPT ![v][k] = r]
    BY <2>4
  <2> HIDE DEF r
  <2>7. Becomes(v, k, r)
    BY <2>1, <2>5, <2>6, CellSet
  <2>8. \A l \in Slots : conn'[w][l].queue = conn[w][l].queue
    BY <2>5, <2>7 DEF Becomes
  <2>9. control[w] # NoSlot => conn'[w][control[w]].lb = conn[w][control[w]].lb
    <3>1. control[w] # NoSlot => control[w] \in Slots /\ ~(w = v /\ control[w] = k)
      BY <2>3, EdgesAt, SlotsOf DEF CurrentAt
    <3> QED BY <2>7, <3>1 DEF Becomes
  <2> QED BY <1>1, <2>8, <2>9, EdgesAt, EdgesUntouched
<1> QED BY <1>2, <1>3

LEMMA ConnectEdges ==
  ASSUME EdgeInv, EstablishLink \/ RestoreConnection
  PROVE  EdgesLeft'
<1>0. TypeOK /\ UNCHANGED <<control, events, wpc, left>>
  BY DEF EstablishLink, RestoreConnection, workerVars, EdgeInv, LinkInv
<1>1. PICK w \in Workers : Connect(w)
  BY <1>0, TargetInWorkers DEF EstablishLink, RestoreConnection, TypeOK
<1>2. PICK k \in Slots :
           /\ conn[w][k].api = "closed"
           /\ Becomes(w, k, [lb |-> TRUE, api |-> "backlog", queue |-> << >>])
           /\ backlog' = [backlog EXCEPT ![w] = Append(@, k)]
           /\ Len(backlog[w]) < Backlog
           /\ \A v \in Workers \ {w} : ready'[v] = ready[v]
           /\ ready'[w] = Wake(ready[w], "listener")
  BY <1>0, <1>1, Connected
<1> SUFFICES ASSUME NEW v \in Workers PROVE Bounded(v)' /\ EdgeLeft(v)'
  BY DEF EdgesLeft
<1>3. CASE v # w
  <2>1. backlog'[v] = backlog[v] /\ ready'[v] = ready[v]
        /\ \A l \in Slots : conn'[v][l] = conn[v][l]
    BY <1>0, <1>2, <1>3 DEF Becomes, TypeOK
  <2> QED BY <1>0, <2>1, EdgesAt, EdgesUntouched, SlotsOf
<1>4. CASE v = w
  <2>1. /\ Bounded(w) /\ ListenerEdge(w) /\ HangUpEdge(w) /\ QueueEdge(w) /\ CurrentAt(w)
        /\ EndsOnceAt(w)
    BY EdgesAt
  <2>2. backlog'[w] = Append(backlog[w], k) /\ Len(backlog'[w]) = Len(backlog[w]) + 1
    <3>1. backlog[w] \in Seq(Slots) /\ backlog'[w] = Append(backlog[w], k)
      BY <1>0, <1>2 DEF TypeOK
    <3> QED BY <3>1, Appended
  <2>3. \A l \in Slots : l # k => conn'[w][l] = conn[w][l]
    BY <1>2 DEF Becomes
  <2>4. conn'[w][k].queue = << >>
    BY <1>2 DEF Becomes
  <2>5. Bounded(w)'
    <3>1. Len(backlog[w]) \in Nat
      BY <1>0 DEF TypeOK
    <3>2. Len(backlog'[w]) <= Backlog
      BY <1>2, <2>2, <3>1, HandoffAssumption
    <3>3. \A l \in Slots : Len(conn'[w][l].queue) <= QueueDepth
      BY <2>1, <2>3, <2>4, HandoffAssumption DEF Bounded
    <3> QED BY <3>2, <3>3 DEF Bounded
  <2>6. Pending(w, "listener")' /\ (Pending(w, "control") => Pending(w, "control")')
    <3>1. "listener" \in Tokens
      BY DEF Tokens
    <3> QED BY <1>0, <1>2, <3>1, WakePending
  <2>7. /\ InBatch(w, "control")' <=> InBatch(w, "control")
        /\ HangUpInBatch(w)' <=> HangUpInBatch(w)
    BY <1>0 DEF InBatch, HangUpInBatch
  <2>8. control[w] # NoSlot => ControlConn(w)' = ControlConn(w)
    BY <1>0, <1>2, <2>1, <2>3, SlotsOf DEF CurrentAt, ControlConn
  <2>9. ListenerEdge(w)'
    BY <2>6 DEF ListenerEdge
  <2>10. HangUpEdge(w)'
    BY <1>0, <2>1, <2>6, <2>7, <2>8 DEF HangUpEdge
  <2>11. QueueEdge(w)'
    BY <1>0, <2>1, <2>6, <2>7, <2>8 DEF QueueEdge
  <2> QED BY <1>4, <2>5, <2>9, <2>10, <2>11 DEF EdgeLeft
<1> QED BY <1>3, <1>4

LEMMA TransferEdges ==
  ASSUME EdgeInv, TransferDescriptor
  PROVE  EdgesLeft'
<1>0. TypeOK /\ LinkInv /\ UNCHANGED <<backlog, control, events, wpc, left>>
  BY DEF TransferDescriptor, workerVars, EdgeInv, LinkInv
<1>1. PICK w \in Workers, k \in Slots, r \in Connections :
           /\ peer \in Clients /\ Len(conn[w][k].queue) < QueueDepth
           /\ Becomes(w, k, r) /\ r.lb = conn[w][k].lb
           /\ r.queue = Append(conn[w][k].queue, peer)
           /\ \A v \in Workers : ready'[v] =
                IF v = w /\ control[w] = k THEN Wake(ready[w], "control") ELSE ready[v]
  BY <1>0, Transferred
<1> SUFFICES ASSUME NEW v \in Workers PROVE Bounded(v)' /\ EdgeLeft(v)'
  BY DEF EdgesLeft
<1>2. CASE v # w
  <2>1. ready'[v] = ready[v] /\ \A l \in Slots : conn'[v][l] = conn[v][l]
    BY <1>1, <1>2 DEF Becomes
  <2> QED BY <1>0, <2>1, EdgesAt, EdgesUntouched, SlotsOf
<1>3. CASE v = w
  <2>1. /\ Bounded(w) /\ ListenerEdge(w) /\ HangUpEdge(w) /\ QueueEdge(w)
    BY EdgesAt
  <2>2. \A l \in Slots : l # k => conn'[w][l] = conn[w][l]
    BY <1>1 DEF Becomes
  <2>3. Bounded(w)'
    <3>1. conn[w][k].queue \in Seq(Clients)
      BY <1>0, ConnFields
    <3>2. conn'[w][k].queue = Append(conn[w][k].queue, peer)
      BY <1>1 DEF Becomes
    <3>3. Len(conn'[w][k].queue) <= QueueDepth
      <4>1. /\ Len(Append(conn[w][k].queue, peer)) = Len(conn[w][k].queue) + 1
            /\ Len(conn[w][k].queue) \in Nat
        BY <1>1, <3>1, Appended
      <4> QED BY <1>1, <3>2, <4>1, HandoffAssumption
    <3> QED BY <1>0, <2>1, <2>2, <3>3 DEF Bounded
  <2>4. /\ Pending(w, "control") \/ control[w] = k => Pending(w, "control")'
        /\ Pending(w, "listener") => Pending(w, "listener")'
    <3>1. "control" \in Tokens
      BY DEF Tokens
    <3>2. ready'[w] = IF control[w] = k THEN Wake(ready[w], "control") ELSE ready[w]
      BY <1>1
    <3>3. CASE control[w] = k
      BY <1>0, <3>1, <3>2, <3>3, WakePending
    <3>4. CASE control[w] # k
      BY <3>2, <3>4 DEF Pending
    <3> QED BY <3>3, <3>4
  <2>5. /\ InBatch(w, "control")' <=> InBatch(w, "control")
        /\ InBatch(w, "listener")' <=> InBatch(w, "listener")
        /\ HangUpInBatch(w)' <=> HangUpInBatch(w)
    BY <1>0 DEF InBatch, HangUpInBatch
  <2>6. control[w] # NoSlot /\ control[w] # k => ControlConn(w)' = ControlConn(w)
    BY <1>0, <2>2, SlotsOf DEF ControlConn
  <2>7. ListenerEdge(w)'
    BY <1>0, <2>1, <2>4, <2>5 DEF ListenerEdge
  <2>8. HangUpEdge(w)'
    BY <1>0, <2>1, <2>4, <2>5, <2>6 DEF HangUpEdge
  <2>9. QueueEdge(w)'
    BY <1>0, <2>1, <2>4, <2>5, <2>6 DEF QueueEdge
  <2> QED BY <1>3, <2>3, <2>7, <2>8, <2>9 DEF EdgeLeft
<1> QED BY <1>2, <1>3

LEMMA CrashEdges ==
  ASSUME EdgeInv, LbCrash \/ \E w \in Workers : WorkerCrash(w) \/ WorkerRestart(w)
  PROVE  EdgesLeft'
<1>0. LinkInv /\ TypeOK
  BY DEF EdgeInv, LinkInv
<1> SUFFICES ASSUME NEW v \in Workers PROVE Bounded(v)' /\ EdgeLeft(v)'
  BY DEF EdgesLeft
<1>1. CASE LbCrash
  <2>1. UNCHANGED <<backlog, control, events, wpc, left>>
    BY <1>1 DEF LbCrash, workerVars
  <2>2. /\ \A k \in Slots : conn'[v][k].queue = conn[v][k].queue
        /\ ready'[v] = IF control[v] # NoSlot /\ control[v] = link[v]
                       THEN Wake(ready[v], "control") ELSE ready[v]
    BY <1>0, <1>1, LbCrashed
  <2>3. /\ Bounded(v) /\ ListenerEdge(v) /\ HangUpEdge(v) /\ QueueEdge(v) /\ CurrentAt(v)
    BY EdgesAt
  <2>4. /\ Pending(v, "control") \/ (control[v] # NoSlot /\ control[v] = link[v])
             => Pending(v, "control")'
        /\ Pending(v, "listener") => Pending(v, "listener")'
    <3>1. "control" \in Tokens
      BY DEF Tokens
    <3>2. CASE control[v] # NoSlot /\ control[v] = link[v]
      BY <1>0, <2>2, <3>1, <3>2, WakePending
    <3>3. CASE ~(control[v] # NoSlot /\ control[v] = link[v])
      BY <2>2, <3>3 DEF Pending
    <3> QED BY <3>2, <3>3
  <2>5. /\ InBatch(v, "control")' <=> InBatch(v, "control")
        /\ InBatch(v, "listener")' <=> InBatch(v, "listener")
        /\ HangUpInBatch(v)' <=> HangUpInBatch(v)
    BY <2>1 DEF InBatch, HangUpInBatch
  <2>6. control[v] # NoSlot => /\ ControlConn(v)'.queue = ControlConn(v).queue
                               /\ ControlConn(v).lb => control[v] = link[v]
    BY <1>0, <2>1, <2>2, <2>3, SlotsOf DEF ControlConn, CurrentAt
  <2>7. Bounded(v)'
    BY <2>1, <2>2, <2>3 DEF Bounded
  <2>8. ListenerEdge(v)'
    BY <2>1, <2>3, <2>4, <2>5 DEF ListenerEdge
  <2>9. HangUpEdge(v)'
    BY <2>1, <2>3, <2>4, <2>5, <2>6 DEF HangUpEdge
  <2>10. QueueEdge(v)'
    BY <2>1, <2>3, <2>4, <2>5, <2>6 DEF QueueEdge
  <2> QED BY <2>7, <2>8, <2>9, <2>10 DEF EdgeLeft
<1>2. ASSUME NEW w \in Workers, WorkerCrash(w) PROVE Bounded(v)' /\ EdgeLeft(v)'
  <2>0. /\ backlog' = [backlog EXCEPT ![w] = << >>]
        /\ control' = [control EXCEPT ![w] = NoSlot] /\ ready' = [ready EXCEPT ![w] = << >>]
        /\ events' = [events EXCEPT ![w] = << >>] /\ wpc' = [wpc EXCEPT ![w] = "wait"]
        /\ left' = [left EXCEPT ![w] = 0]
    BY <1>2 DEF WorkerCrash
  <2>1. CASE v # w
    <3>1. /\ backlog'[v] = backlog[v] /\ ready'[v] = ready[v] /\ control'[v] = control[v]
          /\ events'[v] = events[v] /\ wpc'[v] = wpc[v] /\ left'[v] = left[v]
          /\ \A k \in Slots : conn'[v][k] = conn[v][k]
      <4>1. \A k \in Slots : conn'[v][k] = conn[v][k]
        BY <1>0, <1>2, <2>1, Crashed
      <4> QED BY <1>0, <2>0, <2>1, <4>1 DEF TypeOK
    <3> QED BY <1>0, <3>1, EdgesAt, EdgesUntouched, SlotsOf
  <2>2. CASE v = w
    <3>1. backlog'[v] = << >> /\ control'[v] = NoSlot
      BY <1>0, <2>0, <2>2 DEF TypeOK
    <3>2. \A k \in Slots : conn'[v][k].queue = << >>
      BY <1>0, <1>2, <2>2, Crashed
    <3>3. Bounded(v)'
      BY <3>1, <3>2, HandoffAssumption DEF Bounded
    <3> QED BY <3>1, <3>3 DEF EdgeLeft, ListenerEdge, HangUpEdge, QueueEdge
  <2> QED BY <2>1, <2>2
<1>3. ASSUME NEW w \in Workers, WorkerRestart(w) PROVE Bounded(v)' /\ EdgeLeft(v)'
  BY <1>0, <1>3, EdgesAt, EdgesUntouched DEF WorkerRestart
<1> QED BY <1>1, <1>2, <1>3

(* An event that is not the first of the batch stays when the first goes.  *)
LEMMA BatchTail ==
  ASSUME TypeOK, NEW w \in Workers, events[w] # << >>,
         events' = [events EXCEPT ![w] = Tail(events[w])]
  PROVE  /\ \A t : t # Head(events[w]).token /\ InBatch(w, t) => InBatch(w, t)'
         /\ ~(Head(events[w]).token = "control" /\ Head(events[w]).hup) /\ HangUpInBatch(w)
              => HangUpInBatch(w)'
         /\ \A v \in Workers \ {w} : events'[v] = events[v]
<1> DEFINE e == events[w]
<1>1. e \in Seq(EventSet) /\ e # << >>
  BY DEF TypeOK
<1>2. events'[w] = Tail(e) /\ \A v \in Workers \ {w} : events'[v] = events[v]
  BY DEF TypeOK
<1>3. \A j \in DOMAIN e : j = 1 \/ (j - 1 \in DOMAIN Tail(e) /\ Tail(e)[j - 1] = e[j])
  <2> HIDE DEF e
  <2> QED BY <1>1
<1>4. Head(e) = e[1]
  <2> HIDE DEF e
  <2> QED BY <1>1
<1> HIDE DEF e
<1>5. ASSUME NEW t, t # Head(e).token, InBatch(w, t) PROVE InBatch(w, t)'
  <2>1. PICK j \in DOMAIN e : e[j].token = t
    BY <1>5 DEF InBatch, e
  <2>2. j - 1 \in DOMAIN Tail(e) /\ Tail(e)[j - 1].token = t
    BY <1>3, <1>4, <1>5, <2>1
  <2> QED BY <1>2, <2>2 DEF InBatch
<1>6. ASSUME ~(Head(e).token = "control" /\ Head(e).hup), HangUpInBatch(w)
      PROVE  HangUpInBatch(w)'
  <2>1. PICK j \in DOMAIN e : e[j].token = "control" /\ e[j].hup
    BY <1>6 DEF HangUpInBatch, e
  <2>2. j - 1 \in DOMAIN Tail(e) /\ Tail(e)[j - 1].token = "control" /\ Tail(e)[j - 1].hup
    BY <1>3, <1>4, <1>6, <2>1
  <2> QED BY <1>2, <2>2 DEF HangUpInBatch
<1> QED BY <1>2, <1>5, <1>6 DEF e

(* A step of worker w reaches only its own edges.                          *)
LEMMA OtherEdges ==
  ASSUME EdgeInv, NEW w \in Workers, Worker(w), NEW v \in Workers, v # w
  PROVE  Bounded(v)' /\ EdgeLeft(v)'
<1>0. TypeOK /\ WorkerAt(w)
  BY DEF EdgeInv, LinkInv
<1>1. /\ backlog'[v] = backlog[v] /\ ready'[v] = ready[v] /\ control'[v] = control[v]
      /\ events'[v] = events[v] /\ wpc'[v] = wpc[v] /\ left'[v] = left[v]
      /\ \A k \in Slots : conn'[v][k] = conn[v][k]
  <2>1. CASE EpollWait(w) \/ BatchDone(w) \/ Dispatch(w) \/ AcceptWouldBlock(w)
    BY <1>0, <2>1 DEF EpollWait, BatchDone, Dispatch, AcceptWouldBlock, TypeOK
  <2>2. CASE InstallControl(w)
    <3>1. ready'[v] = ready[v] /\ control'[v] = control[v] /\ \A k \in Slots : conn'[v][k] = conn[v][k]
      <4>1. PICK k \in Slots, r \in Connections :
              /\ Becomes(w, k, r) /\ control' = [control EXCEPT ![w] = k]
              /\ \A u \in Workers \ {w} : ready'[u] = ready[u]
        BY <1>0, <2>2, Installed
      <4> QED BY <1>0, <4>1 DEF Becomes, TypeOK
    <3> QED BY <1>0, <2>2, <3>1 DEF InstallControl, TypeOK
  <2>3. CASE CloseExtra(w)
    <3>1. \A k \in Slots : conn'[v][k] = conn[v][k]
      BY <1>0, <2>3, ExtraClosed DEF Becomes
    <3> QED BY <1>0, <2>3, <3>1 DEF CloseExtra, TypeOK
  <2>4. CASE RecvFd(w)
    <3>1. \A k \in Slots : conn'[v][k] = conn[v][k]
      BY <1>0, <2>4, Received DEF Becomes
    <3> QED BY <1>0, <2>4, <3>1 DEF RecvFd, TypeOK
  <2>5. CASE Drains(w)
    <3>1. ready'[v] = ready[v] /\ control'[v] = control[v] /\ \A k \in Slots : conn'[v][k] = conn[v][k]
      <4>1. CASE UNCHANGED <<conn, control, ready>>
        BY <4>1
      <4>2. CASE ~UNCHANGED <<conn, control, ready>>
        <5>1. PICK k \in Slots, r \in Connections :
                /\ Becomes(w, k, r) /\ control' = [control EXCEPT ![w] = NoSlot]
                /\ ready' = [ready EXCEPT ![w] = Kept(ready[w], {"listener"})]
          BY <1>0, <2>5, <4>2, Drained
        <5> QED BY <1>0, <5>1 DEF Becomes, TypeOK
      <4> QED BY <4>1, <4>2
    <3> QED BY <1>0, <2>5, <3>1 DEF Drains, DrainDone, RecvFdFails, TypeOK
  <2> QED BY <2>1, <2>2, <2>3, <2>4, <2>5 DEF Worker, Drains
<1> QED BY <1>0, <1>1, EdgesAt, EdgesUntouched, SlotsOf

LEMMA WaitEdges ==
  ASSUME EdgeInv, NEW w \in Workers, EpollWait(w)
  PROVE  Bounded(w)' /\ EdgeLeft(w)'
<1>0. /\ TypeOK /\ Bounded(w) /\ ListenerEdge(w) /\ HangUpEdge(w) /\ QueueEdge(w)
      /\ LoopAt(w)
  BY EdgesAt
<1>1. /\ UNCHANGED <<conn, backlog, control, left>> /\ wpc[w] = "wait" /\ wpc'[w] = "dispatch"
  BY <1>0 DEF EpollWait, TypeOK
<1>2. ~InBatch(w, "listener") /\ ~InBatch(w, "control") /\ ~HangUpInBatch(w)
  BY <1>0, <1>1 DEF LoopAt, InBatch, HangUpInBatch
<1>3. \A t \in Tokens : Pending(w, t) /\ StillReady(w, t) =>
        \E i \in DOMAIN events'[w] : events'[w][i] = Event(w, t)
  BY <1>0, Waited
<1>4. Bounded(w)'
  BY <1>0, <1>1 DEF Bounded
<1>5. ListenerEdge(w)'
  <2>1. SUFFICES ASSUME backlog[w] # << >> PROVE InBatch(w, "listener")'
    BY <1>1 DEF ListenerEdge
  <2>2. Pending(w, "listener") /\ StillReady(w, "listener")
    BY <1>0, <1>1, <1>2, <2>1 DEF ListenerEdge, StillReady
  <2>3. PICK i \in DOMAIN events'[w] : events'[w][i] = Event(w, "listener")
    BY <1>3, <2>2 DEF Tokens
  <2>4. Event(w, "listener").token = "listener"
    BY DEF Event
  <2> QED BY <2>3, <2>4 DEF InBatch
<1>6. ASSUME control[w] # NoSlot, ControlReadable(ControlConn(w)), Pending(w, "control")
      PROVE  InBatch(w, "control")' /\ (~ControlConn(w).lb => HangUpInBatch(w)')
  <2>1. StillReady(w, "control")
    BY <1>6 DEF StillReady, ControlConn
  <2>2. PICK i \in DOMAIN events'[w] : events'[w][i] = Event(w, "control")
    BY <1>3, <1>6, <2>1 DEF Tokens
  <2>3. /\ Event(w, "control").token = "control"
        /\ Event(w, "control").hup = ~ControlConn(w).lb
    BY DEF Event, ControlConn
  <2> QED BY <2>2, <2>3 DEF InBatch, HangUpInBatch
<1>7. ControlConn(w)' = ControlConn(w)
  BY <1>1 DEF ControlConn
<1>8. HangUpEdge(w)'
  BY <1>0, <1>1, <1>2, <1>6, <1>7 DEF HangUpEdge, ControlReadable
<1>9. QueueEdge(w)'
  BY <1>0, <1>1, <1>2, <1>6, <1>7 DEF QueueEdge, ControlReadable
<1> QED BY <1>4, <1>5, <1>8, <1>9 DEF EdgeLeft

LEMMA DispatchEdges ==
  ASSUME BudgetsSuffice, EdgeInv, NEW w \in Workers,
         BatchDone(w) \/ Dispatch(w) \/ AcceptWouldBlock(w)
  PROVE  Bounded(w)' /\ EdgeLeft(w)'
<1>0. /\ TypeOK /\ Bounded(w) /\ ListenerEdge(w) /\ HangUpEdge(w) /\ QueueEdge(w)
  BY EdgesAt
<1>1. UNCHANGED <<conn, backlog, control, ready>>
  BY DEF BatchDone, Dispatch, AcceptWouldBlock
<1>2. Bounded(w)'
  BY <1>0, <1>1 DEF Bounded
<1>3. /\ Pending(w, "control")' <=> Pending(w, "control")
      /\ Pending(w, "listener")' <=> Pending(w, "listener")
      /\ ControlConn(w)' = ControlConn(w)
  BY <1>1 DEF Pending, ControlConn
<1>4. /\ UNCHANGED events => /\ InBatch(w, "control")' <=> InBatch(w, "control")
                             /\ InBatch(w, "listener")' <=> InBatch(w, "listener")
                             /\ HangUpInBatch(w)' <=> HangUpInBatch(w)
  BY DEF InBatch, HangUpInBatch
<1>5. CASE BatchDone(w)
  <2>1. UNCHANGED events /\ wpc[w] = "dispatch" /\ wpc'[w] = "wait"
    BY <1>0, <1>5 DEF BatchDone, TypeOK
  <2> QED BY <1>0, <1>1, <1>2, <1>3, <1>4, <2>1 DEF EdgeLeft, ListenerEdge, HangUpEdge, QueueEdge
<1>6. CASE AcceptWouldBlock(w)
  <2>1. UNCHANGED events /\ wpc[w] = "accept" /\ wpc'[w] = "dispatch" /\ backlog[w] = << >>
    BY <1>0, <1>6 DEF AcceptWouldBlock, TypeOK
  <2> QED BY <1>0, <1>1, <1>2, <1>3, <1>4, <2>1 DEF EdgeLeft, ListenerEdge, HangUpEdge, QueueEdge
<1>7. CASE Dispatch(w)
  <2> DEFINE e == Head(events[w])
  <2>0. /\ wpc[w] = "dispatch" /\ events[w] # << >> /\ e.token \in Tokens
    <3>1. events[w] # << >> /\ wpc[w] = "dispatch" /\ events[w] \in Seq(EventSet)
      BY <1>0, <1>7 DEF Dispatch, TypeOK
    <3>2. Head(events[w]) \in EventSet
      BY <3>1, HeadTail
    <3> QED BY <3>1, <3>2 DEF EventSet
  <2>1. CASE e.token = "listener"
    <3>1. /\ wpc'[w] = "accept" /\ left'[w] = AcceptBudget
          /\ events' = [events EXCEPT ![w] = Tail(events[w])]
      BY <1>0, <1>7, <2>1 DEF Dispatch, TypeOK
    <3>2. /\ InBatch(w, "control") => InBatch(w, "control")'
          /\ HangUpInBatch(w) => HangUpInBatch(w)'
      BY <1>0, <2>0, <2>1, <3>1, BatchTail
    <3>3. Len(backlog[w]) <= left'[w]
      <4>1. Len(backlog[w]) \in Nat
        BY <1>0 DEF TypeOK
      <4> QED BY <1>0, <3>1, <4>1, HandoffAssumption DEF Bounded, BudgetsSuffice
    <3> QED BY <1>0, <1>1, <1>2, <1>3, <2>0, <3>1, <3>2, <3>3
          DEF EdgeLeft, ListenerEdge, HangUpEdge, QueueEdge
  <2>2. CASE e.token # "listener" /\ control[w] = NoSlot
    <3>1. /\ UNCHANGED <<wpc, left>> /\ events' = [events EXCEPT ![w] = Tail(events[w])]
      BY <1>7, <2>2 DEF Dispatch
    <3>2. InBatch(w, "listener") => InBatch(w, "listener")'
      BY <1>0, <2>0, <2>2, <3>1, BatchTail
    <3> QED BY <1>0, <1>1, <1>2, <1>3, <2>0, <2>2, <3>1, <3>2
          DEF EdgeLeft, ListenerEdge, HangUpEdge, QueueEdge
  <2>3. CASE e.token # "listener" /\ control[w] # NoSlot
    <3>1. wpc'[w] = "drain" /\ left'[w] = RecvFdBudget /\ UNCHANGED events
      BY <1>0, <1>7, <2>3 DEF Dispatch, TypeOK
    <3>2. Len(ControlConn(w).queue) <= left'[w]
      <4>1. control[w] \in Slots
        BY <1>0, <2>3, SlotsOf
      <4>2. Len(ControlConn(w).queue) \in Nat /\ Len(ControlConn(w).queue) <= QueueDepth
        BY <1>0, <4>1, ConnFields DEF Bounded, ControlConn
      <4> QED BY <3>1, <4>2, HandoffAssumption DEF BudgetsSuffice
    <3> QED BY <1>0, <1>1, <1>2, <1>3, <1>4, <2>0, <3>1, <3>2
          DEF EdgeLeft, ListenerEdge, HangUpEdge, QueueEdge
  <2> QED BY <2>1, <2>2, <2>3
<1> QED BY <1>5, <1>6, <1>7

(* accept_control takes a connection and one iteration of its budget.      *)
LEMMA AcceptedEdge ==
  ASSUME BudgetsSuffice, EdgeInv, NEW w \in Workers, InstallControl(w) \/ CloseExtra(w),
         Pending(w, "listener") => Pending(w, "listener")'
  PROVE  /\ Len(backlog'[w]) <= Backlog /\ ListenerEdge(w)'
         /\ wpc[w] = "accept" /\ wpc'[w] \in {"accept", "dispatch"} /\ UNCHANGED events
<1>0. /\ TypeOK /\ Bounded(w) /\ ListenerEdge(w) /\ LoopAt(w)
  BY EdgesAt
<1> DEFINE b == backlog[w]
<1>1. /\ b # << >> /\ wpc[w] = "accept" /\ UNCHANGED events
      /\ backlog' = [backlog EXCEPT ![w] = Tail(b)]
  BY DEF InstallControl, CloseExtra
<1>2. AcceptBudget # 0 /\ left[w] \in Nat /\ left[w] # 0
  BY SMTT(30), <1>0, <1>1, HandoffAssumption DEF BudgetsSuffice, LoopAt, TypeOK
<1>3. \/ left[w] = 1 /\ wpc'[w] = "dispatch"
      \/ left[w] > 1 /\ wpc'[w] = "accept" /\ left'[w] = left[w] - 1
  <2>1. IF left[w] = 1
        THEN wpc' = [wpc EXCEPT ![w] = "dispatch"]
        ELSE left' = [left EXCEPT ![w] = left[w] - 1] /\ UNCHANGED wpc
    BY <1>0, <1>1, <1>2 DEF InstallControl, CloseExtra
  <2>2. wpc \in [Workers -> {"wait", "dispatch", "accept", "drain"}] /\ left \in [Workers -> Nat]
    BY <1>0 DEF TypeOK
  <2>3. CASE left[w] = 1
    BY <2>1, <2>2, <2>3
  <2>4. CASE left[w] # 1
    BY <1>1, <1>2, <2>1, <2>2, <2>4
  <2> QED BY <2>3, <2>4
<1>4. b \in Seq(Slots) /\ backlog'[w] = Tail(b)
  BY <1>0, <1>1 DEF TypeOK
<1>5. /\ Len(Tail(b)) = Len(b) - 1 /\ Len(b) \in Nat /\ Len(b) <= Backlog
      /\ Len(b) = 1 => Tail(b) = << >>
  <2>1. Len(b) <= Backlog
    BY <1>0 DEF Bounded
  <2> HIDE DEF b
  <2>2. Len(Tail(b)) = Len(b) - 1 /\ Len(b) \in Nat /\ Tail(b) \in Seq(Slots)
    BY <1>1, <1>4, HeadTail
  <2>3. Len(b) = 1 => Tail(b) = << >>
    <3>1. Len(Tail(b)) = 0 => Tail(b) = << >>
      BY <2>2, EmptySeq
    <3> QED BY <2>2, <3>1
  <2> QED BY <2>1, <2>2, <2>3
<1>6. InBatch(w, "listener")' <=> InBatch(w, "listener")
  BY <1>1 DEF InBatch
<1>7. ListenerEdge(w)'
  <2> HIDE DEF b
  <2>1. SUFFICES ASSUME Tail(b) # << >>, ~Pending(w, "listener")', ~InBatch(w, "listener")'
                 PROVE  wpc'[w] = "accept" /\ Len(Tail(b)) <= left'[w]
    BY <1>4 DEF ListenerEdge
  <2>2. Len(b) <= left[w] /\ Len(b) # 1 /\ Len(b) # 0
    <3>1. Len(b) # 0
      BY <1>1, <1>4, EmptySeq
    <3>2. ~Pending(w, "listener") /\ ~InBatch(w, "listener")
      BY <1>6, <2>1
    <3>3. Len(b) <= left[w]
      BY <1>0, <1>1, <3>2 DEF ListenerEdge, b
    <3>4. Len(b) # 1
      BY <1>5, <2>1
    <3> QED BY <3>1, <3>3, <3>4
  <2>3. Len(Tail(b)) = Len(b) - 1 /\ Len(b) \in Nat
    BY <1>5
  <2>4. wpc'[w] = "accept" /\ left'[w] = left[w] - 1
    <3>1. left[w] # 1
      BY <2>2, <2>3
    <3> QED BY <1>3, <3>1
  <2> QED BY <1>2, <2>2, <2>3, <2>4
<1> QED BY <1>1, <1>3, <1>4, <1>5, <1>7, HandoffAssumption

LEMMA AcceptEdges ==
  ASSUME BudgetsSuffice, EdgeInv, NEW w \in Workers, InstallControl(w) \/ CloseExtra(w)
  PROVE  Bounded(w)' /\ EdgeLeft(w)'
<1>0. /\ TypeOK /\ WorkerAt(w) /\ Bounded(w) /\ ListenerEdge(w) /\ HangUpEdge(w) /\ QueueEdge(w)
  BY EdgesAt
<1>1. CASE InstallControl(w)
  <2>1. PICK k \in Slots, r \in Connections :
           /\ Becomes(w, k, r) /\ r.lb = conn[w][k].lb /\ r.queue = conn[w][k].queue
           /\ control' = [control EXCEPT ![w] = k]
           /\ ready'[w] = IF ControlReadable(conn[w][k])
                          THEN Wake(ready[w], "control") ELSE ready[w]
    BY <1>0, <1>1, Installed
  <2>2. /\ Pending(w, "listener") => Pending(w, "listener")'
        /\ ControlReadable(conn[w][k]) => Pending(w, "control")'
    <3>1. "control" \in Tokens
      BY DEF Tokens
    <3>2. CASE ControlReadable(conn[w][k])
      BY <1>0, <2>1, <3>1, <3>2, WakePending
    <3>3. CASE ~ControlReadable(conn[w][k])
      BY <2>1, <3>3 DEF Pending
    <3> QED BY <3>2, <3>3
  <2>3. control'[w] = k /\ ControlConn(w)'.lb = conn[w][k].lb
        /\ ControlConn(w)'.queue = conn[w][k].queue
    BY <1>0, <2>1 DEF Becomes, ControlConn, TypeOK
  <2>4. Len(backlog'[w]) <= Backlog /\ ListenerEdge(w)'
    BY <1>1, <2>2, AcceptedEdge
  <2>5. \A l \in Slots : conn'[w][l].queue = conn[w][l].queue
    BY <2>1 DEF Becomes
  <2>6. Bounded(w)'
    BY <1>0, <2>4, <2>5 DEF Bounded
  <2>7. HangUpEdge(w)' /\ QueueEdge(w)'
    BY <2>2, <2>3 DEF HangUpEdge, QueueEdge, ControlReadable
  <2> QED BY <2>4, <2>6, <2>7 DEF EdgeLeft
<1>2. CASE CloseExtra(w)
  <2>1. PICK k \in Slots, r \in Connections :
           Becomes(w, k, r) /\ k # control[w] /\ r.queue = << >>
    BY <1>0, <1>2, ExtraClosed
  <2>2. UNCHANGED <<ready, control, events>>
    BY <1>2 DEF CloseExtra
  <2>3. /\ Pending(w, "control")' <=> Pending(w, "control")
        /\ Pending(w, "listener")' <=> Pending(w, "listener")
        /\ InBatch(w, "control")' <=> InBatch(w, "control")
        /\ HangUpInBatch(w)' <=> HangUpInBatch(w)
    BY <2>2 DEF Pending, InBatch, HangUpInBatch
  <2>4. /\ Len(backlog'[w]) <= Backlog /\ ListenerEdge(w)'
        /\ wpc[w] = "accept" /\ wpc'[w] \in {"accept", "dispatch"}
    BY <1>2, <2>3, AcceptedEdge
  <2>5. \A l \in Slots : conn'[w][l].queue \in {conn[w][l].queue, << >>}
    BY <2>1 DEF Becomes
  <2>6. Bounded(w)'
    <3>1. Len(<< >>) <= QueueDepth
      BY HandoffAssumption
    <3>2. \A l \in Slots : Len(conn'[w][l].queue) <= QueueDepth
      BY <1>0, <2>5, <3>1 DEF Bounded
    <3> QED BY <2>4, <3>2 DEF Bounded
  <2>7. control[w] # NoSlot => ControlConn(w)' = ControlConn(w)
    BY <1>0, <2>1, <2>2, SlotsOf DEF Becomes, ControlConn
  <2>8. HangUpEdge(w)'
    BY <1>0, <2>2, <2>3, <2>7 DEF HangUpEdge
  <2>9. QueueEdge(w)'
    BY <1>0, <2>2, <2>3, <2>4, <2>7 DEF QueueEdge
  <2> QED BY <2>4, <2>6, <2>8, <2>9 DEF EdgeLeft
<1> QED BY <1>1, <1>2

LEMMA ReceiveEdges ==
  ASSUME EdgeInv, NEW w \in Workers, RecvFd(w)
  PROVE  Bounded(w)' /\ EdgeLeft(w)'
<1>0. /\ TypeOK /\ WorkerAt(w) /\ Bounded(w) /\ ListenerEdge(w) /\ HangUpEdge(w) /\ QueueEdge(w)
  BY EdgesAt
<1>1. PICK k \in Slots, r \in Connections :
           /\ k = control[w] /\ Becomes(w, k, r) /\ conn[w][k].queue # << >>
           /\ r.lb = conn[w][k].lb /\ r.queue = Tail(conn[w][k].queue)
  BY <1>0, Received
<1>2. /\ UNCHANGED <<backlog, ready, control, events, wpc>> /\ wpc[w] = "drain"
      /\ left'[w] = left[w] - 1 /\ left[w] \in Nat
  BY <1>0 DEF RecvFd, TypeOK
<1>3. /\ Len(Tail(conn[w][k].queue)) = Len(conn[w][k].queue) - 1
      /\ Len(conn[w][k].queue) \in Nat
  <2>1. conn[w][k].queue \in Seq(Clients)
    BY <1>0, ConnFields
  <2> QED BY <1>1, <2>1, HeadTail
<1>4. /\ conn'[w][k].queue = Tail(conn[w][k].queue) /\ conn'[w][k].lb = conn[w][k].lb
      /\ \A l \in Slots : l # k => conn'[w][l] = conn[w][l]
  BY <1>1 DEF Becomes
<1>5. Bounded(w)'
  <2>1. Len(conn'[w][k].queue) <= QueueDepth
    BY <1>0, <1>3, <1>4, HandoffAssumption DEF Bounded
  <2> QED BY <1>0, <1>2, <1>4, <2>1 DEF Bounded
<1>6. /\ Pending(w, "control")' <=> Pending(w, "control")
      /\ Pending(w, "listener")' <=> Pending(w, "listener")
      /\ InBatch(w, "listener")' <=> InBatch(w, "listener")
      /\ HangUpInBatch(w)' <=> HangUpInBatch(w)
  BY <1>2 DEF Pending, InBatch, HangUpInBatch
<1>7. /\ ControlConn(w).queue = conn[w][k].queue /\ ControlConn(w)'.lb = ControlConn(w).lb
      /\ ControlConn(w)'.queue = Tail(conn[w][k].queue)
  BY <1>1, <1>2, <1>4 DEF ControlConn
<1>8. ListenerEdge(w)'
  BY <1>0, <1>2, <1>6 DEF ListenerEdge
<1>9. HangUpEdge(w)'
  BY <1>0, <1>2, <1>6, <1>7 DEF HangUpEdge
<1>10. QueueEdge(w)'
  <2>1. Pending(w, "control") \/ Len(conn[w][k].queue) <= left[w]
    BY <1>0, <1>1, <1>2, <1>7, HandoffAssumption DEF QueueEdge
  <2>2. Len(conn[w][k].queue) <= left[w] => Len(Tail(conn[w][k].queue)) <= left'[w]
    BY <1>2, <1>3
  <2> QED BY <1>2, <1>6, <1>7, <2>1, <2>2 DEF QueueEdge
<1> QED BY <1>5, <1>8, <1>9, <1>10 DEF EdgeLeft

LEMMA DrainedEdges ==
  ASSUME EdgeInv, NEW w \in Workers, Drains(w)
  PROVE  Bounded(w)' /\ EdgeLeft(w)'
<1>0. /\ TypeOK /\ WorkerAt(w) /\ Bounded(w) /\ ListenerEdge(w) /\ HangUpEdge(w) /\ QueueEdge(w)
  BY EdgesAt
<1>1. /\ events[w] # << >> /\ Head(events[w]).token = "control" /\ control[w] \in Slots
      /\ events' = [events EXCEPT ![w] = Tail(events[w])]
  BY <1>0, Drained
<1>2. /\ UNCHANGED backlog /\ wpc[w] = "drain" /\ wpc'[w] = "dispatch"
      /\ DrainDone(w) => left[w] = 0 \/ ControlConn(w).queue = << >>
  BY <1>0 DEF Drains, DrainDone, RecvFdFails, TypeOK
<1>3. InBatch(w, "listener") => InBatch(w, "listener")'
  BY <1>0, <1>1, BatchTail
<1>4. CASE UNCHANGED <<conn, control, ready>>
  <2>0. DrainDone(w)
    <3>1. RecvFdFails(w) => control' = [control EXCEPT ![w] = NoSlot]
      BY DEF RecvFdFails, CloseControl
    <3> QED BY <1>0, <1>1, <1>4, <3>1, HandoffAssumption DEF Drains, TypeOK
  <2>1. /\ Pending(w, "control")' <=> Pending(w, "control")
        /\ Pending(w, "listener")' <=> Pending(w, "listener")
        /\ ControlConn(w)' = ControlConn(w)
    BY <1>4 DEF Pending, ControlConn
  <2>2. ~Head(events[w]).hup
    <3>1. Head(events[w]).hup => control' = [control EXCEPT ![w] = NoSlot]
      BY <2>0 DEF DrainDone, CloseControl
    <3> QED BY <1>0, <1>1, <1>4, <3>1, HandoffAssumption DEF TypeOK
  <2>3. HangUpInBatch(w) => HangUpInBatch(w)'
    BY <1>0, <1>1, <2>2, BatchTail
  <2>4. Bounded(w)'
    BY <1>0, <1>2, <1>4 DEF Bounded
  <2>5. ControlConn(w).queue # << >> => Pending(w, "control")
    <3>1. ControlConn(w).queue \in Seq(Clients)
      BY <1>0, <1>1, ConnFields DEF ControlConn
    <3>2. ControlConn(w).queue # << >> => ~(Len(ControlConn(w).queue) <= 0)
      BY <3>1, EmptySeq
    <3> QED BY <1>0, <1>1, <1>2, <2>0, <3>2, HandoffAssumption DEF QueueEdge
  <2> QED BY <1>0, <1>2, <1>3, <1>4, <2>1, <2>3, <2>4, <2>5
        DEF EdgeLeft, ListenerEdge, HangUpEdge, QueueEdge
<1>5. CASE ~UNCHANGED <<conn, control, ready>>
  <2>1. PICK k \in Slots, r \in Connections :
                 /\ Becomes(w, k, r) /\ r.queue = << >>
                 /\ control' = [control EXCEPT ![w] = NoSlot]
                 /\ ready' = [ready EXCEPT ![w] = Kept(ready[w], {"listener"})]
    BY <1>0, <1>5, Drained
  <2>2. control'[w] = NoSlot /\ ready'[w] = Kept(ready[w], {"listener"}) /\ ready[w] \in Seq(Tokens)
    BY <1>0, <2>1 DEF TypeOK
  <2>3. Pending(w, "listener") => Pending(w, "listener")'
    <3>1. \A u : Pending(w, u)' <=> u \in {"listener"} /\ Pending(w, u)
      BY <1>0, <2>2, KeptPending
    <3> QED BY <3>1
  <2>4. \A l \in Slots : conn'[w][l].queue \in {conn[w][l].queue, << >>}
    BY <2>1 DEF Becomes
  <2>5. Bounded(w)'
    BY <1>0, <1>2, <2>4, HandoffAssumption DEF Bounded
  <2> QED BY <1>0, <1>2, <1>3, <2>2, <2>3, <2>5
        DEF EdgeLeft, ListenerEdge, HangUpEdge, QueueEdge
<1> QED BY <1>4, <1>5

LEMMA EdgesNext ==
  ASSUME BudgetsSuffice
  PROVE  LinkInv /\ EdgesLeft /\ [Next]_vars => EdgesLeft'
<1> SUFFICES ASSUME EdgeInv, [Next]_vars PROVE EdgesLeft'
  BY DEF EdgeInv
<1>1. CASE Balancer
  BY <1>1, BalancerEdges, ConnectEdges, TransferEdges DEF Balancer
<1>2. ASSUME NEW w \in Workers, Worker(w) PROVE EdgesLeft'
  <2>1. Bounded(w)' /\ EdgeLeft(w)'
    BY <1>2, WaitEdges, DispatchEdges, AcceptEdges, ReceiveEdges, DrainedEdges
       DEF Worker, Drains
  <2> QED BY <1>2, <2>1, OtherEdges DEF EdgesLeft
<1>3. CASE LbCrash \/ \E w \in Workers : WorkerCrash(w) \/ WorkerRestart(w)
  BY <1>3, CrashEdges
<1>4. CASE LbRestart
  BY <1>4, BalancerEdges
<1>5. CASE UNCHANGED vars
  <2>1. UNCHANGED <<backlog, ready, control, events, wpc, left, conn>>
    BY <1>5 DEF vars, workerVars
  <2> QED BY <2>1, EdgesAt, EdgesUntouched DEF EdgesLeft
<1> QED BY <1>1, <1>2, <1>3, <1>4, <1>5 DEF Next

LEMMA EdgesInit == Init => EdgesLeft
<1> SUFFICES ASSUME Init, NEW w \in Workers PROVE Bounded(w) /\ EdgeLeft(w)
  BY DEF EdgesLeft
<1>1. backlog[w] = << >> /\ control[w] = NoSlot /\ \A k \in Slots : conn[w][k].queue = << >>
  BY DEF Init, FreeConn
<1> QED BY <1>1, HandoffAssumption DEF Bounded, EdgeLeft, ListenerEdge, HangUpEdge, QueueEdge

(* With an accept budget of at least the listener's backlog, and a receive *)
(* budget of at least what a control socket holds, a worker that goes back *)
(* to epoll_wait has been, or will be, told of everything it has still to  *)
(* take (evented.rs:161-214).                                              *)
THEOREM BudgetsStrandNothing ==
  ASSUME BudgetsSuffice
  PROVE  Spec => []NothingStranded
<1>1. LinkInv /\ EdgesLeft => NothingStranded
  <2> SUFFICES ASSUME LinkInv, EdgesLeft, NEW w \in Workers, up[w], wpc[w] = "wait"
               PROVE  /\ control[w] # NoSlot /\ ControlReadable(ControlConn(w))
                           => Pending(w, "control")
                      /\ backlog[w] # << >> => Pending(w, "listener")
    BY DEF NothingStranded, Pending, ControlConn
  <2>1. ListenerEdge(w) /\ HangUpEdge(w) /\ QueueEdge(w) /\ LoopAt(w)
    BY EdgesAt DEF EdgeInv
  <2>2. ~InBatch(w, "listener") /\ ~InBatch(w, "control") /\ ~HangUpInBatch(w)
    BY <2>1 DEF LoopAt, InBatch, HangUpInBatch
  <2> QED BY <2>1, <2>2 DEF ListenerEdge, HangUpEdge, QueueEdge, ControlReadable
<1> QED BY <1>1, EdgesInit, EdgesNext, AlwaysLinkInv, PTL DEF Spec
=============================================================================
