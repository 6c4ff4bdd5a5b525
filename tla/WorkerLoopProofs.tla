-------------------------- MODULE WorkerLoopProofs --------------------------
(***************************************************************************)
(* Theorems about WorkerLoop, for every number of clients, descriptors and *)
(* control connections, and all budgets and sizes.                         *)
(***************************************************************************)
EXTENDS WorkerLoop, SequenceTheorems, FiniteSetTheorems, WellFoundedInduction, TLAPS

Conn == [state : {"none", "reading", "writing"}, used : Nat, pending : Nat,
         keep : BOOLEAN]

TypeOK ==
  /\ size \in Sizes
  /\ fds \in [Fds -> Files \union {NoFile}]
  /\ slots \in [Fds -> Conn]
  /\ interest \in [Fds -> {"none", "in", "out"}]
  /\ pool \in Nat
  /\ control \in Fds \union {0}
  /\ left \in Nat \union {-1}
  /\ lb \in [Clients -> {"waiting", "sent", "done"}]
  /\ link \in 0..MaxLinks
  /\ backlog \in Seq(Links)
  /\ queue \in [Links -> Seq(Clients)]
  /\ sent \in [Clients -> Nat]
  /\ end \in [Clients -> {"open", "fin", "rst"}]
  /\ taken \in [Clients -> Nat]
  /\ wire \in [Clients -> Nat]
  /\ acked \in [Clients -> Nat]

(* Nothing is read before it is sent, and the send buffer holds its bound. *)
CountersAgree ==
  \A c \in Clients :
    /\ taken[c] <= sent[c]
    /\ acked[c] <= wire[c]
    /\ c \in Slow => wire[c] <= acked[c] + SendBuffer

(* What a number names says where it is kept, and the slot what it waits    *)
(* for.                                                                    *)
HeldAt(f) ==
  /\ slots[f] # NoConn <=> fds[f] \in Clients
  /\ f = control <=> fds[f] \in Links
  /\ slots[f].state = "none" => slots[f] = NoConn
  /\ interest[f] = CASE slots[f].state = "none"    -> "none"
                     [] slots[f].state = "reading" -> "in"
                     [] slots[f].state = "writing" -> "out"

ClientReg(f) == Registration("client", f, fds[f], interest[f])

(* The kernel's registrations are the listener's, the one of the control   *)
(* connection and those the table says.                                    *)
RegisteredIsHeld ==
  /\ ListenerReg \in registered
  /\ \A f \in Fds : interest[f] # "none" => ClientReg(f) \in registered
  /\ \A r \in registered :
       \/ r = ListenerReg
       \/ control # 0 /\ r = Registration("control", control, fds[control], "in")
       \/ \E f \in Fds : interest[f] # "none" /\ r = ClientReg(f)
  /\ ready \subseteq registered

(* Every event not handled yet is of what its number still names, and no   *)
(* two are of the same number.                                             *)
BatchIsHeld ==
  /\ \A e \in batch :
       /\ e.kind \in {"listener", "control", "client"}
       /\ e.kind = "client" => e.fd \in Fds /\ fds[e.fd] = e.file /\ e.file \in Clients
       /\ e.kind = "control" => control # 0 /\ e.fd = control /\ e.file = fds[control]
  /\ \A d, e \in batch : d.kind = e.kind /\ d.fd = e.fd => d = e
  /\ left # -1 => control # 0

BuffersKept == pool + Cardinality({f \in Fds : slots[f] # NoConn}) >= BufPoolCap

HeldInv ==
  /\ TypeOK
  /\ CountersAgree
  /\ \A f \in Fds : HeldAt(f)
  /\ RegisteredIsHeld
  /\ BatchIsHeld

-----------------------------------------------------------------------------
(* Numbers, and what the assumptions say.                                  *)

LEMMA LeastElement ==
  ASSUME NEW T, T \subseteq Nat, T # {}
  PROVE  \E m \in T : \A n \in T : m <= n
<1> DEFINE less == {pair \in Nat \X Nat : pair[1] < pair[2]}
<1>1. IsWellFoundedOn(less, Nat)
  BY NatLessThanWellFounded DEF OpToRel
<1>2. PICK m \in T : \A n \in T : ~(<<n, m>> \in less)
  BY <1>1, WFMin
<1>3. \A n \in T : ~(n < m)
  BY <1>2
<1> QED BY <1>2, <1>3

LEMMA LowestIsFree ==
  ASSUME TypeOK, FreeFds # {}
  PROVE  /\ Min(FreeFds) \in Fds /\ fds[Min(FreeFds)] = NoFile
<1>1. size \in Sizes /\ size.nofile \in Nat
  BY WorkerAssumption DEF TypeOK
<1>2. PICK z \in Sizes : z.nofile \in Nat /\ \A y \in Sizes : y.nofile <= z.nofile
  BY WorkerAssumption
<1>3. \E n \in {y.nofile : y \in Sizes} : \A k \in {y.nofile : y \in Sizes} : n >= k
  <2>1. \A y \in Sizes : y.nofile \in Nat
    BY WorkerAssumption
  <2>2. \A k \in {y.nofile : y \in Sizes} : z.nofile >= k
    BY <1>2, <2>1
  <2> QED BY <1>2, <2>2
<1>4. 1..size.nofile \subseteq Fds
  <2> DEFINE numbers == {y.nofile : y \in Sizes}
  <2>1. /\ Max(numbers) \in numbers /\ \A k \in numbers : Max(numbers) >= k
    BY <1>3 DEF Max
  <2>2. numbers \subseteq Nat /\ size.nofile \in numbers
    BY <1>1, WorkerAssumption
  <2>3. Max(numbers) \in Nat /\ size.nofile <= Max(numbers)
    BY <2>1, <2>2
  <2> HIDE DEF numbers
  <2>4. Fds = 1..Max(numbers)
    BY DEF Fds, numbers
  <2> QED BY <1>1, <2>3, <2>4
<1>5. FreeFds \subseteq Nat
  BY <1>1 DEF FreeFds
<1>6. PICK m \in FreeFds : \A n \in FreeFds : m <= n
  BY <1>5, LeastElement
<1>7. Min(FreeFds) \in FreeFds
  BY <1>6 DEF Min
<1> QED BY <1>4, <1>7 DEF FreeFds

LEMMA FdsAreNumbers == Fds \subseteq Nat \ {0} /\ IsFiniteSet(Fds)
<1>1. PICK z \in Sizes : z.nofile \in Nat /\ \A y \in Sizes : y.nofile <= z.nofile
  BY WorkerAssumption
<1> DEFINE numbers == {y.nofile : y \in Sizes}
<1>2. numbers \subseteq Nat
  BY WorkerAssumption
<1>3. \E n \in numbers : \A k \in numbers : n >= k
  BY <1>1, <1>2
<1>4. Max(numbers) \in Nat
  BY <1>2, <1>3 DEF Max
<1> HIDE DEF numbers
<1>5. Fds = 1..Max(numbers)
  BY DEF Fds, numbers
<1>6. IsFiniteSet(1..Max(numbers))
  BY <1>4, FS_Interval
<1> QED BY <1>4, <1>5, <1>6

LEMMA LinksAreNotClients ==
  /\ Links \subseteq Nat \ {0} /\ 0 \notin Clients
  /\ Clients \intersect Links = {} /\ NoFile \notin Clients /\ NoFile \notin Links
BY WorkerAssumption DEF Links

-----------------------------------------------------------------------------
(* What a handler makes of a connection.                                   *)

GoodOutcome(c, o) ==
  /\ o.conn \in Conn /\ o.wrote \in Nat
  /\ o.conn.state = "none" => o.conn = NoConn
  /\ c \in Slow => wire[c] + o.wrote <= acked[c] + SendBuffer

LEMMA FinishWriteGood ==
  ASSUME TypeOK, CountersAgree, NEW c \in Clients, NEW p \in Nat, NEW u \in Nat,
         NEW keep \in BOOLEAN
  PROVE  GoodOutcome(c, FinishWrite(c, p, u, keep))
<1>1. /\ wire[c] \in Nat /\ acked[c] \in Nat /\ SendBuffer \in Nat
      /\ c \in Slow => wire[c] <= acked[c] + SendBuffer
  BY WorkerAssumption DEF TypeOK, CountersAgree
<1> DEFINE space == Space(c, wire[c])
<1>2. /\ space \in Nat
      /\ c \in Slow => \A n \in Nat : n <= space => wire[c] + n <= acked[c] + SendBuffer
  BY <1>1 DEF Space
<1> HIDE DEF space
<1>3. FinishWrite(c, p, u, keep) =
        IF end[c] = "rst"     THEN ShutDown(0)
        ELSE IF p > space     THEN Outcome("writing", u, p - space, keep, space)
        ELSE IF u > 0 \/ keep THEN Outcome("reading", u, 0, FALSE, p)
        ELSE ShutDown(p)
  BY DEF FinishWrite, space
<1>4. GoodOutcome(c, ShutDown(0)) /\ (p <= space => GoodOutcome(c, ShutDown(p)))
  BY <1>1, <1>2 DEF GoodOutcome, ShutDown, NoConn, Conn
<1>5. p > space => GoodOutcome(c, Outcome("writing", u, p - space, keep, space))
  BY <1>1, <1>2 DEF GoodOutcome, Outcome, NoConn, Conn
<1>6. p <= space => GoodOutcome(c, Outcome("reading", u, 0, FALSE, p))
  BY <1>1, <1>2 DEF GoodOutcome, Outcome, NoConn, Conn
<1>7. p > space \/ p <= space
  BY <1>2
<1> QED BY <1>3, <1>4, <1>5, <1>6, <1>7

LEMMA GreedyReadGood ==
  ASSUME TypeOK, CountersAgree, NEW c \in Clients, NEW used \in Nat
  PROVE  GoodOutcome(c, GreedyRead(c, used))
<1> DEFINE total == used + sent[c] - taken[c]
           n     == total \div RequestLen[c]
           first == (sent[c] - total) \div RequestLen[c] + 1
           keep  == \A r \in first..(first + n - 1) : Keep[c][r]
<1>1. total \in Nat
  BY DEF TypeOK, CountersAgree
<1>2. RequestLen[c] \in Nat \ {0}
  BY WorkerAssumption
<1>3. n \in Nat /\ total % RequestLen[c] \in Nat
  <2> HIDE DEF total
  <2> QED BY <1>1, <1>2
<1>4. keep \in BOOLEAN
  OBVIOUS
<1>5. GoodOutcome(c, ShutDown(0)) /\ \A k \in Nat : GoodOutcome(c, Outcome("reading", k, 0, FALSE, 0))
  BY SMTT(30), WorkerAssumption DEF GoodOutcome, ShutDown, Outcome, NoConn, Conn, TypeOK, CountersAgree
<1>6. DriveReading(c, sent[c], total) =
        IF n = 0 THEN Outcome("reading", total, 0, FALSE, 0)
        ELSE FinishWrite(c, n, total % RequestLen[c], keep)
  BY DEF DriveReading
<1>7. GreedyRead(c, used) =
        IF end[c] = "rst"        THEN ShutDown(0)
        ELSE IF total > 0        THEN DriveReading(c, sent[c], total)
        ELSE IF end[c] = "fin"   THEN ShutDown(0)
        ELSE Outcome("reading", 0, 0, FALSE, 0)
  BY DEF GreedyRead
<1> HIDE DEF total, n, keep
<1>8. GoodOutcome(c, FinishWrite(c, n, total % RequestLen[c], keep))
  BY <1>3, <1>4, FinishWriteGood
<1> QED BY <1>1, <1>5, <1>6, <1>7, <1>8

-----------------------------------------------------------------------------
(* A step that changes one number of the table.                            *)

(* The registrations of the number fd become those of the file x waiting   *)
(* for z; all others stay.                                                 *)
Rearmed(fd, x, z) ==
  /\ \A r \in registered : r.kind # "client" \/ r.fd # fd => r \in registered'
  /\ \A r \in registered' :
       \/ r \in registered /\ (r.kind # "client" \/ r.fd # fd)
       \/ z # "none" /\ r = Registration("client", fd, x, z)
  /\ z # "none" => Registration("client", fd, x, z) \in registered'
  /\ ready' \subseteq registered'

StateOf(y) == CASE y.state = "none"    -> "none"
                [] y.state = "reading" -> "in"
                [] y.state = "writing" -> "out"

TableStep(fd, x, y) ==
  /\ fds' = [fds EXCEPT ![fd] = x]
  /\ slots' = [slots EXCEPT ![fd] = y]
  /\ interest' = [interest EXCEPT ![fd] = StateOf(y)]
  /\ Rearmed(fd, x, StateOf(y))

GoodEntry(x, y) ==
  /\ x \in Clients \union {NoFile} /\ y \in Conn
  /\ y # NoConn <=> x \in Clients
  /\ y.state = "none" => y = NoConn

LEMMA TableStepHeld ==
  ASSUME HeldInv, NEW fd \in Fds, fd # control, NEW x, NEW y, GoodEntry(x, y),
         TableStep(fd, x, y), UNCHANGED control
  PROVE  /\ fds' \in [Fds -> Files \union {NoFile}]
         /\ slots' \in [Fds -> Conn]
         /\ interest' \in [Fds -> {"none", "in", "out"}]
         /\ (\A f \in Fds : HeldAt(f))' /\ RegisteredIsHeld'
<1>1. TypeOK /\ (\A f \in Fds : HeldAt(f)) /\ RegisteredIsHeld
  BY DEF HeldInv
<1>2. /\ fds \in [Fds -> Files \union {NoFile}] /\ slots \in [Fds -> Conn]
      /\ interest \in [Fds -> {"none", "in", "out"}] /\ control \in Fds \union {0}
  BY <1>1 DEF TypeOK
<1>3. x \in Files \union {NoFile} /\ x \notin Links /\ StateOf(y) \in {"none", "in", "out"}
  BY LinksAreNotClients DEF GoodEntry, Files, StateOf, Conn
<1>4. /\ fds' \in [Fds -> Files \union {NoFile}] /\ slots' \in [Fds -> Conn]
      /\ interest' \in [Fds -> {"none", "in", "out"}]
  BY <1>2, <1>3 DEF TableStep, GoodEntry
<1>5. /\ fds'[fd] = x /\ slots'[fd] = y /\ interest'[fd] = StateOf(y)
      /\ \A f \in Fds \ {fd} :
           fds'[f] = fds[f] /\ slots'[f] = slots[f] /\ interest'[f] = interest[f]
  BY <1>2 DEF TableStep
<1>6. HeldAt(fd)'
  BY <1>3, <1>5 DEF HeldAt, GoodEntry, StateOf
<1>7. ASSUME NEW f \in Fds, f # fd PROVE HeldAt(f)'
  BY <1>1, <1>5, <1>7 DEF HeldAt
<1>8. /\ \A f \in Fds \ {fd} : ClientReg(f)' = ClientReg(f)
      /\ ClientReg(fd)' = Registration("client", fd, x, StateOf(y))
  BY <1>5 DEF ClientReg
<1>9. /\ \A f \in Fds : ClientReg(f).kind = "client" /\ ClientReg(f).fd = f
      /\ ListenerReg.kind = "listener"
  BY DEF ClientReg, Registration, ListenerReg
<1>10. RegisteredIsHeld'
  <2>1. ListenerReg \in registered'
    BY <1>1, <1>9 DEF RegisteredIsHeld, TableStep, Rearmed
  <2>2. ASSUME NEW f \in Fds, interest'[f] # "none" PROVE ClientReg(f)' \in registered'
    <3>1. CASE f = fd
      BY <1>5, <1>8, <2>2, <3>1 DEF TableStep, Rearmed
    <3>2. CASE f # fd
      <4>1. ClientReg(f) \in registered
        BY <1>1, <1>5, <2>2, <3>2 DEF RegisteredIsHeld
      <4> QED BY <1>8, <1>9, <3>2, <4>1 DEF TableStep, Rearmed
    <3> QED BY <3>1, <3>2
  <2>3. ASSUME NEW r \in registered'
        PROVE  \/ r = ListenerReg
               \/ control' # 0 /\ r = Registration("control", control', fds'[control'], "in")
               \/ \E f \in Fds : interest'[f] # "none" /\ r = ClientReg(f)'
    <3>1. CASE r \in registered /\ (r.kind # "client" \/ r.fd # fd)
      <4>1. CASE \E f \in Fds : interest[f] # "none" /\ r = ClientReg(f)
        BY <1>5, <1>8, <1>9, <3>1, <4>1
      <4>2. CASE control # 0 /\ r = Registration("control", control, fds[control], "in")
        BY <1>2, <1>5, <4>2
      <4>3. CASE r = ListenerReg
        BY <4>3
      <4> QED BY <1>1, <3>1, <4>1, <4>2, <4>3 DEF RegisteredIsHeld
    <3>2. CASE StateOf(y) # "none" /\ r = Registration("client", fd, x, StateOf(y))
      BY <1>5, <1>8, <3>2
    <3> QED BY <3>1, <3>2 DEF TableStep, Rearmed
  <2>4. ready' \subseteq registered'
    BY DEF TableStep, Rearmed
  <2> QED BY <2>1, <2>2, <2>3, <2>4 DEF RegisteredIsHeld, ListenerReg
<1> QED BY <1>4, <1>6, <1>7, <1>10

LEMMA RegisteredAt ==
  ASSUME HeldInv, NEW fd \in Fds, NEW c \in Clients, fds[fd] \in {c, NoFile}
  PROVE  /\ fd # control /\ interest[fd] \in {"none", "in", "out"}
         /\ fds[fd] = NoFile => interest[fd] = "none" /\ slots[fd] = NoConn
         /\ \A r \in registered : r \in Of(fd, c) <=> r.kind = "client" /\ r.fd = fd
         /\ \A r \in registered : r.kind = "client" /\ r.fd = fd =>
              interest[fd] # "none" /\ r = Registration("client", fd, c, interest[fd])
         /\ interest[fd] # "none" => Registration("client", fd, c, interest[fd]) \in registered
         /\ ready \subseteq registered
<1>1. TypeOK /\ HeldAt(fd) /\ RegisteredIsHeld /\ \A f \in Fds : HeldAt(f)
  BY DEF HeldInv
<1>2. fd # control /\ fd # 0
  BY <1>1, LinksAreNotClients, FdsAreNumbers DEF HeldAt
<1>3. control \in Fds => fds[control] \in Links
  BY <1>1 DEF HeldAt
<1>4. interest[fd] \in {"none", "in", "out"}
  BY <1>1 DEF TypeOK
<1>5. fds[fd] = NoFile => interest[fd] = "none" /\ slots[fd] = NoConn
  BY <1>1, LinksAreNotClients DEF HeldAt, NoConn
<1>6. ASSUME NEW r \in registered
      PROVE  /\ r \in Of(fd, c) <=> r.kind = "client" /\ r.fd = fd
             /\ r.kind = "client" /\ r.fd = fd =>
                  interest[fd] # "none" /\ r = Registration("client", fd, c, interest[fd])
  <2>1. CASE r = ListenerReg
    BY <1>2, <2>1 DEF ListenerReg, Registration, Of
  <2>2. CASE control # 0 /\ r = Registration("control", control, fds[control], "in")
    BY <1>2, <2>2 DEF Registration, Of
  <2>3. CASE \E f \in Fds : interest[f] # "none" /\ r = ClientReg(f)
    BY <1>5, <2>3 DEF Registration, ClientReg, Of
  <2> QED BY <1>1, <2>1, <2>2, <2>3 DEF RegisteredIsHeld
<1>7. interest[fd] # "none" => Registration("client", fd, c, interest[fd]) \in registered
  BY <1>1, <1>5 DEF RegisteredIsHeld, ClientReg
<1> QED BY <1>1, <1>2, <1>4, <1>5, <1>6, <1>7 DEF RegisteredIsHeld

LEMMA ShutdownStep ==
  ASSUME HeldInv, NEW fd \in Fds, NEW c \in Clients, fds[fd] \in {c, NoFile},
         ShutdownClient(fd, c), slots' = [slots EXCEPT ![fd] = NoConn]
  PROVE  /\ fd # control /\ TableStep(fd, NoFile, NoConn) /\ GoodEntry(NoFile, NoConn)
<1>1. StateOf(NoConn) = "none" /\ GoodEntry(NoFile, NoConn)
  BY LinksAreNotClients DEF StateOf, NoConn, GoodEntry, Conn
<1>2. Rearmed(fd, NoFile, "none")
  <2>1. CASE interest[fd] = "none"
    <3>1. UNCHANGED <<registered, ready>>
      BY <2>1 DEF ShutdownClient, epollVars
    <3> QED BY <2>1, <3>1, RegisteredAt DEF Rearmed
  <2>2. CASE interest[fd] # "none"
    <3>1. registered' = registered \ Of(fd, c) /\ ready' = ready \ Of(fd, c)
      BY <2>2 DEF ShutdownClient
    <3> QED BY <3>1, RegisteredAt DEF Rearmed
  <2> QED BY <2>1, <2>2
<1> QED BY <1>1, <1>2, RegisteredAt DEF TableStep, ShutdownClient

LEMMA SettleStep ==
  ASSUME HeldInv, NEW fd \in Fds, NEW c \in Clients, fds[fd] \in {c, NoFile},
         NEW o, GoodOutcome(c, o), NEW t, NEW p, Settle(fd, c, o, t, p)
  PROVE  \E x \in {c, NoFile} :
           fd # control /\ TableStep(fd, x, o.conn) /\ GoodEntry(x, o.conn)
<1>1. slots' = [slots EXCEPT ![fd] = o.conn]
  BY DEF Settle
<1>2. CASE o.conn = NoConn
  <2>1. ShutdownClient(fd, c)
    BY <1>2 DEF Settle
  <2> QED BY <1>1, <1>2, <2>1, ShutdownStep
<1>3. CASE o.conn # NoConn
  <2>1. o.conn.state \in {"reading", "writing"} /\ GoodEntry(c, o.conn)
    BY <1>3 DEF GoodOutcome, Conn, GoodEntry
  <2>2. PICK ev \in {"in", "out"} :
          /\ ev = StateOf(o.conn)
          /\ ConnArmEpoll(fd, c, ev, t, wire[c] + o.wrote)
    BY <1>3, <2>1 DEF Settle, StateOf
  <2>3. fds' = [fds EXCEPT ![fd] = c]
    BY <1>3 DEF Settle
  <2>4. interest' = [interest EXCEPT ![fd] = ev]
    <3>1. interest \in [Fds -> {"none", "in", "out"}]
      BY DEF HeldInv, TypeOK
    <3> QED BY <2>2, <3>1 DEF ConnArmEpoll
  <2>5. Rearmed(fd, c, ev)
    <3>1. CASE interest[fd] = ev
      <4>1. UNCHANGED <<registered, ready>>
        BY <2>2, <3>1 DEF ConnArmEpoll, epollVars
      <4> QED BY <2>2, <3>1, <4>1, RegisteredAt DEF Rearmed
    <3>2. CASE interest[fd] # ev
      <4> DEFINE r == Registration("client", fd, c, ev)
      <4>1. /\ registered' = (registered \ Of(fd, c)) \union {r}
            /\ ready' \subseteq (ready \ Of(fd, c)) \union {r}
        BY <2>2, <3>2 DEF ConnArmEpoll
      <4> HIDE DEF r
      <4>2. Rearmed(fd, c, ev) <=>
              /\ \A q \in registered : q.kind # "client" \/ q.fd # fd => q \in registered'
              /\ \A q \in registered' :
                   \/ q \in registered /\ (q.kind # "client" \/ q.fd # fd)
                   \/ ev # "none" /\ q = r
              /\ ev # "none" => r \in registered'
              /\ ready' \subseteq registered'
        BY DEF Rearmed, r
      <4> QED BY <2>2, <4>1, <4>2, RegisteredAt
    <3> QED BY <3>1, <3>2
  <2> QED BY <1>1, <2>1, <2>2, <2>3, <2>4, <2>5, RegisteredAt DEF TableStep
<1> QED BY <1>2, <1>3

-----------------------------------------------------------------------------
(* Handlers of a client.                                                   *)

(* What a handler of a client can disturb, the batch left aside.           *)
TableOK ==
  /\ fds \in [Fds -> Files \union {NoFile}]
  /\ slots \in [Fds -> Conn]
  /\ interest \in [Fds -> {"none", "in", "out"}]
  /\ pool \in Nat
  /\ taken \in [Clients -> Nat]
  /\ wire \in [Clients -> Nat]
  /\ CountersAgree
  /\ \A f \in Fds : HeldAt(f)
  /\ RegisteredIsHeld

LEMMA TableUntouched ==
  ASSUME HeldInv, UNCHANGED <<fds, tableVars, registered, control, taken, wire, sent, acked>>,
         ready' \subseteq registered
  PROVE  TableOK'
<1>1. TypeOK /\ CountersAgree /\ RegisteredIsHeld /\ \A f \in Fds : HeldAt(f)
  BY DEF HeldInv
<1>2. UNCHANGED <<fds, slots, interest, pool, registered, control, taken, wire, sent, acked>>
  BY DEF tableVars
<1>3. CountersAgree' /\ \A f \in Fds : HeldAt(f)'
  BY <1>1, <1>2 DEF CountersAgree, HeldAt
<1>4. RegisteredIsHeld'
  BY <1>1, <1>2 DEF RegisteredIsHeld, ClientReg
<1> QED BY <1>1, <1>2, <1>3, <1>4 DEF TableOK, TypeOK

LEMMA RecycledBuffer ==
  ASSUME NEW p \in Nat
  PROVE  RecycleBuf(p) \in {p, p + 1} /\ (RecycleBuf(p) = p => p >= BufPoolCap)
BY WorkerAssumption DEF RecycleBuf

LEMMA SettleTable ==
  ASSUME HeldInv, NEW fd \in Fds, NEW c \in Clients, fds[fd] \in {c, NoFile},
         NEW o, GoodOutcome(c, o), NEW t \in {taken[c], sent[c]}, NEW p \in Nat,
         Settle(fd, c, o, t, p), UNCHANGED <<control, sent, acked>>
  PROVE  TableOK' /\ \A f \in Fds \ {fd} : fds'[f] = fds[f]
<1>1. TypeOK /\ CountersAgree
  BY DEF HeldInv
<1>2. PICK x \in {c, NoFile} :
        fd # control /\ TableStep(fd, x, o.conn) /\ GoodEntry(x, o.conn)
  BY SettleStep
<1>3. /\ fds' \in [Fds -> Files \union {NoFile}] /\ slots' \in [Fds -> Conn]
      /\ interest' \in [Fds -> {"none", "in", "out"}]
      /\ (\A f \in Fds : HeldAt(f))' /\ RegisteredIsHeld'
  BY <1>2, TableStepHeld
<1>4. pool' \in Nat
  BY RecycledBuffer DEF Settle
<1>5. /\ taken' = [taken EXCEPT ![c] = t]
      /\ wire' = [wire EXCEPT ![c] = wire[c] + o.wrote] /\ o.wrote \in Nat
  BY DEF Settle, GoodOutcome
<1>6. taken' \in [Clients -> Nat] /\ wire' \in [Clients -> Nat]
  BY <1>1, <1>5 DEF TypeOK
<1>7. CountersAgree'
  <2> SUFFICES ASSUME NEW d \in Clients
               PROVE  /\ taken'[d] <= sent[d] /\ acked[d] <= wire'[d]
                      /\ d \in Slow => wire'[d] <= acked[d] + SendBuffer
    BY DEF CountersAgree
  <2>1. CASE d = c
    <3>1. taken'[c] <= sent[c]
      BY <1>1, <1>5, <2>1 DEF TypeOK, CountersAgree
    <3>2. wire'[c] = wire[c] + o.wrote /\ wire[c] \in Nat /\ acked[c] \in Nat
      BY <1>1, <1>5 DEF TypeOK
    <3> QED BY <1>1, <1>5, <2>1, <3>1, <3>2 DEF GoodOutcome, CountersAgree
  <2>2. CASE d # c
    BY <1>1, <1>5, <2>2 DEF TypeOK, CountersAgree
  <2> QED BY <2>1, <2>2
<1>8. \A f \in Fds \ {fd} : fds'[f] = fds[f]
  BY <1>1, <1>2 DEF TableStep, TypeOK
<1> QED BY <1>3, <1>4, <1>6, <1>7, <1>8 DEF TableOK

(* Taking a new connection, under the number it was received.              *)
LEMMA NewClientTable ==
  ASSUME HeldInv, NEW fd \in Fds, fds[fd] = NoFile, NEW c \in Clients,
         OnNewClientFd(fd, c), UNCHANGED <<control, sent, acked>>
  PROVE  TableOK' /\ \A f \in Fds \ {fd} : fds'[f] = fds[f]
<1>1. TypeOK /\ CountersAgree /\ ready \subseteq registered
  BY DEF HeldInv, RegisteredIsHeld
<1>2. CASE UNCHANGED <<fds, tableVars, epollVars, taken, wire>>
  BY <1>1, <1>2, TableUntouched DEF epollVars
<1>3. CASE Settle(fd, c, GreedyRead(c, 0), sent[c], AllocBuf)
  <2>1. AllocBuf \in Nat
    BY <1>1 DEF AllocBuf, TypeOK
  <2>2. GoodOutcome(c, GreedyRead(c, 0))
    BY <1>1, GreedyReadGood
  <2> QED BY <1>3, <2>1, <2>2, SettleTable
<1> QED BY <1>2, <1>3 DEF OnNewClientFd

(* An event of a client, whatever its slot is doing.                       *)
LEMMA ClientEventTable ==
  ASSUME HeldInv, NEW fd \in Fds, fds[fd] \in Clients,
         OnReadable(fd) \/ OnWritable(fd) \/ CloseConn(fd), UNCHANGED <<control, sent, acked>>
  PROVE  TableOK' /\ \A f \in Fds \ {fd} : fds'[f] = fds[f]
<1>1. TypeOK /\ CountersAgree /\ ready \subseteq registered
  BY DEF HeldInv, RegisteredIsHeld
<1>2. PICK c \in Clients : fds[fd] = c
  OBVIOUS
<1>3. CASE UNCHANGED <<fds, tableVars, epollVars, taken, wire>>
  BY <1>1, <1>3, TableUntouched DEF epollVars
<1>4. slots[fd] \in Conn
  BY <1>1 DEF TypeOK
<1>5. CASE OnReadable(fd) /\ slots[fd].state = "reading"
  <2>1. Settle(fd, c, GreedyRead(c, slots[fd].used), sent[c], pool)
    BY <1>2, <1>5 DEF OnReadable
  <2>2. GoodOutcome(c, GreedyRead(c, slots[fd].used)) /\ pool \in Nat
    BY <1>1, <1>4, GreedyReadGood DEF Conn, TypeOK
  <2> QED BY <1>2, <2>1, <2>2, SettleTable
<1>6. CASE OnWritable(fd) /\ slots[fd].state = "writing"
  <2> DEFINE s == slots[fd]
  <2>1. Settle(fd, c, FinishWrite(c, s.pending, s.used, s.keep), taken[c], pool)
    BY <1>2, <1>6 DEF OnWritable
  <2>2. GoodOutcome(c, FinishWrite(c, s.pending, s.used, s.keep)) /\ pool \in Nat
    BY <1>1, <1>4, FinishWriteGood DEF Conn, TypeOK
  <2> HIDE DEF s
  <2> QED BY <1>2, <2>1, <2>2, SettleTable
<1>7. CASE CloseConn(fd)
  <2>1. /\ ShutdownClient(fd, c) /\ slots' = [slots EXCEPT ![fd] = NoConn]
        /\ UNCHANGED <<taken, wire>> /\ pool' \in {pool, RecycleBuf(pool)}
    BY <1>2, <1>7 DEF CloseConn
  <2>2. fd # control /\ TableStep(fd, NoFile, NoConn) /\ GoodEntry(NoFile, NoConn)
    BY <1>2, <2>1, ShutdownStep
  <2>3. /\ fds' \in [Fds -> Files \union {NoFile}] /\ slots' \in [Fds -> Conn]
        /\ interest' \in [Fds -> {"none", "in", "out"}]
        /\ (\A f \in Fds : HeldAt(f))' /\ RegisteredIsHeld'
    BY <2>2, TableStepHeld
  <2>4. pool' \in Nat /\ CountersAgree'
    BY <1>1, <2>1, RecycledBuffer DEF TypeOK, CountersAgree
  <2>5. \A f \in Fds \ {fd} : fds'[f] = fds[f]
    BY <1>1, <2>2 DEF TableStep, TypeOK
  <2> QED BY <1>1, <2>1, <2>3, <2>4, <2>5 DEF TableOK, TypeOK
<1> QED BY <1>3, <1>5, <1>6, <1>7 DEF OnReadable, OnWritable

-----------------------------------------------------------------------------
(* The steps.                                                              *)

LEMMA BatchKept ==
  ASSUME BatchIsHeld, batch' \subseteq batch, UNCHANGED control,
         control # 0 => fds'[control] = fds[control],
         \A e \in batch' : e.kind = "client" => fds'[e.fd] = fds[e.fd],
         left' = -1 \/ control # 0
  PROVE  BatchIsHeld'
BY DEF BatchIsHeld

LEMMA EnvironmentHeld ==
  ASSUME HeldInv, Environment
  PROVE  HeldInv'
<1>0. TypeOK /\ CountersAgree /\ BatchIsHeld /\ RegisteredIsHeld /\ \A f \in Fds : HeldAt(f)
  BY DEF HeldInv
<1>1. UNCHANGED <<size, fds, slots, interest, pool, control, batch, left>>
  BY DEF Environment, ClientSend, ClientShutdown, ClientReset, ClientReceive, LbConnect,
         LbSend, LbClosePeer, tableVars
<1>2. BatchIsHeld'
  BY <1>0, <1>1, BatchKept DEF BatchIsHeld
<1>3. /\ registered' = registered /\ ready' \subseteq registered
  <2>1. ready \subseteq registered /\ ListenerReg \in registered
    BY <1>0 DEF RegisteredIsHeld
  <2>2. CASE \E c \in Clients : LbClosePeer(c)
    <3>1. PICK c \in Clients : LbClosePeer(c)
      BY <2>2
    <3>2. CASE InUse(c)
      BY <2>1, <3>1, <3>2 DEF LbClosePeer, epollVars
    <3>3. CASE ~InUse(c)
      <4>1. \A f \in Fds : fds[f] # c
        BY <1>0, <3>3 DEF InUse, Range, TypeOK
      <4>2. control # 0 => fds[control] # c
        BY <1>0, <4>1 DEF TypeOK
      <4>3. \A r \in registered : r.file # c
        BY <1>0, <4>1, <4>2, LinksAreNotClients
           DEF RegisteredIsHeld, ClientReg, ListenerReg, Registration
      <4> QED BY <2>1, <3>1, <3>3, <4>3 DEF LbClosePeer, Forget
    <3> QED BY <3>2, <3>3
  <2>3. CASE LbConnect
    BY <2>1, <2>3 DEF LbConnect, Wake
  <2>4. CASE \E c \in Clients : \/ ClientSend(c) \/ ClientShutdown(c) \/ ClientReset(c)
                                \/ ClientReceive(c) \/ LbSend(c)
    BY <2>1, <2>4 DEF ClientSend, ClientShutdown, ClientReset, ClientReceive, LbSend, Wake
  <2> QED BY <2>2, <2>3, <2>4 DEF Environment
<1>4. RegisteredIsHeld' /\ \A f \in Fds : HeldAt(f)'
  BY <1>0, <1>1, <1>3 DEF RegisteredIsHeld, HeldAt, ClientReg
<1>5. TypeOK' /\ CountersAgree'
  <2>1. CASE \E c \in Clients : ClientSend(c) \/ ClientShutdown(c) \/ ClientReset(c) \/ ClientReceive(c)
    <3> PICK d \in Clients : ClientSend(d) \/ ClientShutdown(d) \/ ClientReset(d) \/ ClientReceive(d)
      BY <2>1
    <3>0. UNCHANGED <<lb, link, backlog, queue, taken, wire>>
      BY DEF ClientSend, ClientShutdown, ClientReset, ClientReceive, lbVars
    <3>1. /\ sent' \in [Clients -> Nat] /\ acked' \in [Clients -> Nat]
          /\ end' \in [Clients -> {"open", "fin", "rst"}]
      <4>1. /\ sent' = sent \/ sent' = [sent EXCEPT ![d] = sent[d] + 1]
            /\ acked' = acked \/ acked' = [acked EXCEPT ![d] = wire[d]]
            /\ \/ end' = end \/ end' = [end EXCEPT ![d] = "fin"]
               \/ end' = [end EXCEPT ![d] = "rst"]
        BY DEF ClientSend, ClientShutdown, ClientReset, ClientReceive
      <4>2. sent[d] + 1 \in Nat /\ wire[d] \in Nat
        BY <1>0 DEF TypeOK
      <4>3. /\ sent \in [Clients -> Nat] /\ acked \in [Clients -> Nat]
            /\ end \in [Clients -> {"open", "fin", "rst"}]
        BY <1>0 DEF TypeOK
      <4>4. sent' \in [Clients -> Nat]
        BY <4>1, <4>2, <4>3
      <4>5. acked' \in [Clients -> Nat]
        BY <4>1, <4>2, <4>3
      <4>6. end' \in [Clients -> {"open", "fin", "rst"}]
        BY <4>1, <4>3
      <4> QED BY <4>4, <4>5, <4>6
    <3>2. \A c \in Clients : /\ sent'[c] \in {sent[c], sent[c] + 1}
                             /\ acked'[c] \in {acked[c], wire[c]}
      BY SMTT(30), <1>0, <2>1 DEF TypeOK, ClientSend, ClientShutdown, ClientReset, ClientReceive
    <3>3. \A c \in Clients : /\ sent[c] \in Nat /\ acked[c] \in Nat /\ wire[c] \in Nat
                             /\ taken[c] \in Nat
      BY <1>0 DEF TypeOK
    <3>4. CountersAgree'
      <4> SUFFICES ASSUME NEW c \in Clients
                   PROVE  /\ taken[c] <= sent'[c] /\ acked'[c] <= wire[c]
                          /\ c \in Slow => wire[c] <= acked'[c] + SendBuffer
        BY <3>0 DEF CountersAgree
      <4>1. /\ taken[c] <= sent[c] /\ acked[c] <= wire[c]
            /\ c \in Slow => wire[c] <= acked[c] + SendBuffer
        BY <1>0 DEF CountersAgree
      <4>2. SendBuffer \in Nat
        BY WorkerAssumption
      <4>3. sent'[c] \in {sent[c], sent[c] + 1} /\ acked'[c] \in {acked[c], wire[c]}
        BY <3>2
      <4>4. sent[c] \in Nat /\ acked[c] \in Nat /\ wire[c] \in Nat /\ taken[c] \in Nat
        BY <3>3
      <4> QED BY <4>1, <4>2, <4>3, <4>4
    <3> QED BY <1>0, <1>1, <3>0, <3>1, <3>4 DEF TypeOK
  <2>2. CASE LbConnect
    <3>1. link' \in 0..MaxLinks /\ link + 1 \in Links
      BY <1>0, <2>2, WorkerAssumption DEF LbConnect, TypeOK, Links
    <3>2. backlog' \in Seq(Links)
      BY <1>0, <2>2, <3>1 DEF LbConnect, TypeOK
    <3>3. UNCHANGED <<lb, queue, sent, end, taken, wire, acked>>
      BY <2>2 DEF LbConnect, socketVars
    <3> QED BY <1>0, <1>1, <3>1, <3>2, <3>3 DEF TypeOK, CountersAgree
  <2>3. CASE \E c \in Clients : LbSend(c) \/ LbClosePeer(c)
    <3>1. /\ lb' \in [Clients -> {"waiting", "sent", "done"}]
          /\ UNCHANGED <<link, backlog, sent, end, taken, wire, acked>>
      BY <1>0, <2>3 DEF TypeOK, LbSend, LbClosePeer, socketVars
    <3>2. queue' \in [Links -> Seq(Clients)]
      <4>1. ASSUME NEW c \in Clients, LbSend(c) PROVE queue' \in [Links -> Seq(Clients)]
        <5>1. queue' = [queue EXCEPT ![link] = Append(queue[link], c)]
          BY <4>1 DEF LbSend
        <5>2. link \in Links => Append(queue[link], c) \in Seq(Clients)
          BY <1>0 DEF TypeOK
        <5> QED BY <1>0, <5>1, <5>2 DEF TypeOK
      <4>2. ASSUME NEW c \in Clients, LbClosePeer(c) PROVE queue' = queue
        BY <4>2 DEF LbClosePeer
      <4> QED BY <1>0, <2>3, <4>1, <4>2 DEF TypeOK
    <3> QED BY <1>0, <1>1, <3>1, <3>2 DEF TypeOK, CountersAgree
  <2> QED BY <2>1, <2>2, <2>3 DEF Environment
<1> QED BY <1>2, <1>4, <1>5 DEF HeldInv

LEMMA EpollWaitHeld ==
  ASSUME HeldInv, EpollWait
  PROVE  HeldInv'
<1>0. TypeOK /\ CountersAgree /\ BatchIsHeld /\ RegisteredIsHeld /\ \A f \in Fds : HeldAt(f)
  BY DEF HeldInv
<1>1. /\ UNCHANGED <<size, fds, tableVars, registered, control, left, lbVars, socketVars>>
      /\ ready' = {} /\ batch' = {Event(r) : r \in {q \in ready : Reports(q)}}
  BY DEF EpollWait
<1>2. TableOK'
  BY <1>1, TableUntouched DEF socketVars
<1>3. TypeOK'
  BY <1>0, <1>1, <1>2 DEF TypeOK, TableOK, lbVars, socketVars
<1>4. \A r, q \in registered : r.kind = q.kind /\ r.fd = q.fd => r = q
  BY <1>0 DEF RegisteredIsHeld, ClientReg, ListenerReg, Registration
<1>5. ASSUME NEW r \in registered
      PROVE  /\ r.kind \in {"listener", "control", "client"}
             /\ r.kind = "client" => r.fd \in Fds /\ fds[r.fd] = r.file /\ r.file \in Clients
             /\ r.kind = "control" => control # 0 /\ r.fd = control /\ r.file = fds[control]
  <2>1. CASE \E f \in Fds : interest[f] # "none" /\ r = ClientReg(f)
    <3>1. PICK f \in Fds : interest[f] # "none" /\ r = ClientReg(f)
      BY <2>1
    <3>2. fds[f] \in Clients
      BY <1>0, <3>1 DEF HeldAt, NoConn
    <3> QED BY <3>1, <3>2 DEF ClientReg, Registration
  <2>2. CASE r = ListenerReg
    BY <2>2 DEF ListenerReg, Registration
  <2>3. CASE control # 0 /\ r = Registration("control", control, fds[control], "in")
    BY <2>3 DEF Registration
  <2> QED BY <1>0, <2>1, <2>2, <2>3 DEF RegisteredIsHeld
<1>6. \A r \in registered :
        Event(r).kind = r.kind /\ Event(r).fd = r.fd /\ Event(r).file = r.file
  BY DEF Event
<1>7. BatchIsHeld'
  <2> HIDE DEF Event
  <2>1. \A e \in batch' : \E r \in registered : e = Event(r)
    BY <1>0, <1>1 DEF RegisteredIsHeld
  <2>2. UNCHANGED <<fds, control, left>>
    BY <1>1
  <2>3. \A d, e \in batch' : d.kind = e.kind /\ d.fd = e.fd => d = e
    BY <1>4, <1>6, <2>1
  <2>4. \A e \in batch' :
          /\ e.kind \in {"listener", "control", "client"}
          /\ e.kind = "client" => e.fd \in Fds /\ fds[e.fd] = e.file /\ e.file \in Clients
          /\ e.kind = "control" => control # 0 /\ e.fd = control /\ e.file = fds[control]
    BY <1>5, <1>6, <2>1
  <2> QED BY <1>0, <2>2, <2>3, <2>4 DEF BatchIsHeld
<1> QED BY <1>2, <1>3, <1>7 DEF HeldInv, TableOK

LEMMA ControlEventHeld ==
  ASSUME HeldInv, NEW e \in batch, ControlEvent(e)
  PROVE  HeldInv'
<1>0. TypeOK /\ BatchIsHeld /\ RegisteredIsHeld
  BY DEF HeldInv
<1>1. /\ UNCHANGED <<size, fds, tableVars, epollVars, control, lbVars, socketVars>>
      /\ batch' \subseteq batch /\ left' \in {left, RecvFdBudget}
      /\ left' = left \/ control # 0
  BY DEF ControlEvent
<1>2. TableOK'
  BY <1>0, <1>1, TableUntouched DEF socketVars, epollVars, RegisteredIsHeld
<1>3. TypeOK'
  BY <1>0, <1>1, <1>2, WorkerAssumption DEF TypeOK, TableOK, lbVars, socketVars
<1>4. BatchIsHeld'
  BY <1>0, <1>1, BatchKept DEF BatchIsHeld
<1> QED BY <1>2, <1>3, <1>4 DEF HeldInv, TableOK

(* drain_fds takes its connection from the control connection.             *)
LEMMA InFlightClients ==
  ASSUME HeldInv, left # -1
  PROVE  control \in Fds /\ fds[control] \in Links /\ InFlight \in Seq(Clients)
<1>1. control \in Fds
  BY DEF HeldInv, BatchIsHeld, TypeOK
<1>2. fds[control] \in Links
  BY <1>1 DEF HeldInv, HeldAt
<1> QED BY <1>1, <1>2 DEF HeldInv, TypeOK, InFlight

LEMMA RecvFdHeld ==
  ASSUME HeldInv, RecvFd
  PROVE  HeldInv'
<1>0. TypeOK /\ BatchIsHeld
  BY DEF HeldInv
<1>1. /\ left > 0 /\ left' = left - 1 /\ InFlight # << >> /\ FreeFds # {}
      /\ queue' = [queue EXCEPT ![fds[control]] = Tail(queue[fds[control]])]
      /\ UNCHANGED <<size, control, batch, lb, link, backlog, sent, end, acked>>
  BY DEF RecvFd
<1>2. control \in Fds /\ fds[control] \in Links /\ InFlight \in Seq(Clients) /\ left # -1
  <2>1. left # -1
    BY <1>0, <1>1 DEF TypeOK
  <2> QED BY <2>1, InFlightClients
<1>3. Head(InFlight) \in Clients /\ Tail(InFlight) \in Seq(Clients)
  <2> HIDE DEF InFlight
  <2> QED BY <1>1, <1>2, HeadTailProperties
<1> DEFINE fd == Min(FreeFds)
<1>4. fd \in Fds /\ fds[fd] = NoFile
  BY <1>0, <1>1, LowestIsFree
<1>5. TableOK' /\ \A f \in Fds \ {fd} : fds'[f] = fds[f]
  <2>1. OnNewClientFd(fd, Head(InFlight))
    BY DEF RecvFd
  <2> HIDE DEF fd
  <2> QED BY <1>1, <1>3, <1>4, <2>1, NewClientTable
<1> HIDE DEF fd
<1>6. TypeOK'
  <2>1. queue' \in [Links -> Seq(Clients)]
    BY <1>0, <1>1, <1>2, <1>3 DEF InFlight, TypeOK
  <2>2. left' \in Nat \union {-1}
    BY <1>0, <1>1 DEF TypeOK
  <2> QED BY <1>0, <1>1, <1>5, <2>1, <2>2 DEF TypeOK, TableOK
<1>7. BatchIsHeld'
  <2>1. \A e \in batch : e.kind = "client" => fds'[e.fd] = fds[e.fd]
    BY <1>0, <1>4, <1>5, LinksAreNotClients DEF BatchIsHeld
  <2>2. fds'[control] = fds[control] /\ control # 0
    BY <1>2, <1>4, <1>5, LinksAreNotClients, FdsAreNumbers
  <2> QED BY <1>0, <1>1, <2>1, <2>2, BatchKept
<1> QED BY <1>5, <1>6, <1>7 DEF HeldInv, TableOK

LEMMA ClientEventHeld ==
  ASSUME HeldInv, NEW e \in batch, ClientEvent(e)
  PROVE  HeldInv'
<1>0. TypeOK /\ BatchIsHeld /\ \A f \in Fds : HeldAt(f)
  BY DEF HeldInv
<1>1. /\ e.kind = "client" /\ left = -1 /\ batch' = batch \ {e}
      /\ OnReadable(e.fd) \/ OnWritable(e.fd) \/ CloseConn(e.fd)
      /\ UNCHANGED <<size, control, left, lbVars, sent, end, acked>>
  BY DEF ClientEvent
<1>2. e.fd \in Fds /\ fds[e.fd] \in Clients
  BY <1>0, <1>1 DEF BatchIsHeld
<1>3. TableOK' /\ \A f \in Fds \ {e.fd} : fds'[f] = fds[f]
  BY <1>1, <1>2, ClientEventTable
<1>4. TypeOK'
  BY <1>0, <1>1, <1>3 DEF TypeOK, TableOK, lbVars
<1>5. BatchIsHeld'
  <2>1. \A d \in batch' : d.kind = "client" => d.fd \in Fds /\ d.fd # e.fd
    BY <1>0, <1>1 DEF BatchIsHeld
  <2>2. control # 0 => fds'[control] = fds[control]
    BY <1>0, <1>2, <1>3, LinksAreNotClients DEF TypeOK, HeldAt
  <2> QED BY <1>0, <1>1, <1>3, <2>1, <2>2, BatchKept
<1> QED BY <1>3, <1>4, <1>5 DEF HeldInv, TableOK

LEMMA InstallHeld ==
  ASSUME HeldInv, NEW fd \in Fds, fds[fd] = NoFile, NEW k \in Links, control = 0,
         NEW r, r = Registration("control", fd, k, "in"),
         fds' = [fds EXCEPT ![fd] = k], control' = fd,
         registered' = registered \union {r}, ready' \subseteq ready \union {r},
         UNCHANGED <<tableVars, taken, wire, sent, acked>>
  PROVE  TableOK' /\ \A f \in Fds \ {fd} : fds'[f] = fds[f]
<1>0. TypeOK /\ CountersAgree /\ RegisteredIsHeld /\ \A f \in Fds : HeldAt(f)
  BY DEF HeldInv
<1>1. UNCHANGED <<slots, interest, pool>>
  BY DEF tableVars
<1>2. /\ fds' \in [Fds -> Files \union {NoFile}] /\ fds'[fd] = k
      /\ \A f \in Fds \ {fd} : fds'[f] = fds[f]
  BY <1>0 DEF TypeOK, Files
<1>3. ASSUME NEW f \in Fds PROVE HeldAt(f)'
  <2>1. CASE f = fd
    <3>1. slots[fd] = NoConn
      BY <1>0, LinksAreNotClients DEF HeldAt
    <3> QED BY <1>0, <1>1, <1>2, <2>1, <3>1, LinksAreNotClients DEF HeldAt
  <2>2. CASE f # fd
    <3>1. f # control /\ f # control'
      BY <2>2, FdsAreNumbers
    <3> QED BY <1>0, <1>1, <1>2, <2>2, <3>1 DEF HeldAt
  <2> QED BY <2>1, <2>2
<1>4. interest[fd] = "none"
  BY <1>0, LinksAreNotClients DEF HeldAt, NoConn
<1>5. \A f \in Fds : interest[f] # "none" => ClientReg(f)' = ClientReg(f)
  BY <1>1, <1>2, <1>4 DEF ClientReg
<1>6. RegisteredIsHeld'
  <2>1. control' # 0 /\ r = Registration("control", control', fds'[control'], "in")
    BY <1>2, FdsAreNumbers
  <2>2. \A q \in registered' :
          \/ q = ListenerReg
          \/ control' # 0 /\ q = Registration("control", control', fds'[control'], "in")
          \/ \E f \in Fds : interest'[f] # "none" /\ q = ClientReg(f)'
    <3> HIDE DEF ListenerReg, ClientReg
    <3> QED BY <1>0, <1>1, <1>5, <2>1 DEF RegisteredIsHeld
  <2>3. ListenerReg \in registered' /\ ready' \subseteq registered'
    BY <1>0 DEF RegisteredIsHeld
  <2>4. \A f \in Fds : interest'[f] # "none" => ClientReg(f)' \in registered'
    BY <1>0, <1>1, <1>5 DEF RegisteredIsHeld
  <2> QED BY <2>2, <2>3, <2>4 DEF RegisteredIsHeld, ListenerReg
<1>7. CountersAgree'
  BY <1>0 DEF CountersAgree
<1> QED BY <1>0, <1>1, <1>2, <1>3, <1>6, <1>7 DEF TableOK, TypeOK

LEMMA AcceptControlHeld ==
  ASSUME HeldInv, NEW e \in batch, AcceptControl(e)
  PROVE  HeldInv'
<1>0. TypeOK /\ BatchIsHeld /\ RegisteredIsHeld
  BY DEF HeldInv
<1>1. /\ batch' \subseteq batch /\ left = -1
      /\ UNCHANGED <<size, tableVars, left, lb, link, socketVars>>
  BY DEF AcceptControl
<1>2. CASE backlog # << >> /\ FreeFds # {} /\ control = 0
  <2> DEFINE fd == Min(FreeFds)
             k  == Head(backlog)
             r  == Registration("control", fd, k, "in")
  <2>1. /\ fds' = [fds EXCEPT ![fd] = k] /\ control' = fd
        /\ backlog' = Tail(backlog) /\ UNCHANGED queue
        /\ registered' = registered \union {r} /\ ready' \subseteq ready \union {r}
    BY <1>2 DEF AcceptControl
  <2>2. k \in Links /\ Tail(backlog) \in Seq(Links)
    BY <1>0, <1>2, HeadTailProperties DEF TypeOK
  <2>3. fd \in Fds /\ fds[fd] = NoFile
    BY <1>0, <1>2, LowestIsFree
  <2> HIDE DEF fd, k
  <2>5. TableOK' /\ \A f \in Fds \ {fd} : fds'[f] = fds[f]
    BY <1>1, <1>2, <2>1, <2>2, <2>3, InstallHeld DEF socketVars
  <2>6. TypeOK'
    BY <1>0, <1>1, <2>1, <2>2, <2>3, <2>5 DEF TypeOK, TableOK, socketVars
  <2>7. \A d \in batch : /\ d.kind # "control"
                         /\ d.kind = "client" => d.fd \in Fds \ {fd}
    BY <1>0, <1>2, <2>3, LinksAreNotClients DEF BatchIsHeld
  <2>8. BatchIsHeld'
    BY <1>0, <1>1, <2>5, <2>7 DEF BatchIsHeld
  <2> QED BY <2>5, <2>6, <2>8 DEF HeldInv, TableOK
<1>3. CASE ~(backlog # << >> /\ FreeFds # {} /\ control = 0)
  <2>1. UNCHANGED <<fds, registered, ready, control>>
    BY <1>3 DEF AcceptControl, epollVars
  <2>2. \/ UNCHANGED <<backlog, queue>>
        \/ /\ backlog' = << >>
           /\ queue' = [k \in Links |-> IF k \in Range(backlog) THEN << >> ELSE queue[k]]
    <3>1. CASE backlog = << >> \/ FreeFds = {}
      BY <3>1 DEF AcceptControl
    <3>2. CASE ~(backlog = << >> \/ FreeFds = {}) /\ control # 0
      BY <3>2 DEF AcceptControl
    <3> QED BY <1>3, <3>1, <3>2
  <2>3. backlog' \in Seq(Links) /\ queue' \in [Links -> Seq(Clients)]
    <3>1. << >> \in Seq(Clients) /\ << >> \in Seq(Links)
      OBVIOUS
    <3>2. backlog \in Seq(Links) /\ queue \in [Links -> Seq(Clients)]
      BY <1>0 DEF TypeOK
    <3>3. [k \in Links |-> IF k \in Range(backlog) THEN << >> ELSE queue[k]]
            \in [Links -> Seq(Clients)]
      BY <3>1, <3>2
    <3> QED BY <2>2, <3>1, <3>2, <3>3
  <2>4. TableOK'
    BY <1>0, <1>1, <2>1, TableUntouched DEF socketVars, RegisteredIsHeld
  <2>5. TypeOK'
    BY <1>0, <1>1, <2>1, <2>3, <2>4 DEF TypeOK, TableOK, socketVars
  <2>6. BatchIsHeld'
    BY <1>0, <1>1, <2>1, BatchKept
  <2> QED BY <2>4, <2>5, <2>6 DEF HeldInv, TableOK
<1> QED BY <1>2, <1>3

LEMMA DrainDoneHeld ==
  ASSUME HeldInv, NEW e \in batch, DrainDone(e)
  PROVE  HeldInv'
<1>0. TypeOK /\ CountersAgree /\ BatchIsHeld /\ RegisteredIsHeld /\ \A f \in Fds : HeldAt(f)
  BY DEF HeldInv
<1>1. /\ e.kind = "control" /\ left # -1 /\ batch' = batch \ {e} /\ left' = -1
      /\ UNCHANGED <<size, tableVars, lb, link, backlog, socketVars>>
  BY DEF DrainDone
<1>2. CASE UNCHANGED <<registered, ready, fds, queue, control>>
  <2>1. TableOK'
    BY <1>0, <1>1, <1>2, TableUntouched DEF socketVars, RegisteredIsHeld
  <2>2. TypeOK'
    BY <1>0, <1>1, <1>2, <2>1 DEF TypeOK, TableOK, socketVars
  <2>3. BatchIsHeld'
    BY <1>0, <1>1, <1>2, BatchKept
  <2> QED BY <2>1, <2>2, <2>3 DEF HeldInv, TableOK
<1>3. CASE ~UNCHANGED <<registered, ready, fds, queue, control>>
  <2>1. /\ registered' = registered \ Of(control, fds[control])
        /\ ready' = ready \ Of(control, fds[control])
        /\ fds' = [fds EXCEPT ![control] = NoFile]
        /\ queue' = [queue EXCEPT ![fds[control]] = << >>]
        /\ control' = 0
    BY <1>3 DEF DrainDone
  <2>2. control \in Fds /\ fds[control] \in Links
    BY <1>1, InFlightClients
  <2>3. UNCHANGED <<slots, interest, pool, taken, wire, sent, end, acked>>
    BY <1>1 DEF tableVars, socketVars
  <2>4. /\ fds' \in [Fds -> Files \union {NoFile}] /\ fds'[control] = NoFile
        /\ \A f \in Fds \ {control} : fds'[f] = fds[f]
    BY <1>0, <2>1, <2>2 DEF TypeOK
  <2>5. ASSUME NEW f \in Fds PROVE HeldAt(f)'
    <3>1. f # 0
      BY FdsAreNumbers
    <3>2. CASE f = control
      BY <1>0, <2>1, <2>2, <2>3, <2>4, <3>1, <3>2, LinksAreNotClients DEF HeldAt
    <3>3. CASE f # control
      BY <1>0, <2>1, <2>3, <2>4, <3>1, <3>3 DEF HeldAt
    <3> QED BY <3>2, <3>3
  <2>6. interest[control] = "none"
    BY <1>0, <2>2, LinksAreNotClients DEF HeldAt, NoConn
  <2>7. \A f \in Fds : interest[f] # "none" => ClientReg(f)' = ClientReg(f)
    BY <2>3, <2>4, <2>6 DEF ClientReg
  <2>8. \A q \in registered' : \/ q = ListenerReg
                               \/ \E f \in Fds : interest[f] # "none" /\ q = ClientReg(f)
    <3>1. Registration("control", control, fds[control], "in") \notin registered'
      BY <2>1 DEF Of, Registration
    <3> QED BY <1>0, <2>1, <3>1 DEF RegisteredIsHeld
  <2>9. \A f \in Fds : interest[f] # "none" => ClientReg(f) \in registered'
    <3>1. \A f \in Fds : interest[f] # "none" => ClientReg(f) \notin Of(control, fds[control])
      BY <2>6 DEF ClientReg, Registration, Of
    <3> QED BY <1>0, <2>1, <3>1 DEF RegisteredIsHeld
  <2>10. ListenerReg \in registered' /\ ready' \subseteq registered'
    <3>1. ListenerReg \notin Of(control, fds[control])
      BY <2>2, FdsAreNumbers DEF ListenerReg, Registration, Of
    <3> QED BY <1>0, <2>1, <3>1 DEF RegisteredIsHeld
  <2>11. RegisteredIsHeld'
    <3>1. ListenerReg' = ListenerReg
      BY DEF ListenerReg, Registration
    <3> HIDE DEF ListenerReg, ClientReg
    <3> QED BY <2>3, <2>7, <2>8, <2>9, <2>10, <3>1 DEF RegisteredIsHeld
  <2>12. CountersAgree'
    BY <1>0, <2>3 DEF CountersAgree
  <2>13. TypeOK'
    BY <1>0, <1>1, <2>1, <2>2, <2>3, <2>4 DEF TypeOK
  <2>14. \A d \in batch' : /\ d.kind # "control"
                           /\ d.kind = "client" => d.fd \in Fds \ {control}
    BY <1>0, <1>1, <2>2, LinksAreNotClients DEF BatchIsHeld
  <2>15. BatchIsHeld'
    BY <1>0, <1>1, <2>4, <2>14 DEF BatchIsHeld
  <2> QED BY <2>5, <2>11, <2>12, <2>13, <2>15 DEF HeldInv
<1> QED BY <1>2, <1>3

LEMMA HeldInit == Init => HeldInv
<1> SUFFICES ASSUME Init PROVE HeldInv
  OBVIOUS
<1>1. Fds \subseteq Nat \ {0}
  BY FdsAreNumbers
<1>2. TypeOK
  BY WorkerAssumption DEF Init, TypeOK, Conn, NoConn
<1>3. CountersAgree
  BY WorkerAssumption DEF Init, CountersAgree
<1>4. ASSUME NEW f \in Fds PROVE HeldAt(f)
  BY <1>1, LinksAreNotClients DEF Init, HeldAt, NoConn
<1>5. RegisteredIsHeld /\ BatchIsHeld
  BY DEF Init, RegisteredIsHeld, BatchIsHeld
<1> QED BY <1>2, <1>3, <1>4, <1>5 DEF HeldInv

LEMMA HeldNext == HeldInv /\ [Next]_vars => HeldInv'
<1> SUFFICES ASSUME HeldInv, [Next]_vars PROVE HeldInv'
  OBVIOUS
<1>1. CASE UNCHANGED vars
  <2>1. UNCHANGED <<size, fds, slots, interest, pool, registered, ready, control, batch, left,
                    lb, link, backlog, queue, sent, end, taken, wire, acked>>
    BY <1>1 DEF vars, tableVars, epollVars, lbVars, socketVars
  <2> QED BY <2>1 DEF HeldInv, TypeOK, CountersAgree, HeldAt, RegisteredIsHeld, BatchIsHeld,
                      ClientReg
<1> QED BY <1>1, EnvironmentHeld, EpollWaitHeld, RecvFdHeld, AcceptControlHeld, ControlEventHeld,
           DrainDoneHeld, ClientEventHeld DEF Next, Worker

(* Numbers, table, registrations and batch agree in every reachable state. *)
THEOREM InductiveInvariant == Spec => []HeldInv
BY HeldInit, HeldNext, PTL DEF Spec

(* Every variable of the loop keeps its type: no more is read than was     *)
(* sent, no more is in a send buffer than fits, and every handler leaves a *)
(* slot it can continue with.                                              *)
THEOREM TypeCorrect == Spec => [](TypeOK /\ CountersAgree)
BY InductiveInvariant, PTL DEF HeldInv

(* No handler of a batch is given an event of a connection that a number   *)
(* named before (evented.rs:90-133).                                       *)
THEOREM NoEventOfAnother == Spec => []EventIsForItsConnection
<1>1. HeldInv => EventIsForItsConnection
  BY DEF HeldInv, BatchIsHeld, EventIsForItsConnection
<1> QED BY <1>1, InductiveInvariant, PTL

(* The table's interests are what the kernel has registered and what the   *)
(* slots wait for (evented.rs:536-542,573-583).                            *)
THEOREM KernelAgrees == Spec => []InterestMatchesKernel
<1>1. HeldInv => InterestMatchesKernel
  <2> SUFFICES ASSUME HeldInv PROVE InterestMatchesKernel
    OBVIOUS
  <2>1. RegisteredIsHeld /\ \A f \in Fds : HeldAt(f)
    BY DEF HeldInv
  <2>2. \A f \in Fds : ClientReg(f).kind = "client"
    BY DEF ClientReg, Registration
  <2>3. ListenerReg.kind # "client" /\ Registration("control", control, fds[control], "in").kind # "client"
    BY DEF ListenerReg, Registration
  <2>4. {r \in registered : r.kind = "client"} =
          {ClientReg(f) : f \in {g \in Fds : interest[g] # "none"}}
    <3> HIDE DEF ClientReg, ListenerReg, Registration
    <3> QED BY <2>1, <2>2, <2>3 DEF RegisteredIsHeld
  <2>5. {ClientReg(f) : f \in {g \in Fds : interest[g] # "none"}} =
          {Registration("client", f, fds[f], interest[f]) : f \in {g \in Fds : interest[g] # "none"}}
    BY DEF ClientReg
  <2> QED BY <2>1, <2>4, <2>5 DEF InterestMatchesKernel, HeldAt
<1> QED BY <1>1, InductiveInvariant, PTL

-----------------------------------------------------------------------------
(* Buffers: each is in the pool or with a connection.                      *)

Occupied == {f \in Fds : slots[f] # NoConn}

LEMMA OccupiedBy ==
  ASSUME TypeOK, NEW fd \in Fds, NEW y, slots' = [slots EXCEPT ![fd] = y]
  PROVE  /\ Cardinality(Occupied) \in Nat /\ Cardinality(Occupied)' \in Nat
         /\ Cardinality(Occupied)' = Cardinality(Occupied)
                                       + (IF y # NoConn THEN 1 ELSE 0)
                                       - (IF slots[fd] # NoConn THEN 1 ELSE 0)
<1>1. slots'[fd] = y /\ \A f \in Fds \ {fd} : slots'[f] = slots[f]
  BY DEF TypeOK
<1> DEFINE rest == Occupied \ {fd}
<1>2. /\ Occupied  = IF slots[fd] # NoConn THEN rest \union {fd} ELSE rest
      /\ Occupied' = IF y # NoConn THEN rest \union {fd} ELSE rest
  BY <1>1 DEF Occupied
<1>3. IsFiniteSet(rest)
  BY FdsAreNumbers, FS_Subset DEF Occupied
<1>4. Cardinality(rest) \in Nat /\ Cardinality(rest \union {fd}) = Cardinality(rest) + 1
  <2>1. fd \notin rest
    OBVIOUS
  <2> HIDE DEF rest
  <2> QED BY <1>3, <2>1, FS_AddElement, FS_CardinalityType
<1> HIDE DEF rest
<1>5. Cardinality(Occupied) = Cardinality(rest) + (IF slots[fd] # NoConn THEN 1 ELSE 0)
  BY <1>2, <1>4
<1>6. Cardinality(Occupied)' = Cardinality(rest) + (IF y # NoConn THEN 1 ELSE 0)
  BY <1>2, <1>4
<1> QED BY <1>4, <1>5, <1>6

LEMMA SettleBuffers ==
  ASSUME HeldInv, BuffersKept, NEW fd \in Fds, NEW c, NEW o, NEW t, NEW p \in Nat,
         Settle(fd, c, o, t, p),
         \/ slots[fd] # NoConn /\ p = pool
         \/ slots[fd] = NoConn /\ p = AllocBuf
  PROVE  BuffersKept'
<1>1. TypeOK /\ pool \in Nat /\ BufPoolCap \in Nat \ {0}
  BY WorkerAssumption DEF HeldInv, TypeOK
<1>2. /\ slots' = [slots EXCEPT ![fd] = o.conn]
      /\ pool' = IF o.conn = NoConn THEN RecycleBuf(p) ELSE p
  BY DEF Settle
<1> DEFINE held  == Cardinality(Occupied)
           held1 == Cardinality(Occupied')
<1>3. pool + held >= BufPoolCap
  BY DEF BuffersKept, Occupied
<1>4. /\ held \in Nat /\ held1 \in Nat
      /\ held1 = held + (IF o.conn # NoConn THEN 1 ELSE 0) - (IF slots[fd] # NoConn THEN 1 ELSE 0)
  BY <1>1, <1>2, OccupiedBy
<1> HIDE DEF held, held1
<1>5. pool' + held1 >= BufPoolCap
  <2>1. CASE slots[fd] # NoConn
    BY <1>1, <1>2, <1>3, <1>4, <2>1, RecycledBuffer
  <2>2. CASE slots[fd] = NoConn
    <3>1. p \in Nat /\ p >= pool - 1
      BY <1>1, <2>2 DEF AllocBuf
    <3> QED BY <1>1, <1>2, <1>3, <1>4, <2>2, <3>1, RecycledBuffer
  <2> QED BY <2>1, <2>2
<1> QED BY <1>5 DEF BuffersKept, Occupied, held1

LEMMA CloseBuffers ==
  ASSUME HeldInv, BuffersKept, NEW fd \in Fds, CloseConn(fd)
  PROVE  BuffersKept'
<1>1. TypeOK /\ pool \in Nat /\ BufPoolCap \in Nat \ {0}
  BY WorkerAssumption DEF HeldInv, TypeOK
<1>2. /\ slots' = [slots EXCEPT ![fd] = NoConn]
      /\ pool' = IF slots[fd] = NoConn THEN pool ELSE RecycleBuf(pool)
  BY DEF CloseConn
<1> DEFINE held  == Cardinality(Occupied)
           held1 == Cardinality(Occupied')
<1>3. pool + held >= BufPoolCap
  BY DEF BuffersKept, Occupied
<1>4. /\ held \in Nat /\ held1 \in Nat
      /\ held1 = held - (IF slots[fd] # NoConn THEN 1 ELSE 0)
  <2>1. PICK y : y = NoConn
    OBVIOUS
  <2>2. /\ held \in Nat /\ held1 \in Nat
        /\ held1 = held + (IF y # NoConn THEN 1 ELSE 0) - (IF slots[fd] # NoConn THEN 1 ELSE 0)
    BY <1>1, <1>2, <2>1, OccupiedBy
  <2> HIDE DEF held, held1
  <2> QED BY <2>1, <2>2
<1> HIDE DEF held, held1
<1>5. pool' + held1 >= BufPoolCap
  BY <1>1, <1>2, <1>3, <1>4, RecycledBuffer
<1> QED BY <1>5 DEF BuffersKept, Occupied, held1

LEMMA BuffersNext == HeldInv /\ BuffersKept /\ [Next]_vars => BuffersKept'
<1> SUFFICES ASSUME HeldInv, BuffersKept, [Next]_vars PROVE BuffersKept'
  OBVIOUS
<1>0. TypeOK /\ BatchIsHeld /\ \A f \in Fds : HeldAt(f)
  BY DEF HeldInv
<1>1. CASE UNCHANGED tableVars
  <2>1. UNCHANGED <<slots, pool>>
    BY <1>1 DEF tableVars
  <2> QED BY <2>1 DEF BuffersKept
<1>2. CASE RecvFd
  <2> DEFINE fd == Min(FreeFds)
             c  == Head(InFlight)
  <2>1. fd \in Fds /\ fds[fd] = NoFile /\ OnNewClientFd(fd, c)
    BY <1>0, <1>2, LowestIsFree DEF RecvFd
  <2>2. slots[fd] = NoConn
    BY <1>0, <2>1, LinksAreNotClients DEF HeldAt
  <2> HIDE DEF fd, c
  <2>3. AllocBuf \in Nat
    BY <1>0 DEF AllocBuf, TypeOK
  <2>4. CASE Settle(fd, c, GreedyRead(c, 0), sent[c], AllocBuf)
    <3>1. PICK o : o = GreedyRead(c, 0)
      OBVIOUS
    <3> QED BY <2>1, <2>2, <2>3, <2>4, <3>1, SettleBuffers
  <2> QED BY <1>1, <2>1, <2>4 DEF OnNewClientFd
<1>3. ASSUME NEW e \in batch, ClientEvent(e) PROVE BuffersKept'
  <2>1. e.fd \in Fds /\ fds[e.fd] \in Clients
    BY <1>0, <1>3 DEF BatchIsHeld, ClientEvent
  <2> DEFINE s == slots[e.fd]
             c == fds[e.fd]
  <2>2. s # NoConn /\ pool \in Nat
    BY <1>0, <2>1 DEF HeldAt, TypeOK
  <2>3. CASE CloseConn(e.fd)
    BY <2>1, <2>3, CloseBuffers
  <2>4. CASE OnReadable(e.fd) /\ s.state = "reading"
    <3>1. PICK o : o = GreedyRead(c, s.used)
      OBVIOUS
    <3>2. Settle(e.fd, c, o, sent[c], pool)
      BY <2>4, <3>1 DEF OnReadable
    <3> QED BY <2>1, <2>2, <3>2, SettleBuffers
  <2>5. CASE OnWritable(e.fd) /\ s.state = "writing"
    <3>1. PICK o : o = FinishWrite(c, s.pending, s.used, s.keep)
      OBVIOUS
    <3>2. Settle(e.fd, c, o, taken[c], pool)
      BY <2>5, <3>1 DEF OnWritable
    <3> QED BY <2>1, <2>2, <3>2, SettleBuffers
  <2> QED BY <1>1, <1>3, <2>3, <2>4, <2>5 DEF ClientEvent, OnReadable, OnWritable
<1>4. CASE Environment
  BY <1>1, <1>4 DEF Environment, ClientSend, ClientShutdown, ClientReset, ClientReceive, LbConnect,
                    LbSend, LbClosePeer
<1>5. CASE EpollWait
  BY <1>1, <1>5 DEF EpollWait
<1>6. ASSUME NEW e \in batch, AcceptControl(e) \/ ControlEvent(e) \/ DrainDone(e)
      PROVE  BuffersKept'
  BY <1>1, <1>6 DEF AcceptControl, ControlEvent, DrainDone
<1>7. CASE UNCHANGED vars
  BY <1>1, <1>7 DEF vars
<1> QED BY <1>2, <1>3, <1>4, <1>5, <1>6, <1>7 DEF Next, Worker

(* What the worker has open is the control connection or in the table, and *)
(* no handler loses a buffer (conn.rs:58-70, evented.rs:536-549).          *)
THEOREM NothingIsLeaked == Spec => []NothingLeaks
<1>1. Init => BuffersKept
  <2> SUFFICES ASSUME Init PROVE BuffersKept
    OBVIOUS
  <2>1. slots = [f \in Fds |-> NoConn] /\ pool = BufPoolCap
    BY DEF Init
  <2>2. Occupied = {}
    BY <2>1 DEF Occupied
  <2>3. Cardinality(Occupied) = 0
    BY <2>2, FS_EmptySet
  <2> QED BY <2>1, <2>3, WorkerAssumption DEF BuffersKept, Occupied
<1>2. Spec => []BuffersKept
  BY <1>1, BuffersNext, InductiveInvariant, PTL DEF Spec
<1>3. HeldInv /\ BuffersKept => NothingLeaks
  <2> SUFFICES ASSUME HeldInv, BuffersKept PROVE NothingLeaks
    OBVIOUS
  <2>1. ASSUME NEW f \in Fds PROVE fds[f] # NoFile <=> f = control \/ slots[f] # NoConn
    <3>1. fds[f] \in Files \union {NoFile} /\ HeldAt(f)
      BY DEF HeldInv, TypeOK
    <3> QED BY <3>1, LinksAreNotClients DEF HeldAt, Files
  <2> QED BY <2>1 DEF NothingLeaks, BuffersKept
<1> QED BY <1>2, <1>3, InductiveInvariant, PTL

=============================================================================
