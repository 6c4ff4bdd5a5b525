-------------------------- MODULE ReadinessProofs --------------------------
(***************************************************************************)
(* Theorems about Readiness, for any number of threads and warm-up workers. *)
(***************************************************************************)
EXTENDS Readiness, TLAPS

TypeOK ==
  /\ accept \in BOOLEAN
  /\ ready \in BOOLEAN
  /\ late \in BOOLEAN
  /\ warmup \in {"off", "warming", "joined", "cleared", "done"}
  /\ warmer \in [Warmers -> {"connecting", "waiting", "reconnecting", "retrying", "ended"}]
  /\ unread \in [Warmers -> Nat]
  /\ strays \in [Warmers -> Nat]
  /\ timedOut \subseteq Warmers
  /\ thread \in [Threads -> {"starting", "idle", "asked", "notready", "served", "refused"}]
  /\ asks \in [Threads -> Paths]
  /\ from \in [Threads -> Warmers \cup {NoWarmer}]
  /\ forgotten \subseteq Threads
  /\ askedReady \in [Threads -> BOOLEAN]

(* The flags are what the warm-up thread has made of them.                 *)
FlagsFollowWarmup ==
  /\ accept <=> warmup \in {"warming", "joined"}
  /\ ready <=> warmup \in {"off", "done"}

(* What a thread knows from its loads is still true: ready is never        *)
(* cleared.                                                                *)
LoadsHold ==
  \A t \in Threads :
    /\ askedReady[t] => ready
    /\ thread[t] = "notready" =>
         asks[t] = "/fraud-score" /\ ~askedReady[t] /\ warmup # "off"
    /\ thread[t] = "served" /\ asks[t] = "/ready" => ready

(* A warm-up worker that never waited in vain has at most one request out, *)
(* for whose answer it waits: with a thread, or not read by any.           *)
OneRequestOut(w) ==
  /\ strays[w] = 0
  /\ warmer[w] \in {"connecting", "waiting", "ended"}
  /\ unread[w] # 0 => unread[w] = 1 /\ warmer[w] = "waiting"
  /\ \A t \in Threads : from[t] = w =>
       /\ t \notin forgotten /\ warmer[w] = "waiting" /\ unread[w] = 0
       /\ \A u \in Threads : from[u] = w => u = t

PatientWorkers == \A w \in Warmers : w \notin timedOut => OneRequestOut(w)

(* What this process has of the connection of a warm-up worker, the worker *)
(* waits for.                                                              *)
HeldIsAwaited == \A w \in Warmers : IsHere(w) => Waits(w)

ForgottenAreWarmers == \A t \in forgotten : from[t] \in Warmers

IdleIsFree == \A t \in Threads : thread[t] \in {"starting", "idle"} => from[t] = NoWarmer

JoinedAll == warmup # "warming" => \A w \in Warmers : warmer[w] = "ended"

IInv ==
  /\ TypeOK /\ FlagsFollowWarmup /\ LoadsHold /\ PatientWorkers /\ JoinedAll
  /\ HeldIsAwaited /\ ForgottenAreWarmers /\ IdleIsFree
  /\ RefusedOnlyInSwitch

-----------------------------------------------------------------------------
LEMMA InitEstablishes == Init => IInv
<1> SUFFICES ASSUME Init PROVE IInv
  OBVIOUS
<1> USE ReadinessAssumption DEF Init
<1>1. TypeOK
  BY DEF TypeOK, Paths
<1>2. FlagsFollowWarmup
  BY DEF FlagsFollowWarmup
<1>3. LoadsHold
  BY DEF LoadsHold
<1>4. PatientWorkers
  BY DEF PatientWorkers, OneRequestOut
<1>5. JoinedAll
  BY DEF JoinedAll
<1>6. RefusedOnlyInSwitch
  BY DEF RefusedOnlyInSwitch
<1>7. HeldIsAwaited /\ ForgottenAreWarmers /\ IdleIsFree
  BY DEF HeldIsAwaited, IsHere, Serves, ForgottenAreWarmers, IdleIsFree
<1> QED BY <1>1, <1>2, <1>3, <1>4, <1>5, <1>6, <1>7 DEF IInv

(* The warm-up thread and the clock: ready and accept change, in this      *)
(* order, after every warm-up worker has ended.                            *)
LEMMA WarmupPreserves ==
  ASSUME IInv, WarmupThread \/ Deadline
  PROVE  IInv'
<1> USE DEF IInv, TypeOK, FlagsFollowWarmup, LoadsHold, PatientWorkers, OneRequestOut, JoinedAll
<1> USE DEF HeldIsAwaited, IsHere, Serves, Waits, ForgottenAreWarmers, IdleIsFree
<1> USE DEF RefusedOnlyInSwitch, Paths, threadVars, flagVars, warmupVars, sentVars
<1>1. CASE Join
  BY <1>1 DEF Join
<1>2. CASE ClearAccept
  <2>1. /\ warmup = "joined" /\ accept' = FALSE /\ warmup' = "cleared"
        /\ UNCHANGED <<ready, late, warmer, unread, strays, timedOut>>
        /\ UNCHANGED <<thread, asks, from, forgotten, askedReady>>
    BY <1>2 DEF ClearAccept
  <2>2. FlagsFollowWarmup' /\ TypeOK'
    BY <2>1
  <2>3. LoadsHold'
    BY <2>1
  <2>4. PatientWorkers' /\ JoinedAll'
    BY <2>1
  <2>5. HeldIsAwaited' /\ ForgottenAreWarmers' /\ IdleIsFree'
    BY <2>1
  <2>6. RefusedOnlyInSwitch'
    BY <2>1
  <2> QED BY <2>2, <2>3, <2>4, <2>5, <2>6
<1>3. CASE SetReady
  BY <1>3 DEF SetReady
<1>4. CASE Deadline
  BY <1>4 DEF Deadline
<1> QED BY <1>1, <1>2, <1>3, <1>4 DEF WarmupThread

(* A dropped connection leaves something behind only if more was out than  *)
(* is answered.                                                            *)
LEMMA DropLeaves ==
  ASSUME IInv, NEW w \in Warmers, Drop(w), from' \in [Threads -> Warmers \cup {NoWarmer}]
  PROVE  /\ unread' \in [Warmers -> Nat] /\ strays' \in [Warmers -> Nat]
         /\ forgotten' \subseteq Threads
         /\ unread'[w] = 0 /\ (strays[w] = 0 /\ unread[w] = 0 => strays'[w] = 0)
         /\ \A v \in Warmers \ {w} : unread'[v] = unread[v] /\ strays'[v] = strays[v]
         /\ \A t \in Threads : t \in forgotten' <=> t \in forgotten \/ from'[t] = w
<1>1. unread \in [Warmers -> Nat] /\ strays \in [Warmers -> Nat] /\ forgotten \subseteq Threads
  BY DEF IInv, TypeOK
<1>2. PICK n \in strays[w] .. strays[w] + unread[w] : strays' = [strays EXCEPT ![w] = n]
  BY DEF Drop
<1>3. n \in Nat /\ (strays[w] = 0 /\ unread[w] = 0 => n = 0)
  BY <1>1, <1>2
<1>4. /\ unread' = [unread EXCEPT ![w] = 0]
      /\ forgotten' = forgotten \cup {t \in Threads : from'[t] = w}
  BY DEF Drop
<1> QED BY <1>1, <1>2, <1>3, <1>4

(* What a step says of w's requests when w has sent another or dropped its *)
(* connection: whether or not it is late.                                  *)
LEMMA GoOnLeaves ==
  ASSUME IInv, NEW w \in Warmers, Waits(w), NEW more \in {0, 1}, GoOn(w, more),
         from' \in [Threads -> Warmers \cup {NoWarmer}]
  PROVE  /\ unread' \in [Warmers -> Nat] /\ strays' \in [Warmers -> Nat]
         /\ forgotten' \subseteq Threads
         /\ warmer' = [warmer EXCEPT ![w] = IF late THEN "ended" ELSE "waiting"]
         /\ late => /\ unread'[w] = 0 /\ (strays[w] = 0 /\ unread[w] = 0 => strays'[w] = 0)
                    /\ \A t \in Threads : t \in forgotten' <=> t \in forgotten \/ from'[t] = w
         /\ ~late => unread'[w] = unread[w] + more /\ strays' = strays /\ forgotten' = forgotten
         /\ \A v \in Warmers \ {w} : unread'[v] = unread[v] /\ strays'[v] = strays[v]
<1>1. /\ unread \in [Warmers -> Nat] /\ strays \in [Warmers -> Nat] /\ forgotten \subseteq Threads
  BY DEF IInv, TypeOK
<1>2. CASE late
  <2>1. Drop(w) /\ warmer' = [warmer EXCEPT ![w] = "ended"]
    BY <1>2 DEF GoOn
  <2> QED BY <1>2, <2>1, DropLeaves
<1>3. CASE ~late
  BY <1>1, <1>3 DEF GoOn
<1> QED BY <1>2, <1>3

(* A warm-up worker.                                                       *)
LEMMA WarmerPreserves ==
  ASSUME IInv, NEW w \in Warmers, WarmerStep(w) \/ AnsweredElsewhere(w)
  PROVE  IInv'
<1> USE ReadinessAssumption
<1>1. /\ TypeOK /\ FlagsFollowWarmup /\ LoadsHold /\ PatientWorkers /\ JoinedAll
      /\ HeldIsAwaited /\ ForgottenAreWarmers /\ IdleIsFree /\ RefusedOnlyInSwitch
  BY DEF IInv
<1>2. /\ UNCHANGED <<accept, ready, warmup, late, thread, asks, from, askedReady>>
      /\ from' \in [Threads -> Warmers \cup {NoWarmer}]
  <2>1. UNCHANGED <<accept, ready, warmup, late, thread, asks, from, askedReady>>
    BY DEF WarmerStep, AnsweredElsewhere, Connect, GiveUp, Timeout, flagVars, sentVars, threadVars
  <2> QED BY <1>1, <2>1 DEF TypeOK
<1>3. FlagsFollowWarmup' /\ LoadsHold' /\ IdleIsFree' /\ RefusedOnlyInSwitch'
  BY <1>1, <1>2 DEF FlagsFollowWarmup, LoadsHold, IdleIsFree, RefusedOnlyInSwitch
<1>4. warmer[w] # "ended"
  <2>1. warmer[w] \in {"connecting", "reconnecting", "waiting", "retrying"}
    BY DEF WarmerStep, AnsweredElsewhere, Connect, GiveUp, Timeout, Waits
  <2> QED BY <2>1
<1>5. \E s \in {"connecting", "waiting", "reconnecting", "retrying", "ended"} :
        warmer' = [warmer EXCEPT ![w] = s]
  BY DEF WarmerStep, AnsweredElsewhere, Connect, GiveUp, Timeout, GoOn
<1>6. JoinedAll'
  BY <1>1, <1>2, <1>4 DEF JoinedAll
<1>7. CASE Connect(w)
  <2>1. PICK n \in {0, 1} : unread' = [unread EXCEPT ![w] = n]
    BY <1>7 DEF Connect
  <2>2. /\ UNCHANGED <<strays, timedOut, forgotten>> /\ ~late
        /\ warmer[w] \in {"connecting", "reconnecting"}
        /\ warmer' = [warmer EXCEPT ![w] =
             IF PayloadFile /\ warmer[w] = "reconnecting" THEN "retrying" ELSE "waiting"]
    BY <1>7 DEF Connect, threadVars
  <2>3. TypeOK'
    BY <1>1, <1>2, <2>1, <2>2 DEF TypeOK
  <2>4. PatientWorkers'
    BY <1>1, <1>2, <2>1, <2>2 DEF PatientWorkers, OneRequestOut, TypeOK
  <2>5. HeldIsAwaited' /\ ForgottenAreWarmers'
    BY <1>1, <1>2, <2>1, <2>2 DEF HeldIsAwaited, IsHere, Serves, Waits, TypeOK, ForgottenAreWarmers
  <2> QED BY <1>3, <1>6, <2>3, <2>4, <2>5 DEF IInv
<1>8. CASE GiveUp(w)
  <2>1. /\ UNCHANGED <<unread, strays, timedOut, forgotten>>
        /\ warmer[w] \in {"connecting", "reconnecting"}
        /\ warmer' = [warmer EXCEPT ![w] = "ended"]
    BY <1>8 DEF GiveUp, threadVars, sentVars
  <2>2. TypeOK'
    BY <1>1, <1>2, <2>1 DEF TypeOK
  <2>3. PatientWorkers'
    BY <1>1, <1>2, <2>1 DEF PatientWorkers, OneRequestOut, TypeOK
  <2>4. HeldIsAwaited' /\ ForgottenAreWarmers'
    BY <1>1, <1>2, <2>1 DEF HeldIsAwaited, IsHere, Serves, Waits, TypeOK, ForgottenAreWarmers
  <2> QED BY <1>3, <1>6, <2>2, <2>3, <2>4 DEF IInv
<1>9. CASE Timeout(w)
  <2>1. timedOut' = timedOut \cup {w}
    BY <1>9 DEF Timeout
  <2>2. CASE warmer[w] = "waiting" /\ warmer' = [warmer EXCEPT ![w] = "reconnecting"] /\ Drop(w)
    <3>1. /\ unread' \in [Warmers -> Nat] /\ strays' \in [Warmers -> Nat]
          /\ forgotten' \subseteq Threads /\ unread'[w] = 0
          /\ \A v \in Warmers \ {w} : unread'[v] = unread[v] /\ strays'[v] = strays[v]
          /\ \A t \in Threads : t \in forgotten' <=> t \in forgotten \/ from'[t] = w
      BY <1>2, <2>2, DropLeaves
    <3>2. TypeOK'
      BY <1>1, <1>2, <2>1, <2>2, <3>1 DEF TypeOK
    <3>3. PatientWorkers'
      BY <1>1, <1>2, <2>1, <2>2, <3>1 DEF PatientWorkers, OneRequestOut, TypeOK
    <3>4. HeldIsAwaited' /\ ForgottenAreWarmers'
      BY <1>1, <1>2, <2>2, <3>1 DEF HeldIsAwaited, IsHere, Serves, Waits, TypeOK, ForgottenAreWarmers
    <3> QED BY <1>3, <1>6, <3>2, <3>3, <3>4 DEF IInv
  <2>3. CASE warmer[w] = "retrying" /\ GoOn(w, IF IsHere(w) THEN 1 ELSE 0)
    <3>1. PICK more \in {0, 1} : more = IF IsHere(w) THEN 1 ELSE 0
      OBVIOUS
    <3>2. GoOn(w, more) /\ Waits(w)
      BY <2>3, <3>1 DEF Waits
    <3>3. /\ unread' \in [Warmers -> Nat] /\ strays' \in [Warmers -> Nat]
          /\ forgotten' \subseteq Threads
          /\ warmer' = [warmer EXCEPT ![w] = IF late THEN "ended" ELSE "waiting"]
          /\ late => /\ unread'[w] = 0
                     /\ \A t \in Threads : t \in forgotten' <=> t \in forgotten \/ from'[t] = w
          /\ ~late => unread'[w] = unread[w] + more /\ strays' = strays /\ forgotten' = forgotten
          /\ \A v \in Warmers \ {w} : unread'[v] = unread[v] /\ strays'[v] = strays[v]
      BY <1>2, <3>2, GoOnLeaves
    <3>4. TypeOK'
      BY <1>1, <1>2, <2>1, <3>3 DEF TypeOK
    <3>5. PatientWorkers'
      <4>1. CASE late
        BY <1>1, <1>2, <2>1, <3>3, <4>1 DEF PatientWorkers, OneRequestOut, TypeOK
      <4>2. CASE ~late
        BY <1>1, <1>2, <2>1, <3>3, <4>2 DEF PatientWorkers, OneRequestOut, TypeOK
      <4> QED BY <4>1, <4>2
    <3>6. HeldIsAwaited' /\ ForgottenAreWarmers'
      <4>1. CASE late
        BY <1>1, <1>2, <3>3, <4>1 DEF HeldIsAwaited, IsHere, Serves, Waits, TypeOK, ForgottenAreWarmers
      <4>2. CASE ~late
        BY <1>1, <1>2, <3>3, <4>2 DEF HeldIsAwaited, IsHere, Serves, Waits, TypeOK, ForgottenAreWarmers
      <4> QED BY <4>1, <4>2
    <3> QED BY <1>3, <1>6, <3>4, <3>5, <3>6 DEF IInv
  <2> QED BY <1>9, <2>2, <2>3 DEF Timeout
<1>10. CASE AnsweredElsewhere(w)
  <2>1. GoOn(w, 0) /\ Waits(w) /\ ~IsHere(w) /\ timedOut' = timedOut /\ 0 \in {0, 1}
    BY <1>10 DEF AnsweredElsewhere
  <2>2. /\ unread' \in [Warmers -> Nat] /\ strays' \in [Warmers -> Nat]
        /\ forgotten' \subseteq Threads
        /\ warmer' = [warmer EXCEPT ![w] = IF late THEN "ended" ELSE "waiting"]
        /\ late => /\ unread'[w] = 0 /\ (strays[w] = 0 /\ unread[w] = 0 => strays'[w] = 0)
                   /\ \A t \in Threads : t \in forgotten' <=> t \in forgotten \/ from'[t] = w
        /\ ~late => unread'[w] = unread[w] + 0 /\ strays' = strays /\ forgotten' = forgotten
        /\ \A v \in Warmers \ {w} : unread'[v] = unread[v] /\ strays'[v] = strays[v]
    BY <1>2, <2>1, GoOnLeaves
  <2>3. unread[w] = 0 /\ \A t \in Threads : from[t] = w => t \in forgotten
    BY <1>1, <2>1 DEF IsHere, Serves, TypeOK
  <2>4. TypeOK'
    BY <1>1, <1>2, <2>1, <2>2 DEF TypeOK
  <2>5. PatientWorkers'
    <3>1. CASE late
      BY <1>1, <1>2, <2>1, <2>2, <2>3, <3>1 DEF PatientWorkers, OneRequestOut, TypeOK
    <3>2. CASE ~late
      BY <1>1, <1>2, <2>1, <2>2, <2>3, <3>2 DEF PatientWorkers, OneRequestOut, TypeOK
    <3> QED BY <3>1, <3>2
  <2>6. HeldIsAwaited' /\ ForgottenAreWarmers'
    <3>1. CASE late
      BY <1>1, <1>2, <2>2, <3>1 DEF HeldIsAwaited, IsHere, Serves, Waits, TypeOK, ForgottenAreWarmers
    <3>2. CASE ~late
      BY <1>1, <1>2, <2>2, <3>2 DEF HeldIsAwaited, IsHere, Serves, Waits, TypeOK, ForgottenAreWarmers
    <3> QED BY <3>1, <3>2
  <2> QED BY <1>3, <1>6, <2>4, <2>5, <2>6 DEF IInv
<1> QED BY <1>7, <1>8, <1>9, <1>10 DEF WarmerStep

(* A thread with its request.                                              *)
LEMMA ThreadPreserves ==
  ASSUME IInv, NEW t \in Threads, Serve(t) \/ AskByClient(t) \/ AskByWarmer(t) \/ AskByStray(t)
  PROVE  IInv'
<1> USE ReadinessAssumption
<1>1. /\ TypeOK /\ FlagsFollowWarmup /\ LoadsHold /\ PatientWorkers /\ JoinedAll
      /\ HeldIsAwaited /\ ForgottenAreWarmers /\ IdleIsFree /\ RefusedOnlyInSwitch
  BY DEF IInv
<1> USE DEF flagVars, warmupVars, sentVars, Paths
<1>2. ASSUME UNCHANGED <<warmup, warmer, sentVars, from, forgotten>>
      PROVE  PatientWorkers' /\ JoinedAll' /\ HeldIsAwaited' /\ ForgottenAreWarmers'
  BY <1>1, <1>2 DEF PatientWorkers, OneRequestOut, JoinedAll, HeldIsAwaited, IsHere, Serves, Waits,
                    ForgottenAreWarmers
<1>3. CASE Listen(t)
  <2>1. TypeOK' /\ FlagsFollowWarmup' /\ LoadsHold' /\ IdleIsFree' /\ RefusedOnlyInSwitch'
    BY <1>1, <1>3 DEF Listen, TypeOK, FlagsFollowWarmup, LoadsHold, IdleIsFree, RefusedOnlyInSwitch
  <2> QED BY <1>2, <1>3, <2>1 DEF Listen, IInv
<1>4. CASE LoadReady(t)
  <2>1. TypeOK' /\ FlagsFollowWarmup' /\ LoadsHold' /\ IdleIsFree' /\ RefusedOnlyInSwitch'
    BY <1>1, <1>4 DEF LoadReady, TypeOK, FlagsFollowWarmup, LoadsHold, IdleIsFree, RefusedOnlyInSwitch
  <2> QED BY <1>2, <1>4, <2>1 DEF LoadReady, IInv
<1>5. CASE LoadAccept(t)
  <2>1. TypeOK' /\ FlagsFollowWarmup' /\ LoadsHold' /\ IdleIsFree' /\ RefusedOnlyInSwitch'
    BY <1>1, <1>5 DEF LoadAccept, TypeOK, FlagsFollowWarmup, LoadsHold, IdleIsFree, RefusedOnlyInSwitch
  <2> QED BY <1>2, <1>5, <2>1 DEF LoadAccept, IInv
<1>6. CASE Reply(t)
  <2>1. /\ thread[t] \in {"served", "refused"} /\ thread' = [thread EXCEPT ![t] = "idle"]
        /\ from' = [from EXCEPT ![t] = NoWarmer]
        /\ UNCHANGED <<accept, ready, warmup, late, timedOut, asks, askedReady>>
    BY <1>6 DEF Reply
  <2>2. from' \in [Threads -> Warmers \cup {NoWarmer}]
    BY <1>1, <2>1 DEF TypeOK
  <2>3. FlagsFollowWarmup' /\ LoadsHold' /\ IdleIsFree' /\ RefusedOnlyInSwitch'
    BY <1>1, <2>1 DEF FlagsFollowWarmup, LoadsHold, IdleIsFree, RefusedOnlyInSwitch, TypeOK
  <2>4. CASE from[t] \in Warmers /\ t \notin forgotten
    <3>1. PICK w \in Warmers : w = from[t]
      BY <2>4
    <3>2. IsHere(w) /\ Waits(w)
      BY <1>1, <2>4, <3>1 DEF IsHere, Serves, HeldIsAwaited
    <3>3. GoOn(w, 1) /\ 1 \in {0, 1}
      BY <1>6, <2>4, <3>1 DEF Reply
    <3>4. /\ unread' \in [Warmers -> Nat] /\ strays' \in [Warmers -> Nat]
          /\ forgotten' \subseteq Threads
          /\ warmer' = [warmer EXCEPT ![w] = IF late THEN "ended" ELSE "waiting"]
          /\ late => /\ unread'[w] = 0 /\ (strays[w] = 0 /\ unread[w] = 0 => strays'[w] = 0)
                     /\ \A u \in Threads : u \in forgotten' <=> u \in forgotten \/ from'[u] = w
          /\ ~late => unread'[w] = unread[w] + 1 /\ strays' = strays /\ forgotten' = forgotten
          /\ \A v \in Warmers \ {w} : unread'[v] = unread[v] /\ strays'[v] = strays[v]
      BY <2>2, <3>2, <3>3, GoOnLeaves
    <3>5. TypeOK'
      BY <1>1, <2>1, <2>2, <3>4 DEF TypeOK
    <3>6. PatientWorkers'
      <4>1. CASE late
        BY <1>1, <2>1, <2>4, <3>1, <3>4, <4>1 DEF PatientWorkers, OneRequestOut, TypeOK
      <4>2. CASE ~late
        BY <1>1, <2>1, <2>4, <3>1, <3>4, <4>2 DEF PatientWorkers, OneRequestOut, TypeOK
      <4> QED BY <4>1, <4>2
    <3>7. JoinedAll'
      BY <1>1, <2>1, <3>2 DEF JoinedAll, Waits
    <3>8. HeldIsAwaited' /\ ForgottenAreWarmers'
      <4>1. CASE late
        BY <1>1, <2>1, <2>4, <3>1, <3>4, <4>1
           DEF HeldIsAwaited, IsHere, Serves, Waits, TypeOK, ForgottenAreWarmers
      <4>2. CASE ~late
        BY <1>1, <2>1, <2>4, <3>1, <3>4, <4>2
           DEF HeldIsAwaited, IsHere, Serves, Waits, TypeOK, ForgottenAreWarmers
      <4> QED BY <4>1, <4>2
    <3> QED BY <2>3, <3>5, <3>6, <3>7, <3>8 DEF IInv
  <2>5. CASE ~(from[t] \in Warmers /\ t \notin forgotten)
    <3>1. forgotten' = forgotten \ {t} /\ UNCHANGED <<warmer, unread, strays>>
      BY <1>6, <2>5 DEF Reply
    <3>2. TypeOK'
      BY <1>1, <2>1, <2>2, <3>1 DEF TypeOK
    <3>3. PatientWorkers' /\ JoinedAll'
      BY <1>1, <2>1, <3>1 DEF PatientWorkers, OneRequestOut, JoinedAll, TypeOK
    <3>4. HeldIsAwaited' /\ ForgottenAreWarmers'
      BY <1>1, <2>1, <2>5, <3>1 DEF HeldIsAwaited, IsHere, Serves, Waits, TypeOK, ForgottenAreWarmers
    <3> QED BY <2>3, <3>2, <3>3, <3>4 DEF IInv
  <2> QED BY <2>4, <2>5
<1>7. ASSUME NEW path \in Paths, NEW w \in Warmers \cup {NoWarmer}, Ask(t, path, w)
      PROVE  /\ FlagsFollowWarmup' /\ LoadsHold' /\ IdleIsFree' /\ RefusedOnlyInSwitch' /\ JoinedAll'
             /\ thread' \in [Threads -> {"starting", "idle", "asked", "notready", "served", "refused"}]
             /\ asks' \in [Threads -> Paths] /\ from' \in [Threads -> Warmers \cup {NoWarmer}]
             /\ askedReady' \in [Threads -> BOOLEAN]
             /\ UNCHANGED <<accept, ready, warmup, late, warmer, timedOut>>
             /\ from' = [from EXCEPT ![t] = w] /\ from[t] = NoWarmer /\ t \notin forgotten
  <2>1. UNCHANGED <<accept, ready, warmup, late, warmer, timedOut>> /\ thread[t] = "idle"
    BY <1>7 DEF Ask
  <2>2. from[t] = NoWarmer /\ t \notin forgotten
    BY <1>1, <2>1 DEF IdleIsFree, ForgottenAreWarmers
  <2>3. /\ thread' \in [Threads -> {"starting", "idle", "asked", "notready", "served", "refused"}]
        /\ asks' \in [Threads -> Paths] /\ from' \in [Threads -> Warmers \cup {NoWarmer}]
        /\ askedReady' \in [Threads -> BOOLEAN]
    BY <1>1, <1>7 DEF Ask, TypeOK
  <2>4. FlagsFollowWarmup' /\ JoinedAll'
    BY <1>1, <2>1 DEF FlagsFollowWarmup, JoinedAll
  <2>5. LoadsHold' /\ IdleIsFree' /\ RefusedOnlyInSwitch'
    BY <1>1, <1>7 DEF Ask, LoadsHold, IdleIsFree, RefusedOnlyInSwitch, TypeOK
  <2> QED BY <1>7, <2>1, <2>2, <2>3, <2>4, <2>5 DEF Ask
<1>8. CASE AskByClient(t)
  <2>1. PICK path \in Paths : Ask(t, path, NoWarmer)
    BY <1>8 DEF AskByClient
  <2>2. UNCHANGED <<unread, strays, forgotten>>
    BY <1>8 DEF AskByClient
  <2>3. TypeOK'
    BY <1>1, <1>7, <2>1, <2>2 DEF TypeOK
  <2>4. PatientWorkers'
    BY <1>1, <1>7, <2>1, <2>2 DEF PatientWorkers, OneRequestOut, TypeOK
  <2>5. HeldIsAwaited' /\ ForgottenAreWarmers'
    BY <1>1, <1>7, <2>1, <2>2 DEF HeldIsAwaited, IsHere, Serves, Waits, TypeOK, ForgottenAreWarmers
  <2> QED BY <1>7, <2>1, <2>3, <2>4, <2>5 DEF IInv
<1>9. CASE AskByWarmer(t)
  <2>1. PICK w \in Warmers :
          /\ unread[w] > 0 /\ (\A u \in Threads : ~Serves(u, w))
          /\ Ask(t, "/fraud-score", w)
          /\ unread' = [unread EXCEPT ![w] = unread[w] - 1] /\ UNCHANGED <<strays, forgotten>>
    BY <1>9 DEF AskByWarmer
  <2>2. "/fraud-score" \in Paths
    OBVIOUS
  <2>3. TypeOK'
    BY <1>1, <1>7, <2>1, <2>2 DEF TypeOK
  <2>4. PatientWorkers'
    BY <1>1, <1>7, <2>1, <2>2 DEF PatientWorkers, OneRequestOut, Serves, TypeOK
  <2>5. HeldIsAwaited' /\ ForgottenAreWarmers'
    BY <1>1, <1>7, <2>1, <2>2 DEF HeldIsAwaited, IsHere, Serves, Waits, TypeOK, ForgottenAreWarmers
  <2> QED BY <1>7, <2>1, <2>2, <2>3, <2>4, <2>5 DEF IInv
<1>10. CASE AskByStray(t)
  <2>1. PICK w \in Warmers :
          /\ strays[w] > 0
          /\ Ask(t, "/fraud-score", w)
          /\ strays' = [strays EXCEPT ![w] = strays[w] - 1]
          /\ forgotten' = forgotten \cup {t} /\ UNCHANGED unread
    BY <1>10 DEF AskByStray
  <2>2. "/fraud-score" \in Paths
    OBVIOUS
  <2>3. TypeOK'
    BY <1>1, <1>7, <2>1, <2>2 DEF TypeOK
  <2>4. PatientWorkers'
    BY <1>1, <1>7, <2>1, <2>2 DEF PatientWorkers, OneRequestOut, TypeOK
  <2>5. HeldIsAwaited' /\ ForgottenAreWarmers'
    BY <1>1, <1>7, <2>1, <2>2 DEF HeldIsAwaited, IsHere, Serves, Waits, TypeOK, ForgottenAreWarmers
  <2> QED BY <1>7, <2>1, <2>2, <2>3, <2>4, <2>5 DEF IInv
<1> QED BY <1>3, <1>4, <1>5, <1>6, <1>8, <1>9, <1>10 DEF Serve

LEMMA StepPreserves == IInv /\ [Next]_vars => IInv'
<1> SUFFICES ASSUME IInv, [Next]_vars PROVE IInv'
  OBVIOUS
<1>1. CASE UNCHANGED vars
  BY <1>1 DEF vars, flagVars, warmupVars, sentVars, threadVars, IInv, TypeOK, FlagsFollowWarmup,
              LoadsHold, PatientWorkers, OneRequestOut, JoinedAll, HeldIsAwaited, IsHere, Serves,
              Waits, ForgottenAreWarmers, IdleIsFree, RefusedOnlyInSwitch
<1>2. CASE Next
  BY <1>2, WarmupPreserves, WarmerPreserves, ThreadPreserves DEF Next
<1> QED BY <1>1, <1>2

-----------------------------------------------------------------------------
(* The type invariant, the flags as the warm-up thread has left them, what *)
(* the threads have loaded, one request out for each warm-up worker that   *)
(* never waited in vain, and the end of all of them before the switch, are *)
(* an invariant (warmup.rs, handler.rs).                                   *)
THEOREM InductiveInvariant == Spec => []IInv
  BY InitEstablishes, StepPreserves, PTL DEF Spec

(* A score is refused only to a request that arrived before ready was set, *)
(* and only once ACCEPT_WARMUP was cleared: can_serve_fraud refuses        *)
(* nothing during the warm-up and nothing after it, for any number of      *)
(* threads.                                                                *)
THEOREM ScoresRefusedOnlyInSwitch == Spec => []RefusedOnlyInSwitch
<1>1. IInv => RefusedOnlyInSwitch
  BY DEF IInv
<1> QED BY <1>1, InductiveInvariant, PTL

(* A 200 for /ready means that every warm-up worker was joined before the  *)
(* store, and that nothing is left of what those have sent that were       *)
(* answered each time; of the others something may be, also while it is    *)
(* served (read_warmup_http_response of warmup.rs).                        *)
THEOREM ReadyIsAfterWarmup == Spec => []ReadyAfterWarmup
<1>1. ASSUME IInv PROVE ReadyAfterWarmup
  <2> SUFFICES ASSUME NEW t \in Threads, thread[t] = "served", asks[t] = "/ready",
                      NEW w \in Warmers
               PROVE  /\ warmer[w] = "ended"
                      /\ w \notin timedOut =>
                           unread[w] = 0 /\ strays[w] = 0 /\ \A u \in Threads : from[u] # w
    BY DEF ReadyAfterWarmup
  <2>1. warmup # "warming"
    BY <1>1 DEF IInv, LoadsHold, FlagsFollowWarmup
  <2>2. warmer[w] = "ended"
    BY <1>1, <2>1 DEF IInv, JoinedAll
  <2>3. w \notin timedOut => OneRequestOut(w)
    BY <1>1 DEF IInv, PatientWorkers
  <2> QED BY <2>2, <2>3 DEF OneRequestOut
<1> QED BY <1>1, InductiveInvariant, PTL
=============================================================================
