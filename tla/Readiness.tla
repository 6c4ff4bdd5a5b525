----------------------------- MODULE Readiness -----------------------------
(***************************************************************************)
(* The start of a worker: src/src/api/mod.rs, src/src/api/server.rs, the   *)
(* readiness checks of src/src/api/handler.rs and the self warm-up over    *)
(* HTTP of src/src/api/warmup.rs.                                          *)
(*                                                                         *)
(* Two flags say what the handler may answer: ready and ACCEPT_WARMUP. The *)
(* handler loads them one after the other, on any of the API_WORKERS       *)
(* threads, and the warm-up thread stores them one after the other. What   *)
(* the warm-up workers send may come to a thread long after they have      *)
(* stopped waiting for its answer.                                         *)
(***************************************************************************)
EXTENDS Naturals

CONSTANTS
  Threads,      (* api-worker-0, ...                                        *)
  Warmers,      (* self-warmup-0, ...; none if the duration is 0 or the URL *)
                (* invalid.                                                 *)
  SelfWarmup,   (* RINHA_SELF_WARMUP.                                       *)
  PayloadFile,  (* There is a file of payloads (warmup.rs:150).             *)
  MaxStrays,    (* Bound on the requests of a worker that nobody waits for. *)
  NoWarmer      (* The request is a client's.                               *)

ASSUME ReadinessAssumption ==
  /\ SelfWarmup \in BOOLEAN /\ PayloadFile \in BOOLEAN
  /\ MaxStrays \in Nat
  /\ NoWarmer \notin Warmers

VARIABLES
  accept,     (* ACCEPT_WARMUP.                                             *)
  ready,      (* ready.                                                     *)
  warmup,     (* Where the warm-up thread is.                               *)
  late,       (* The deadline of the warm-up has passed.                    *)
  warmer,     (* What each warm-up worker does.                             *)
  unread,     (* What it has sent to this process on the connection it has, *)
              (* and no thread has read.                                    *)
  strays,     (* The same, on connections it has dropped.                   *)
  timedOut,   (* History: the warm-up workers that ever waited in vain.     *)
  thread,     (* Where each thread is with its request.                     *)
  asks,       (* The path it asks for.                                      *)
  from,       (* The warm-up worker that sent it.                           *)
  forgotten,  (* The threads whose request came on a dropped connection.    *)
  askedReady  (* History: ready, when the request arrived.                  *)

flagVars == <<accept, ready>>
sentVars == <<unread, strays, timedOut>>
warmupVars == <<warmup, late, warmer, sentVars>>
threadVars == <<thread, asks, from, forgotten, askedReady>>
vars == <<flagVars, warmupVars, threadVars>>

Paths == {"/ready", "/fraud-score"}

-----------------------------------------------------------------------------
(* run and run_fd_worker_mode: the flags are set before a thread accepts   *)
(* anything; the warm-up is started once the threads are, whether or not   *)
(* they have come to listen.                                               *)

Init ==
  /\ accept = SelfWarmup
  /\ ready = ~SelfWarmup
  /\ warmup = IF SelfWarmup THEN "warming" ELSE "off"
  /\ late = FALSE
  /\ warmer = [w \in Warmers |-> IF SelfWarmup THEN "connecting" ELSE "ended"]
  /\ unread = [w \in Warmers |-> 0]
  /\ strays = [w \in Warmers |-> 0]
  /\ timedOut = {}
  /\ thread = [t \in Threads |-> "starting"]
  /\ asks = [t \in Threads |-> "/ready"]
  /\ from = [t \in Threads |-> NoWarmer]
  /\ forgotten = {}
  /\ askedReady = [t \in Threads |-> FALSE]

Listen(t) ==
  /\ thread[t] = "starting"
  /\ thread' = [thread EXCEPT ![t] = "idle"]
  /\ UNCHANGED <<flagVars, warmupVars, asks, from, forgotten, askedReady>>

-----------------------------------------------------------------------------
(* handle_request, on a thread.                                            *)

Ask(t, path, w) ==
  /\ thread[t] = "idle"
  /\ thread' = [thread EXCEPT ![t] = "asked"]
  /\ asks' = [asks EXCEPT ![t] = path]
  /\ from' = [from EXCEPT ![t] = w]
  /\ askedReady' = [askedReady EXCEPT ![t] = ready]
  /\ UNCHANGED <<flagVars, warmup, late, warmer, timedOut>>

AskByClient(t) ==
  /\ \E path \in Paths : Ask(t, path, NoWarmer)
  /\ UNCHANGED <<unread, strays, forgotten>>

(* The thread that serves the connection that w has.                       *)
Serves(t, w) == from[t] = w /\ t \notin forgotten

(* Requests of one connection are served one after the other.              *)
AskByWarmer(t) ==
  \E w \in Warmers :
    /\ unread[w] > 0
    /\ \A u \in Threads : ~Serves(u, w)
    /\ Ask(t, "/fraud-score", w)
    /\ unread' = [unread EXCEPT ![w] = @ - 1]
    /\ UNCHANGED <<strays, forgotten>>

(* What a dropped connection still holds is read, whenever that is.        *)
AskByStray(t) ==
  \E w \in Warmers :
    /\ strays[w] > 0
    /\ Ask(t, "/fraud-score", w)
    /\ strays' = [strays EXCEPT ![w] = @ - 1]
    /\ forgotten' = forgotten \cup {t}
    /\ UNCHANGED unread

(* Fault: the handler looks at ACCEPT_WARMUP alone.                        *)
LoadReadyNever(t) ==
  /\ thread[t] = "asked"
  /\ thread' = [thread EXCEPT ![t] =
       IF asks[t] = "/ready" THEN (IF ready THEN "served" ELSE "refused") ELSE "notready"]
  /\ UNCHANGED <<flagVars, warmupVars, asks, from, forgotten, askedReady>>

(* is_ready.                                                               *)
LoadReady(t) ==
  /\ thread[t] = "asked"
  /\ thread' = [thread EXCEPT ![t] =
       IF ready THEN "served" ELSE IF asks[t] = "/ready" THEN "refused" ELSE "notready"]
  /\ UNCHANGED <<flagVars, warmupVars, asks, from, forgotten, askedReady>>

(* can_serve_fraud goes on to accept_warmup.                               *)
LoadAccept(t) ==
  /\ thread[t] = "notready"
  /\ thread' = [thread EXCEPT ![t] = IF accept THEN "served" ELSE "refused"]
  /\ UNCHANGED <<flagVars, warmupVars, asks, from, forgotten, askedReady>>

-----------------------------------------------------------------------------
(* warm_up_via_http_worker, in another process or in this one.             *)

(* w closes its connection: a thread goes on with what it has read, and    *)
(* may or may not find what it has not.                                    *)
Drop(w) ==
  /\ forgotten' = forgotten \cup {t \in Threads : from'[t] = w}
  /\ unread' = [unread EXCEPT ![w] = 0]
  /\ \E n \in strays[w] .. strays[w] + unread[w] :
       n <= MaxStrays /\ strays' = [strays EXCEPT ![w] = n]

(* After an answer, 503 or not, and after a retry without one, w sends its *)
(* next request on the same connection, until the deadline.                *)
GoOn(w, more) ==
  IF late
  THEN warmer' = [warmer EXCEPT ![w] = "ended"] /\ Drop(w)
  ELSE /\ warmer' = [warmer EXCEPT ![w] = "waiting"]
       /\ unread' = [unread EXCEPT ![w] = @ + more]
       /\ UNCHANGED <<strays, forgotten>>

(* Only who still has the connection is answered.                          *)
Reply(t) ==
  /\ thread[t] \in {"served", "refused"}
  /\ thread' = [thread EXCEPT ![t] = "idle"]
  /\ from' = [from EXCEPT ![t] = NoWarmer]
  /\ \/ from[t] \in Warmers /\ t \notin forgotten /\ GoOn(from[t], 1)
     \/ /\ ~(from[t] \in Warmers /\ t \notin forgotten)
        /\ forgotten' = forgotten \ {t}
        /\ UNCHANGED <<warmer, unread, strays>>
  /\ UNCHANGED <<flagVars, warmup, late, timedOut, asks, askedReady>>

IsHere(w) == unread[w] > 0 \/ \E t \in Threads : Serves(t, w)

Waits(w) == warmer[w] \in {"waiting", "retrying"}

(* The balancer has handed the connection to another process.              *)
AnsweredElsewhere(w) ==
  /\ Waits(w) /\ ~IsHere(w)
  /\ UNCHANGED <<flagVars, warmup, late, timedOut, thread, asks, from, askedReady>>
  /\ GoOn(w, 0)

(* A payload of the file that was not answered is sent again.              *)
Connect(w) ==
  /\ warmer[w] \in {"connecting", "reconnecting"} /\ ~late
  /\ warmer' = [warmer EXCEPT ![w] =
       IF PayloadFile /\ @ = "reconnecting" THEN "retrying" ELSE "waiting"]
  /\ \E n \in {0, 1} : unread' = [unread EXCEPT ![w] = n]
  /\ UNCHANGED <<flagVars, warmup, late, strays, timedOut, threadVars>>

(* The deadline, or ten seconds without a connection.                      *)
GiveUp(w) ==
  /\ warmer[w] \in {"connecting", "reconnecting"}
  /\ warmer' = [warmer EXCEPT ![w] = "ended"]
  /\ UNCHANGED <<flagVars, warmup, late, sentVars, threadVars>>

(* Fault: a read has no timeout and ends with an answer only.              *)
TimeoutNever(w) == FALSE /\ UNCHANGED vars

(* 800 ms without an answer: w connects again. After a retry it does not,  *)
(* but takes the answer to come for the one to what it sends next.         *)
Timeout(w) ==
  /\ UNCHANGED <<flagVars, warmup, late, thread, asks, from, askedReady>>
  /\ timedOut' = timedOut \cup {w}
  /\ \/ /\ warmer[w] = "waiting"
        /\ warmer' = [warmer EXCEPT ![w] = "reconnecting"]
        /\ Drop(w)
     \/ warmer[w] = "retrying" /\ GoOn(w, IF IsHere(w) THEN 1 ELSE 0)

Deadline ==
  /\ warmup = "warming"
  /\ ~late
  /\ late' = TRUE
  /\ UNCHANGED <<flagVars, warmup, warmer, sentVars, threadVars>>

-----------------------------------------------------------------------------
(* start_self_warmup_thread.                                               *)

(* Fault: the flags are switched at the deadline, with requests under way. *)
JoinAtDeadline ==
  /\ warmup = "warming"
  /\ late
  /\ warmup' = "joined"
  /\ UNCHANGED <<flagVars, late, warmer, sentVars, threadVars>>

(* All handles are joined.                                                 *)
Join ==
  /\ warmup = "warming"
  /\ \A w \in Warmers : warmer[w] = "ended"
  /\ warmup' = "joined"
  /\ UNCHANGED <<flagVars, late, warmer, sentVars, threadVars>>

ClearAccept ==
  /\ warmup = "joined"
  /\ accept' = FALSE
  /\ warmup' = "cleared"
  /\ UNCHANGED <<ready, late, warmer, sentVars, threadVars>>

SetReady ==
  /\ warmup = "cleared"
  /\ ready' = TRUE
  /\ warmup' = "done"
  /\ UNCHANGED <<accept, late, warmer, sentVars, threadVars>>

WarmupThread == Join \/ ClearAccept \/ SetReady

WarmerStep(w) == Connect(w) \/ GiveUp(w) \/ Timeout(w)

Serve(t) == Listen(t) \/ LoadReady(t) \/ LoadAccept(t) \/ Reply(t)

Next ==
  \/ WarmupThread \/ Deadline
  \/ \E w \in Warmers : WarmerStep(w) \/ AnsweredElsewhere(w)
  \/ \E t \in Threads : Serve(t) \/ AskByClient(t) \/ AskByWarmer(t) \/ AskByStray(t)

(* The threads are scheduled, the clock runs and timeouts fire; that a     *)
(* request comes, or that the one of a warm-up worker reaches this         *)
(* process, is not assumed.                                                *)
Fairness ==
  /\ WF_vars(WarmupThread) /\ WF_vars(Deadline)
  /\ \A w \in Warmers : WF_vars(WarmerStep(w))
  /\ \A t \in Threads : WF_vars(Serve(t))

Spec == Init /\ [][Next]_vars /\ Fairness

-----------------------------------------------------------------------------
(* Properties.                                                             *)

(* What can_serve_fraud promises by its two loads: a request for a score   *)
(* is refused only if it overlaps the switch from ACCEPT_WARMUP to ready,  *)
(* in start_self_warmup_thread: never during the warm-up, never after it.  *)
RefusedOnlyInSwitch ==
  \A t \in Threads :
    thread[t] = "refused" /\ asks[t] = "/fraud-score" =>
      warmup \in {"cleared", "done"} /\ ~askedReady[t]

(* /ready answers 200 only when every warm-up worker has ended, and then   *)
(* nothing that a worker has sent is being served or on its way, unless    *)
(* that worker once waited in vain: warmup.rs:275 leaves such a request to *)
(* the thread that has it, or will have, and joins nothing but the worker. *)
ReadyAfterWarmup ==
  \A t \in Threads : thread[t] = "served" /\ asks[t] = "/ready" =>
    \A w \in Warmers :
      /\ warmer[w] = "ended"
      /\ w \notin timedOut =>
           unread[w] = 0 /\ strays[w] = 0 /\ \A u \in Threads : from[u] # w

(* The worker becomes ready, whether or not the warm-up reaches anyone.    *)
BecomesReady == <>[]ready
=============================================================================
