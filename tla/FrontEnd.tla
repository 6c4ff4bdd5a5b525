------------------------------ MODULE FrontEnd ------------------------------
(***************************************************************************)
(* A request on its way to the search: RequestFraming finds its body in    *)
(* the buffer of the connection, the handler of src/src/api/handler.rs     *)
(* gives that body to parse_query.                                         *)
(***************************************************************************)
EXTENDS RequestFraming, QueryParsing

ASSUME BodiesAssumption == \A r \in Requests : IsBody(r.body)

frontVars == <<framingVars, vars>>

(* The bytes from + 1 .. to of the stream, as the tokens of a body: what   *)
(* is not of the body that was sent counts as text after it.               *)
Framed(from, to) ==
  LET head == Len(HeadOf(sent))
      tokens == sent.body.tokens
  IN [tokens |-> SubSeq(tokens, from - head + 1, Min({to - head, Len(tokens)})),
      tail |-> to - head > Len(tokens)]

IsQuery(d) == d.kind = "complete" /\ d.method = "POST"

FrontInit == FramingInit /\ Start([tokens |-> <<>>, tail |-> FALSE])

(* on_readable parses after each read and calls the handler in place.      *)
OnReadable ==
  /\ Arrive
  /\ body' = IF IsQuery(decision') THEN Framed(decision'.from, decision'.to) ELSE body
  /\ UNCHANGED <<strategy, pos, section, vals, hasLast, out, result>>

ParseQuery ==
  /\ IsQuery(decision)
  /\ Next
  /\ UNCHANGED framingVars

FrontNext == OnReadable \/ ParseQuery

FrontSpec ==
  FrontInit /\ [][FrontNext]_frontVars /\ WF_frontVars(OnReadable) /\ WF_frontVars(ParseQuery)

-----------------------------------------------------------------------------
(* Every request is refused or answered once its client has sent all of    *)
(* it, or enough to fill the buffer: no wait for bytes that are not to     *)
(* come, and at most three passes over the body, also one cut short        *)
(* (handler.rs:28, vector/mod.rs:23). A client waits whose Content-Length, *)
(* or what the parser takes for it, exceeds what it sends.                 *)
EveryRequestSettles ==
  sent.lies \/ <>(\/ decision.kind = "reject"
                  \/ decision.kind = "complete" /\ (IsQuery(decision) => result # "running"))
=============================================================================
