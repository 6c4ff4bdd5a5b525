------------------------------ MODULE Handoff ------------------------------
(***************************************************************************)
(* What the load balancer and the API workers promise a client together:   *)
(* its connection is accepted once, passed on at most once, received by at *)
(* most one worker, and once lost it never comes back.                     *)
(***************************************************************************)
CONSTANT Clients

VARIABLE place  (* Where each client's connection is.                       *)

Places == {"waiting", "held", "passed", "received", "lost"}

Init == place = [c \in Clients |-> "waiting"]

Move(c, from, to) ==
  /\ place[c] = from
  /\ place' = [place EXCEPT ![c] = to]

Accept(c)  == Move(c, "waiting", "held")
Pass(c)    == Move(c, "held", "passed")
Receive(c) == Move(c, "passed", "received")

(* A process that dies, or a control connection that is closed, takes every *)
(* connection it holds with it; a worker may refuse the one it is passed.  *)
Lose(S) ==
  /\ \A c \in S : place[c] \in {"held", "passed", "received"}
  /\ place' = [c \in Clients |-> IF c \in S THEN "lost" ELSE place[c]]

Next ==
  \/ \E c \in Clients : Accept(c) \/ Pass(c) \/ Receive(c)
  \/ \E S \in SUBSET Clients : Lose(S)

Spec == Init /\ [][Next]_place
=============================================================================
