---------------------------- MODULE MCWorkerLoop ----------------------------
(* An instance of WorkerLoop for TLC: a client whose only request arrives   *)
(* in two pieces, asks for the end of the connection and may be followed    *)
(* by a reset; a slow client with two pipelined requests and an end of      *)
(* stream; and room for both, for one of them, or for one in the tables.    *)
EXTENDS WorkerLoop, TLC

CONSTANTS c1, c2

TwoClients == {c1, c2}
KeepAlive  == (c1 :> <<FALSE>>) @@ (c2 :> <<TRUE, TRUE>>)
Pieces     == (c1 :> 2) @@ (c2 :> 1)
First      == {c1}
Second     == {c2}

ThreeSizes == {[nofile |-> 3, MAX_CLIENT_FD |-> 4],
               [nofile |-> 2, MAX_CLIENT_FD |-> 4],
               [nofile |-> 3, MAX_CLIENT_FD |-> 3]}
=============================================================================
