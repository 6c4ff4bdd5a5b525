--------------------------- MODULE MCEventedConn ---------------------------
(***************************************************************************)
(* EventedConn for TLC: streams built from request shapes.                 *)
(***************************************************************************)
EXTENDS EventedConn, TLC

CONSTANTS
  Shapes,     (* <<header bytes, bytes, kind>> of the requests.             *)
  MaxRequests (* Requests in a stream.                                      *)

(* Lay requests of the given shapes one after another.                     *)
RECURSIVE Layout(_, _)
Layout(shapes, from) ==
  IF shapes = << >> THEN << >>
  ELSE LET s == Head(shapes)
       IN  <<[first |-> from, hdr |-> from + s[1] - 1,
              last |-> from + s[2] - 1, kind |-> s[3]]>>
             \o Layout(Tail(shapes), from + s[2])

MCStreams == {Layout(shapes, 1) : shapes \in [1..MaxRequests -> Shapes]}

(* A short request of each kind, and a longer one whose header comes in    *)
(* two reads.                                                              *)
MCShapes == {<<1, 2, "keep">>, <<1, 2, "close">>, <<1, 2, "reject">>,
             <<2, 3, "keep">>}

(* One of a batch asks for the close and one more than a batch follows.    *)
OverfullStream ==
  Layout(<< <<1, 1, "close">>, <<1, 1, "keep">>, <<1, 1, "keep">> >>, 1)

MCAllStreams == MCStreams \union {OverfullStream}

(* Requests the parser accepts.                                            *)
MCKeepShapes == {<<1, 1, "keep">>, <<1, 2, "keep">>}
=============================================================================
