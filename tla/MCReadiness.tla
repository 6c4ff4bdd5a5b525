---------------------------- MODULE MCReadiness ----------------------------
(* Readiness with two threads and two warm-up workers (MCReadiness.cfg).   *)
EXTENDS Readiness
=============================================================================
