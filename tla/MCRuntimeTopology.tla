-------------------------- MODULE MCRuntimeTopology --------------------------
(***************************************************************************)
(* Two replicas with their heartbeat tasks; a request records one more     *)
(* heartbeat of the first.                                                 *)
(***************************************************************************)
EXTENDS RuntimeTopology

CONSTANTS r1, r2, l1, l2, q1

Where == [c \in Beats |-> IF c = l2 THEN r2 ELSE r1]

=============================================================================
