-------------------------- MODULE MCHomelabRefresh --------------------------
(***************************************************************************)
(* An instance of HomelabRefresh for TLC: two calls, a public service   *)
(* and two internal ones that share a permit.                                *)
(***************************************************************************)
EXTENDS HomelabRefresh

CONSTANTS c1, c2, p1, i1, i2

=============================================================================
