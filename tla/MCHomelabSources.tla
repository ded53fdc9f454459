-------------------------- MODULE MCHomelabSources --------------------------
(***************************************************************************)
(* Every policy, with two calls, a lifetime of two ticks and a retry after *)
(* one, two versions of the origin and a reset.                            *)
(***************************************************************************)
EXTENDS HomelabSources

CONSTANTS c1, c2

=============================================================================
