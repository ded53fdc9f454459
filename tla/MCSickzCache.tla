---------------------------- MODULE MCSickzCache ----------------------------
(***************************************************************************)
(* Instances of SickzCache for TLC: two requests, two hostnames, and two   *)
(* target groups, one of them malformed, behind one permit.                *)
(***************************************************************************)
EXTENDS SickzCache

CONSTANTS c1, c2, h1, h2, good, bad

=============================================================================
