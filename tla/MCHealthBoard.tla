---------------------------- MODULE MCHealthBoard ----------------------------
(***************************************************************************)
(* Instances of HealthBoard for TLC: a refresh beside what an older one    *)
(* has left behind.                                                        *)
(***************************************************************************)
EXTENDS HealthBoard

CONSTANTS f1, f2

=============================================================================
