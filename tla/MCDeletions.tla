---------------------------- MODULE MCDeletions ----------------------------
(* The people a check of Deletions erases.                                 *)
EXTENDS Deletions

CONSTANTS p1, p2, p3, p4
=============================================================================
