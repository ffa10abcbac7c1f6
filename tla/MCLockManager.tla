---------------------------- MODULE MCLockManager ----------------------------
(***************************************************************************)
(* Three callbacks of one DC.                                              *)
(***************************************************************************)
EXTENDS LockManager

CONSTANTS g1, g2, g3
=============================================================================
