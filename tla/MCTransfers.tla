---------------------------- MODULE MCTransfers ----------------------------
(* An instance of Transfers for TLC. *)
EXTENDS Transfers

CONSTANTS h1, h2, s1
=============================================================================
