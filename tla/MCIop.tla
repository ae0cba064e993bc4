------------------------------- MODULE MCIop -------------------------------
(* Instances of Iop for TLC. *)
EXTENDS Iop
=============================================================================
