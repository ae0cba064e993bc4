------------------------------ MODULE MCDevice ------------------------------
(* Instances of Device and Network for TLC: ids that are not positions. *)
EXTENDS Device

ThreeContexts == {2, 3, 4}
=============================================================================
