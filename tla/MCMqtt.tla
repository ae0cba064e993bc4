------------------------------- MODULE MCMqtt -------------------------------
(* Instances of Mqtt for TLC: the name of ab begins with that of a. *)
EXTENDS Mqtt

Names == {<<"ab", "a">>}
Same(S) == {<<t, t>> : t \in S}
PrefixMatching == Same(Topics) \cup (Names \cap (Topics \X Topics))
=============================================================================
