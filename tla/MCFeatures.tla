----------------------------- MODULE MCFeatures -----------------------------
(* An instance of Features for TLC. *)
EXTENDS Features

MCExtra == {<<"tools", "watch">>, <<"sampling">>}
=============================================================================
