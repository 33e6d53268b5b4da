--------------------------- MODULE MCStateEngine ---------------------------
(* Instances of StateEngine for TLC. *)
EXTENDS StateEngine, TLC

CONSTANTS a, b, u

OneLocal  == {<<a, "local">>}
TwoNodes  == {<<a, "local">>, <<b, "remote">>}
TwoLocal  == {<<a, "local">>, <<b, "local">>}
NamePerms == Permutations({a, b})
=============================================================================
