----------------------------- MODULE MCConsole ------------------------------
(* Console for TLC. *)
EXTENDS Console

\* The same container name on two nodes, and a container of its own on one.
MCCards == {<<"local", "n1">>, <<"local", "n2">>, <<"far", "n1">>}
=============================================================================
