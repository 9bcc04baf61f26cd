------------------------------ MODULE MCConsole ------------------------------
(* Console on small sets, the store listing rows by their keys. *)
EXTENDS Console

CONSTANTS i1, i2, c1

ByKey == <<i2, c1, i1>>
=============================================================================
