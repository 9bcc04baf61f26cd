----------------------------- MODULE MCApiServer -----------------------------
(* ApiServer on small sets, its store listing rows by their keys. *)
EXTENDS ApiServer

CONSTANTS i1, c1, l1, l2

ByKey == <<l1, c1, i1, l2>>
=============================================================================
