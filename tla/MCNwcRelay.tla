------------------------------ MODULE MCNwcRelay ------------------------------
(* NwcRelay on small sets of relays and events. *)
EXTENDS NwcRelay, TLC

Symmetry == Permutations(Requests)
=============================================================================
