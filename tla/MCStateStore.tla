----------------------------- MODULE MCStateStore -----------------------------
(* StateStore with a few calls on each backend. *)
EXTENDS StateStore, TLC

\* u1 credits the connection and shows its balance, u2 edits its label.
CONSTANTS u1, u2
MCWrites == (u1 :> {"balance", "dedicated"}) @@ (u2 :> {"label"})

Idle(S) == \A t \in S : at[t] = "idle"

\* Two kinds of calls meet, whichever two.
Together == \E S \in {Updates, Reserves, Spends} : Idle(S)

Symmetry == Permutations(Reserves) \cup Permutations(Spends)
=============================================================================
