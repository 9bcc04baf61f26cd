---------------------------- MODULE MCMintFailover ----------------------------
(***************************************************************************)
(* Small instances of MintFailover: callers are interchangeable.  Who takes  *)
(* part is chosen at the start: invoices with the health loop, or payments   *)
(* and the operator with it.  The last mint answers or is down for good;     *)
(* without invoices it is down, and stays cooling once it was found so.      *)
(***************************************************************************)
EXTENDS MintFailover, TLC

Symmetry == Permutations(Invoices) \cup Permutations(Payments) \cup Permutations(Checkers)

Casts == {Invoices \cup Checkers, Payments \cup Checkers \cup Admins}

VARIABLE cast

\* The others stay as they are; restarts happen to payments and operators.
Apart ==
    /\ \A o \in Calls \ cast : pc'[o] = pc[o]
    /\ \A k \in Checkers \ cast : stage'[k] = stage[k]
    /\ \A a \in Admins \ cast : wanted'[a] = wanted[a]
    /\ reach'[NumMints] = reach[NumMints]
    /\ IF cast \cap Invoices = {}
       THEN health[NumMints] = "cooling" => health'[NumMints] # "down"
       ELSE crashes' = 0

CastInit == Init /\ cast \in Casts /\ (cast \cap Invoices = {} => ~reach[NumMints])
CastNext == Next /\ Apart /\ UNCHANGED cast
CastSpec == CastInit /\ [][CastNext]_<<vars, cast>> /\ Fairness
=============================================================================
