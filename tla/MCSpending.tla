------------------------------ MODULE MCSpending ------------------------------
(* Spending with invoices of one and two sats. *)
EXTENDS Spending, TLC, Sequences

LOCAL INSTANCE SequencesExt

CONSTANTS i1, i2

Symmetry == Permutations(Requests) \cup Permutations(Admins)

MCSats == [i \in Invoices |-> IF i = i1 THEN 1 ELSE 2]

\* Requests are interchangeable: their callers are chosen in one order.
InOrder ==
    LET asking == SetToSeq(Requests)
        asked  == SetToSeq(PayCallers)
    IN  \A n \in 1..(Len(asking) - 1) :
          \E i, j \in DOMAIN asked :
             i <= j /\ req[asking[n]].caller = asked[i] /\ req[asking[n + 1]].caller = asked[j]

OrderedInit == Init /\ InOrder
OrderedSpec ==
    OrderedInit /\ [][Next]_vars /\ \A r \in Requests : WF_vars(PayStep(r))
=============================================================================
