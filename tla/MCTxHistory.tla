----------------------------- MODULE MCTxHistory -----------------------------
(* TxHistory on a connection, the API and three transactions. *)
EXTENDS TxHistory

CONSTANTS c1, a0

\* c1 has a settled payment, 1, when the rest begins, and later another, 2, as
\* new as the API's payment 3.
SmallNumbered == <<c1>>
SmallHome == [t \in 1..3 |-> IF t = 3 THEN a0 ELSE c1]
SmallType == [t \in 1..3 |-> "outgoing"]
SmallStamp == [t \in 1..3 |-> IF t = 1 THEN 1 ELSE 2]
SmallEarly == <<1>>
SmallQueries == {AllOf(2), AnyStatus(AllOf(1)), [AllOf(1) EXCEPT !.from = 2],
                 [AnyStatus(AllOf(1)) EXCEPT !.kind = "export"]}

\* A restart, a retry and a revocation: any two of them.
Together == stops + retries + Cardinality(revoked) <= 2

HistFairSpec == HistSpec /\ HistFairness
=============================================================================
