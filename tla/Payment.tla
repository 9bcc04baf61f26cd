-------------------------------- MODULE Payment --------------------------------
(***************************************************************************)
(* What the callers of payInvoice rely on, whatever a payment does with      *)
(* proofs, locks and the store: it is answered once, with success only when *)
(* the mint has paid the invoice, and the mint pays an invoice at most once *)
(* and only while its payment is being made, or settles what it had under   *)
(* way.  A crash leaves the payments it interrupts unanswered.              *)
(*                                                                         *)
(* What a failure means depends on Definite: if every answer of the mint    *)
(* arrives and is final and the store can be written, a failed payment is   *)
(* not paid and never will be.                                             *)
(***************************************************************************)
CONSTANTS
    Payers,   \* calls of payInvoice, one invoice each
    Definite  \* TRUE: a failure is the mint's last word

VARIABLES
    status,   \* of each call: "idle", "asked", "ok", "failed", "crashed"
    melt      \* the mint's state of its invoice

vars == <<status, melt>>

Init ==
    /\ status = [p \in Payers |-> "idle"]
    /\ melt = [p \in Payers |-> "UNPAID"]

Turn(p, from, to) == status[p] = from /\ status' = [status EXCEPT ![p] = to]

Becomes(p, from, to) == melt[p] = from /\ melt' = [melt EXCEPT ![p] = to]

Ask(p) == Turn(p, "idle", "asked") /\ UNCHANGED melt

\* The mint pays at once, or leaves the payment under way.
Pay(p) ==
    /\ status[p] = "asked"
    /\ \/ Becomes(p, "UNPAID", "PAID")
       \/ ~Definite /\ Becomes(p, "UNPAID", "PENDING")
    /\ UNCHANGED status

\* A payment under way ends, whether or not its caller was answered.
Resolve(p) ==
    /\ \E outcome \in {"PAID", "UNPAID"} : Becomes(p, "PENDING", outcome)
    /\ UNCHANGED status

Succeed(p) ==
    /\ Turn(p, "asked", "ok")
    /\ melt[p] = "PAID"
    /\ UNCHANGED melt

Fail(p) ==
    /\ Turn(p, "asked", "failed")
    /\ Definite => melt[p] = "UNPAID"
    /\ UNCHANGED melt

Crash ==
    /\ status' = [p \in Payers |-> IF status[p] = "asked" THEN "crashed" ELSE status[p]]
    /\ UNCHANGED melt

Next ==
    \/ \E p \in Payers : Ask(p) \/ Pay(p) \/ Resolve(p) \/ Succeed(p) \/ Fail(p)
    \/ Crash

Spec == Init /\ [][Next]_vars
=============================================================================
