------------------------------- MODULE Spending -------------------------------
(***************************************************************************)
(* Who may spend how much of the wallet: the pay_invoice handler of an NWC  *)
(* connection, the /pay handler of the management API, and the operator's  *)
(* fund, withdraw and revoke, over one pool of ecash.                      *)
(*                                                                         *)
(* Each action is the code of a handler between two awaits.  The proofs    *)
(* themselves are ProofVault's: here the pool is an amount, a payment      *)
(* takes amount + fee_reserve out of it and brings the rest back.          *)
(* Amounts of invoices and of the pool are in sats, a connection's own     *)
(* balance is in millisats, as in the code.                                *)
(***************************************************************************)
EXTENDS Integers, FiniteSets, FiniteSetsExt

CONSTANTS
    Conns,           \* NWC connections
    Dedicated,       \* those with a balance of their own
    Api,             \* the virtual connection "__api__" of the management API
    Invoices,        \* invoices a client asks to pay
    Sats,            \* Sats[i]: the amount of invoice i
    Requests,        \* calls of the two pay handlers
    Admins,          \* calls of fund, withdraw and revoke
    AdminKinds,      \* which of these the operator calls
    PayCallers,      \* who asks for payments: connections, Api, or both
    InitialPool,     \* sats of ecash at the active mint
    InitialFunds,    \* sats put into each dedicated connection beforehand
    FundSats,        \* sats moved by one fund or withdraw
    MintReserve,     \* fee_reserve of a melt quote, in sats
    FeeReservePct,   \* config.feeReservePct, in percent
    ServiceFeePpm, ServiceFeeBase,
    MaxPaymentSats, DailyLimitSats,          \* config, 0: no limit
    ConnMaxPaymentSats, ConnMaxDailySats,    \* per connection, 0: no limit
    LiveConns,       \* TRUE: getAllConnections shares the connection objects
    StoreFails,      \* TRUE: a read or a write of the store may throw
    LargestSats,     \* bound: no invoice asks for more
    MaxRunning       \* bound: handlers running at once

NoOne == "no one"

ASSUME SpendingAssumption ==
    /\ Dedicated \subseteq Conns /\ IsFiniteSet(Dedicated) /\ Api \notin Conns /\ NoOne \notin Conns
    /\ PayCallers \subseteq Conns \cup {Api}
    /\ Sats \in [Invoices -> 1..LargestSats]
    /\ AdminKinds \subseteq {"fund", "withdraw", "revoke"}
    /\ {InitialPool, InitialFunds, FundSats, MintReserve, ServiceFeePpm, ServiceFeeBase,
        MaxPaymentSats, DailyLimitSats, ConnMaxPaymentSats, ConnMaxDailySats,
        LargestSats} \subseteq Nat
    /\ MaxRunning \in Nat \ {0}
    /\ FeeReservePct \in 0..100
    /\ LiveConns \in BOOLEAN /\ StoreFails \in BOOLEAN

VARIABLES
    pool,      \* sum of the proofs in the store
    lock,      \* the payment lock of the mint: a request, or "free"
    funds,     \* dedicated_balance_msat of each connection
    revoked,   \* the revoked connections
    tx,        \* tx_history: per caller and invoice, its outgoing record
    daily,     \* daily spend of each caller, in sats
    settled,   \* invoices the mint has paid
    payer,     \* ghost: the caller whose payment settled an invoice
    req,       \* the pay handlers
    admin,     \* the fund, withdraw and revoke handlers
    overdraft, \* ghost: millisats a dedicated connection spent beyond its balance
    had        \* ghost: millisats the balance check of a request saw

vars == <<pool, lock, funds, revoked, tx, daily, settled, payer, req, admin, overdraft, had>>

Callers == Conns \cup {Api}
NoTx    == [known |-> FALSE, paid |-> FALSE, err |-> FALSE]
OpenTx  == [known |-> TRUE, paid |-> FALSE, err |-> FALSE]

ReqStates   == {"new", "recorded", "checked", "queued", "melting", "settled", "refused",
                "booked", "answered"}
Answers     == {"none", "ok", "cached", "ignored", "quota", "insufficient", "failed",
                "internal",    \* payInvoice threw, or the record of its failure
                "unstored",    \* the store threw before payInvoice was called
                "unbooked"}    \* the store threw after it had paid
AdminStates == {"new", "waiting", "read", "counted", "done"}

calcServiceFee(amount) ==
    IF ServiceFeePpm = 0 /\ ServiceFeeBase = 0 THEN 0
    ELSE (amount * ServiceFeePpm) \div 1000000 + ServiceFeeBase

\* Both limits apply, the stricter one wins; 0 is no limit.
Stricter(global, conn) == IF conn # 0 /\ (global = 0 \/ conn < global) THEN conn ELSE global

\* Mutant: nothing is set aside for the routing fee.
MaxSpendableAll(msat) == msat

MaxSpendable(msat) == ((100 - FeeReservePct) * msat) \div 100

\* What is set aside for dedicated connections, as the handlers add it up.
Allocated == MapThenSumSet(LAMBDA c : funds[c], Dedicated \ revoked)

Running  == {r \in Requests : req[r].at \notin {"new", "answered"}}
              \cup {a \in Admins : admin[a].at \notin {"new", "done"}}
InFlight == {r \in Requests : req[r].at \in {"melting", "settled"}}

TxOf(r) == tx[req[r].caller][req[r].invoice]
PutTx(r, record) == tx' = [tx EXCEPT ![req[r].caller][req[r].invoice] = record]
Needed(r)  == Sats[req[r].invoice] + calcServiceFee(Sats[req[r].invoice])
At(r, state) == req' = [req EXCEPT ![r].at = state]
Answer(r, a) == req' = [req EXCEPT ![r].at = "answered", ![r].answer = a]

\* A check passed that saw so many millisats.
Passes(r, state, msat) == At(r, state) /\ had' = [had EXCEPT ![r] = msat]

\* The store is written and the client answered; or the write throws, and the
\* client is told of an internal error.
Told(r, a, thrown) == \E t \in {a} \cup (IF StoreFails THEN {thrown} ELSE {}) : Answer(r, t)
IsApi(r) == req[r].caller = Api

Init ==
    /\ pool = InitialPool
    /\ lock = "free"
    /\ funds = [c \in Conns |-> IF c \in Dedicated THEN InitialFunds * 1000 ELSE 0]
    /\ revoked = {}
    /\ tx = [c \in Callers |-> [i \in Invoices |-> NoTx]]
    /\ daily = [c \in Callers |-> 0]
    /\ settled = {}
    /\ payer = [i \in Invoices |-> NoOne]
    /\ req \in [Requests -> [at : {"new"}, answer : {"none"}, caller : PayCallers,
                             invoice : Invoices, routing : {0}]]
    /\ admin \in [Admins -> [at : {"new"}, kind : AdminKinds, conn : Dedicated,
                             wallet : {0}, allocated : {0}]]
    /\ overdraft = [c \in Conns |-> 0]
    /\ had = [r \in Requests |-> 0]

-----------------------------------------------------------------------------
(* pay_invoice of an NWC connection *)

\* Mutant: the history is not looked at.
ReceiveUnchecked(r) ==
    /\ req[r].at = "new"
    /\ ~IsApi(r)
    /\ Cardinality(Running) < MaxRunning
    /\ PutTx(r, OpenTx)
    /\ At(r, "recorded")
    /\ UNCHANGED <<pool, lock, funds, revoked, daily, settled, payer, admin, overdraft, had>>

\* "Reject duplicate payment for same invoice", then a fresh record replaces
\* whatever the history held, and is stored.
Receive(r) ==
    /\ req[r].at = "new"
    /\ ~IsApi(r)
    /\ Cardinality(Running) < MaxRunning
    /\ \/ /\ req[r].caller \in revoked
          /\ Answer(r, "ignored")
          /\ UNCHANGED tx
       \/ /\ req[r].caller \notin revoked
          /\ TxOf(r).paid
          /\ Answer(r, "cached")
          /\ UNCHANGED tx
       \/ /\ req[r].caller \notin revoked
          /\ ~TxOf(r).paid
          /\ PutTx(r, OpenTx)
          /\ At(r, "recorded") \/ (StoreFails /\ Answer(r, "unstored"))
    /\ UNCHANGED <<pool, lock, funds, revoked, daily, settled, payer, admin, overdraft, had>>

\* Mutant: the payment itself is left out of the day's total.
OverQuotaBefore(r, maxPayment, maxDaily) ==
    \/ maxPayment # 0 /\ Sats[req[r].invoice] > maxPayment
    \/ maxDaily # 0 /\ daily[req[r].caller] > maxDaily

OverQuota(r, maxPayment, maxDaily) ==
    \/ maxPayment # 0 /\ Sats[req[r].invoice] > maxPayment
    \/ maxDaily # 0 /\ daily[req[r].caller] + Sats[req[r].invoice] > maxDaily

\* The balance does not do: the reason is recorded.
Refuse(r) ==
    /\ PutTx(r, [TxOf(r) EXCEPT !.err = TRUE])
    /\ Told(r, "insufficient", "unstored")
    /\ UNCHANGED had

\* The spend limits and, for a dedicated connection, its own balance.
CheckLimits(r) ==
    /\ req[r].at = "recorded"
    /\ ~IsApi(r)
    /\ \/ /\ OverQuota(r, Stricter(MaxPaymentSats, ConnMaxPaymentSats),
                           Stricter(DailyLimitSats, ConnMaxDailySats))
          /\ Answer(r, "quota") /\ UNCHANGED <<tx, had>>
       \/ /\ ~OverQuota(r, Stricter(MaxPaymentSats, ConnMaxPaymentSats),
                            Stricter(DailyLimitSats, ConnMaxDailySats))
          /\ IF /\ req[r].caller \in Dedicated
                /\ MaxSpendable(funds[req[r].caller]) < Needed(r) * 1000
             THEN Refuse(r)
             ELSE Passes(r, "checked", funds[req[r].caller]) /\ UNCHANGED tx
       \/ StoreFails /\ Answer(r, "unstored") /\ UNCHANGED <<tx, had>>
    /\ UNCHANGED <<pool, lock, funds, revoked, daily, settled, payer, admin, overdraft>>

\* What the payment may be made of, as its checks saw it: the connection's own
\* balance, or what is not set aside.
Seen(r) == IF req[r].caller \in Dedicated THEN had[r] ELSE pool * 1000 - Allocated

\* Mutant: a shared connection may use what is set aside for the others.
CheckPoolWhole(r) ==
    /\ req[r].at = "checked"
    /\ ~IsApi(r)
    /\ IF MaxSpendable(pool * 1000) < Needed(r) * 1000 THEN Refuse(r)
       ELSE Passes(r, "queued", Seen(r)) /\ UNCHANGED tx
    /\ UNCHANGED <<pool, lock, funds, revoked, daily, settled, payer, admin, overdraft>>

\* The pool, less what is set aside when the connection shares the wallet;
\* then the call of payInvoice.
CheckPool(r) ==
    /\ req[r].at = "checked"
    /\ ~IsApi(r)
    /\ \/ LET free == IF req[r].caller \in Dedicated THEN pool * 1000
                      ELSE pool * 1000 - Allocated
          IN  IF MaxSpendable(free) < Needed(r) * 1000 THEN Refuse(r)
              ELSE Passes(r, "queued", Seen(r)) /\ UNCHANGED tx
       \/ StoreFails /\ Answer(r, "unstored") /\ UNCHANGED <<tx, had>>
    /\ UNCHANGED <<pool, lock, funds, revoked, daily, settled, payer, admin, overdraft>>

\* Mutant: the record is not marked paid.
BookUnrecorded(r) ==
    /\ req[r].at = "settled"
    /\ ~IsApi(r)
    /\ At(r, "booked")
    /\ UNCHANGED <<pool, lock, funds, revoked, tx, daily, settled, payer, admin,
                   overdraft, had>>

\* The payment succeeded: the record and the connection's balance, in memory;
\* then the store is told of the balance and of the record ...
Book(r) ==
    /\ req[r].at = "settled"
    /\ ~IsApi(r)
    /\ PutTx(r, [TxOf(r) EXCEPT !.paid = TRUE])
    /\ LET c == req[r].caller
           spent == (Needed(r) + req[r].routing) * 1000
       IN  IF c \in Dedicated
           THEN /\ funds' = [funds EXCEPT ![c] = IF spent > @ THEN 0 ELSE @ - spent]
                /\ overdraft' = [overdraft EXCEPT
                                   ![c] = @ + IF spent > funds[c] THEN spent - funds[c] ELSE 0]
           ELSE UNCHANGED <<funds, overdraft>>
    /\ At(r, "booked")
    /\ UNCHANGED <<pool, lock, revoked, daily, settled, payer, admin, had>>

\* ... and counts it.  One of the three writes may throw: before the payment is
\* counted or, on the file store, after.
TrackSpend(r) ==
    /\ req[r].at = "booked"
    /\ ~IsApi(r)
    /\ \/ /\ daily' = [daily EXCEPT ![req[r].caller] = @ + Sats[req[r].invoice]]
          /\ Told(r, "ok", "unbooked")
       \/ StoreFails /\ Answer(r, "unbooked") /\ UNCHANGED daily
    /\ UNCHANGED <<pool, lock, funds, revoked, tx, settled, payer, admin, overdraft, had>>

\* Mutant: a failure is written over whatever the history holds.
BookFailureAfresh(r) ==
    /\ req[r].at = "refused"
    /\ ~IsApi(r)
    /\ PutTx(r, [OpenTx EXCEPT !.err = TRUE])
    /\ Answer(r, "failed")
    /\ UNCHANGED <<pool, lock, funds, revoked, daily, settled, payer, admin, overdraft, had>>

\* payInvoice returned success: false.
BookFailure(r) ==
    /\ req[r].at = "refused"
    /\ ~IsApi(r)
    /\ PutTx(r, [TxOf(r) EXCEPT !.err = TRUE])
    /\ Told(r, "failed", "internal")
    /\ UNCHANGED <<pool, lock, funds, revoked, daily, settled, payer, admin, overdraft, had>>

-----------------------------------------------------------------------------
(* payInvoice: one payment of the mint at a time, ProofVault in one amount *)

\* It throws: no quote, not enough proofs, the swap failed.  The record of an
\* NWC request stays as it is; the client is told of an internal error.
PayThrows(r) ==
    /\ req[r].at = "queued"
    /\ lock = "free"
    /\ Answer(r, "internal")
    /\ UNCHANGED <<pool, lock, funds, revoked, tx, daily, settled, payer, admin, overdraft,
                   had>>

Take(r) ==
    /\ req[r].at = "queued"
    /\ lock = "free"
    /\ pool >= Sats[req[r].invoice] + MintReserve
    /\ pool' = pool - (Sats[req[r].invoice] + MintReserve)
    /\ lock' = r
    /\ At(r, "melting")
    /\ UNCHANGED <<funds, revoked, tx, daily, settled, payer, admin, overdraft, had>>

\* The mint pays an invoice once, and keeps part of the reserve for routing.
Paid(r) ==
    /\ req[r].at = "melting"
    /\ req[r].invoice \notin settled
    /\ settled' = settled \cup {req[r].invoice}
    /\ payer' = [payer EXCEPT ![req[r].invoice] = req[r].caller]
    /\ \E routing \in 0..MintReserve :
         /\ pool' = pool + MintReserve - routing
         /\ req' = [req EXCEPT ![r].at = "settled", ![r].routing = routing]
    /\ lock' = "free"
    /\ UNCHANGED <<funds, revoked, tx, daily, admin, overdraft, had>>

\* Mutants: the state of the melt is not looked at; the lock is not released.
NotPaidIsPaid(r) ==
    /\ req[r].at = "melting"
    /\ pool' = pool + Sats[req[r].invoice] + MintReserve
    /\ lock' = "free"
    /\ At(r, "settled")
    /\ UNCHANGED <<funds, revoked, tx, daily, settled, payer, admin, overdraft, had>>

NotPaidKeepsLock(r) ==
    /\ req[r].at = "melting"
    /\ pool' = pool + Sats[req[r].invoice] + MintReserve
    /\ At(r, "refused")
    /\ UNCHANGED <<lock, funds, revoked, tx, daily, settled, payer, admin, overdraft, had>>

NotPaid(r) ==
    /\ req[r].at = "melting"
    /\ pool' = pool + Sats[req[r].invoice] + MintReserve
    /\ lock' = "free"
    /\ At(r, "refused")
    /\ UNCHANGED <<funds, revoked, tx, daily, settled, payer, admin, overdraft, had>>

-----------------------------------------------------------------------------
(* POST /api/v1/pay.  It looks at the whole pool, allocated or not, and keeps *)
(* no record of a payment that threw.                                       *)

ApiReceive(r) ==
    /\ req[r].at = "new"
    /\ IsApi(r)
    /\ Cardinality(Running) < MaxRunning
    /\ \/ IF OverQuota(r, MaxPaymentSats, DailyLimitSats) THEN Answer(r, "quota")
          ELSE At(r, "checked")
       \/ StoreFails /\ Answer(r, "unstored")
    /\ UNCHANGED <<pool, lock, funds, revoked, tx, daily, settled, payer, admin, overdraft,
                   had>>

ApiCheckPool(r) ==
    /\ req[r].at = "checked"
    /\ IsApi(r)
    /\ \/ IF Needed(r) > pool THEN Answer(r, "insufficient") ELSE At(r, "queued")
       \/ StoreFails /\ Answer(r, "unstored")
    /\ UNCHANGED <<pool, lock, funds, revoked, tx, daily, settled, payer, admin, overdraft,
                   had>>

ApiTrackSpend(r) ==
    /\ req[r].at = "settled"
    /\ IsApi(r)
    /\ \/ /\ daily' = [daily EXCEPT ![Api] = @ + Sats[req[r].invoice]]
          /\ At(r, "booked") \/ (StoreFails /\ Answer(r, "unbooked"))
       \/ StoreFails /\ Answer(r, "unbooked") /\ UNCHANGED daily
    /\ UNCHANGED <<pool, lock, funds, revoked, tx, settled, payer, admin, overdraft, had>>

\* The record replaces one of the same invoice, paid or not.  A write that
\* throws may have put it into the file store's memory.
ApiRecord(r) ==
    /\ IsApi(r)
    /\ \/ /\ req[r].at = "booked"
          /\ PutTx(r, [OpenTx EXCEPT !.paid = TRUE])
          /\ Told(r, "ok", "unbooked")
       \/ /\ req[r].at = "refused"
          /\ PutTx(r, [OpenTx EXCEPT !.err = TRUE])
          /\ Told(r, "failed", "internal")
       \/ /\ StoreFails /\ req[r].at \in {"booked", "refused"}
          /\ Answer(r, IF req[r].at = "booked" THEN "unbooked" ELSE "internal")
          /\ UNCHANGED tx
    /\ UNCHANGED <<pool, lock, funds, revoked, daily, settled, payer, admin, overdraft, had>>

-----------------------------------------------------------------------------
(* fund, withdraw and revoke *)

AdminAt(a, state) == admin' = [admin EXCEPT ![a].at = state]

\* withBalanceLock: one fund or withdraw of a connection at a time.
BalanceLocked(c) ==
    \E a \in Admins : admin[a].conn = c /\ admin[a].at \in {"read", "counted"}

\* fund: the sats of the wallet ...
FundRead(a) ==
    /\ admin[a].kind = "fund"
    /\ admin[a].at = "waiting"
    /\ ~BalanceLocked(admin[a].conn)
    /\ admin' = [admin EXCEPT ![a].at = "read", ![a].wallet = pool]
    /\ UNCHANGED <<pool, lock, funds, revoked, tx, daily, settled, payer, req, overdraft, had>>

\* ... then the connections: objects shared with the store, or rows copied ...
FundCount(a) ==
    /\ admin[a].at = "read"
    /\ admin' = [admin EXCEPT ![a].at = "counted", ![a].allocated = Allocated]
    /\ UNCHANGED <<pool, lock, funds, revoked, tx, daily, settled, payer, req, overdraft, had>>

\* Mutant: what other connections were promised is ignored.
FundCommitWhole(a) ==
    /\ admin[a].at = "counted"
    /\ IF FundSats > admin[a].wallet THEN UNCHANGED funds
       ELSE funds' = [funds EXCEPT ![admin[a].conn] = @ + FundSats * 1000]
    /\ AdminAt(a, "done")
    /\ UNCHANGED <<pool, lock, revoked, tx, daily, settled, payer, req, overdraft, had>>

Counted(a) == IF LiveConns THEN Allocated ELSE admin[a].allocated

\* ... then the check against what is not allocated, and the transfer.
FundCommit(a) ==
    /\ admin[a].at = "counted"
    /\ IF FundSats > admin[a].wallet - (Counted(a) \div 1000) THEN UNCHANGED funds
       ELSE funds' = [funds EXCEPT ![admin[a].conn] = @ + FundSats * 1000]
    /\ AdminAt(a, "done")
    /\ UNCHANGED <<pool, lock, revoked, tx, daily, settled, payer, req, overdraft, had>>

\* Mutant: the balance is not compared with the amount.
WithdrawUnchecked(a) ==
    /\ admin[a].kind = "withdraw"
    /\ admin[a].at = "waiting"
    /\ ~BalanceLocked(admin[a].conn)
    /\ funds' = [funds EXCEPT ![admin[a].conn] = @ - FundSats * 1000]
    /\ AdminAt(a, "done")
    /\ UNCHANGED <<pool, lock, revoked, tx, daily, settled, payer, req, overdraft, had>>

\* withdraw: check and transfer in one go once the lock is free; a revoked
\* connection is not refused.
Withdraw(a) ==
    /\ admin[a].kind = "withdraw"
    /\ admin[a].at = "waiting"
    /\ ~BalanceLocked(admin[a].conn)
    /\ IF FundSats * 1000 > funds[admin[a].conn] THEN UNCHANGED funds
       ELSE funds' = [funds EXCEPT ![admin[a].conn] = @ - FundSats * 1000]
    /\ AdminAt(a, "done")
    /\ UNCHANGED <<pool, lock, revoked, tx, daily, settled, payer, req, overdraft, had>>

\* A request to fund a revoked connection is refused when it arrives.
AdminRequest(a) ==
    /\ admin[a].kind \in {"fund", "withdraw"}
    /\ admin[a].at = "new"
    /\ Cardinality(Running) < MaxRunning
    /\ AdminAt(a, IF admin[a].kind = "fund" /\ admin[a].conn \in revoked THEN "done"
                  ELSE "waiting")
    /\ UNCHANGED <<pool, lock, funds, revoked, tx, daily, settled, payer, req, overdraft, had>>

\* Revoking releases the balance to the main wallet; payments under way go on.
Revoke(a) ==
    /\ admin[a].kind = "revoke"
    /\ admin[a].at = "new"
    /\ Cardinality(Running) < MaxRunning
    /\ revoked' = revoked \cup {admin[a].conn}
    /\ funds' = [funds EXCEPT ![admin[a].conn] = 0]
    /\ AdminAt(a, "done")
    /\ UNCHANGED <<pool, lock, tx, daily, settled, payer, req, overdraft, had>>

-----------------------------------------------------------------------------
PayStep(r) ==
    \/ CheckLimits(r) \/ CheckPool(r) \/ Book(r) \/ TrackSpend(r) \/ BookFailure(r)
    \/ PayThrows(r) \/ Take(r) \/ Paid(r) \/ NotPaid(r)
    \/ ApiCheckPool(r) \/ ApiTrackSpend(r) \/ ApiRecord(r)

AdminStep(a) ==
    AdminRequest(a) \/ FundRead(a) \/ FundCount(a) \/ FundCommit(a) \/ Withdraw(a) \/ Revoke(a)

Next ==
    \/ \E r \in Requests : Receive(r) \/ ApiReceive(r) \/ PayStep(r)
    \/ \E a \in Admins : AdminStep(a)

Spec == Init /\ [][Next]_vars

\* The mint answers or the request fails; the event loop runs what is ready.
FairSpec == Spec /\ \A r \in Requests : WF_vars(PayStep(r))

-----------------------------------------------------------------------------
(* Properties *)

\* What the percentage set aside for the routing fee has to cover: one sat less than
\* the invoice, the service fee and the mint's reserve, and a payment is refused.
ReserveCovers ==
    \A i \in Invoices :
        LET need == Sats[i] + calcServiceFee(Sats[i])
        IN  ((100 - FeeReservePct) * ((need + MintReserve - 1) * 1000)) \div 100 < need * 1000

\* Every variable holds a value of its kind.
TypeOK ==
    /\ pool \in Nat
    /\ lock \in Requests \cup {"free"}
    /\ funds \in [Conns -> Nat]
    /\ revoked \subseteq Conns
    /\ tx \in [Callers -> [Invoices -> [known : BOOLEAN, paid : BOOLEAN, err : BOOLEAN]]]
    /\ daily \in [Callers -> Nat]
    /\ settled \subseteq Invoices
    /\ payer \in [Invoices -> Callers \cup {NoOne}]
    /\ req \in [Requests -> [at : ReqStates, answer : Answers, caller : Callers,
                             invoice : Invoices, routing : Nat]]
    /\ admin \in [Admins -> [at : AdminStates, kind : {"fund", "withdraw", "revoke"},
                             conn : Dedicated, wallet : Nat, allocated : Nat]]
    /\ overdraft \in [Conns -> Nat]
    /\ had \in [Requests -> Int]

\* "The connected app can only spend what you put in" (docs/CLI.md): no payment of a
\* dedicated connection takes more than its own balance, the rest of it coming
\* out of the main wallet.  The code does not keep to it: OverdraftBounded says
\* what it does.
Isolation == \A c \in Dedicated : overdraft[c] = 0

NonNegative(n) == IF n < 0 THEN 0 ELSE n

Goes(r, from, to) == req[r].at = from /\ req'[r].at = to

\* What the check of a payment left for its routing fee.
SetAside(r) == had[r] - ((100 - FeeReservePct) * had[r]) \div 100

\* However handlers interleave, a dedicated connection spends beyond its balance only
\* by what the balance fell since the check of the payment being booked (another
\* payment, a withdraw, a revocation), and by the routing fee the percentage set
\* aside does not cover.
OverdraftBounded ==
    [][\A c \in Dedicated : overdraft'[c] # overdraft[c] =>
        \E r \in Requests :
            /\ req[r].caller = c /\ Goes(r, "settled", "booked")
            /\ overdraft'[c] - overdraft[c] <= NonNegative(had[r] - funds[c])
                  + NonNegative(req[r].routing * 1000 - SetAside(r))]_vars

\* What is not promised to a dedicated connection: the pool with what is on its way
\* to the mint, less the balances, less what they already paid.
Unbooked(c) == MapThenSumSet(LAMBDA r : (Needed(r) + req[r].routing) * 1000,
                             {r \in Requests : req[r].caller = c /\ req[r].at = "settled"})
Left(c)     == NonNegative(funds[c] - Unbooked(c))
OnItsWay    == MapThenSumSet(LAMBDA r : (Sats[req[r].invoice] + MintReserve) * 1000,
                             {r \in Requests : req[r].at = "melting"})
Free        == pool * 1000 + OnItsWay - MapThenSumSet(Left, Dedicated \ revoked)

\* What there is now for a payment whose check is past.
NowFor(r) == IF req[r].caller \notin Dedicated THEN Free
             ELSE IF req[r].caller \in revoked THEN 0 ELSE Left(req[r].caller)

\* The ecash comes to cover less than the dedicated connections were promised only by
\* a payment of the API, which looks at the whole pool; by a payment, or a funding,
\* whose check saw more than there is when it takes effect; or by a routing fee
\* beyond what was set aside.
ShortfallHasCause ==
    [][Free' < 0 /\ Free' < Free =>
        \/ \E r \in Requests :
              /\ Goes(r, "melting", "settled")
              /\ \/ IsApi(r)
                 \/ had[r] > NowFor(r)
                 \/ req'[r].routing * 1000 > SetAside(r)
        \/ \E a \in Admins : /\ admin[a].at = "counted" /\ admin'[a].at = "done"
                            /\ admin[a].wallet * 1000 - Counted(a) > Free]_vars

\* One connection never has two payments of the same invoice at the mint, nor
\* one of an invoice it has already paid.
OnePaymentPerInvoice ==
    \A r \in Requests : ~IsApi(r) /\ req[r].at \in {"queued", "melting"} =>
        /\ payer[req[r].invoice] # req[r].caller
        /\ \A q \in Requests \ {r} : req[q].at \in {"queued", "melting", "settled"} =>
              <<req[q].caller, req[q].invoice>> # <<req[r].caller, req[r].invoice>>

\* Past the check of the limits, and not counted in the day's spend.
Uncounted(r) ==
    \/ req[r].at \in {"checked", "queued", "melting", "settled"}
    \/ req[r].at = "booked" /\ ~IsApi(r)
UncountedOf(c) == {r \in Requests : req[r].caller = c /\ Uncounted(r)}

Amount == [r \in Requests |-> Sats[req[r].invoice]]

Smaller(m, n) == IF m < n THEN m ELSE n

LimitOf(c) == IF c = Api THEN DailyLimitSats ELSE Stricter(DailyLimitSats, ConnMaxDailySats)

\* What is counted of a caller's day, and what it is about to spend, passes the stricter
\* of its limits at most by an invoice within the limit for each handler that ran
\* beside the last check: the spend is read before the payment and counted after it.
DailyOverrunBounded ==
    \A c \in Callers : LimitOf(c) # 0 =>
        daily[c] + MapThenSumSet(LAMBDA r : Amount[r], UncountedOf(c))
            <= LimitOf(c) + (MaxRunning - 1) * Smaller(LimitOf(c), LargestSats)

\* However requests interleave, a connection that paid an invoice has it in its
\* history as paid once the payment is booked, so that a retry is answered from
\* the history.
PaidIsRecorded ==
    \A i \in Invoices : payer[i] \in Conns =>
        \/ tx[payer[i]][i].paid
        \/ \E r \in Requests : req[r].at = "settled" /\ req[r].invoice = i

\* A record of an invoice a connection paid is never replaced by a fresh one: no later
\* request makes its history forget a payment.  (The management API looks at no
\* history: a failed repeat replaces its record of a payment.)
PaidIsForever ==
    [][\A c \in Conns, i \in Invoices : tx[c][i].paid => tx'[c][i].paid]_vars

\* A client told of success, now or from the history, has its invoice paid.
SuccessMeansPaid ==
    \A r \in Requests : req[r].answer \in {"ok", "cached"} => req[r].invoice \in settled

\* The payment of a request as its handler knows it: payInvoice not called, called,
\* returned with success, returned without or thrown; and its melt quote.
PayStatus(r) ==
    IF req[r].at \in {"queued", "melting", "settled", "refused"} THEN "asked"
    ELSE IF \/ req[r].at = "booked"
            \/ req[r].at = "answered" /\ req[r].answer \in {"ok", "unbooked"} THEN "ok"
    ELSE IF req[r].at = "answered" /\ req[r].answer \in {"failed", "internal"} THEN "failed"
    ELSE "idle"

PayMelt(r) == IF req[r].at = "settled" \/ PayStatus(r) = "ok" THEN "PAID" ELSE "UNPAID"

\* Both pay handlers use payInvoice as Payment promises it, in the case that its
\* failures are final: they call it once, and answer what it returned.
Promise == INSTANCE Payment WITH
    Payers <- Requests, Definite <- TRUE,
    status <- [r \in Requests |-> PayStatus(r)], melt <- [r \in Requests |-> PayMelt(r)]
UsesPayment == Promise!Spec

\* Each request that got past the duplicate check is answered in the end.
EveryRequestAnswered ==
    \A r \in Requests : req[r].at = "recorded" ~> req[r].at = "answered"
=============================================================================
