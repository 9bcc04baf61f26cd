--------------------------- MODULE InvoiceLifecycle ---------------------------
(***************************************************************************)
(* An incoming invoice from the request to the credit: make_invoice of a    *)
(* dedicated connection and POST /api/v1/receive, the waiter (WebSocket,    *)
(* then polling), lookup_invoice and POST /api/v1/receive/check, all of     *)
(* them through checkAndMintTokens, which asks the mint, has it issue the   *)
(* tokens, stores them, marks the record and credits the connection.       *)
(*                                                                         *)
(* The mint issues the tokens of a quote once.  Every invoice is worth one  *)
(* unit.  What the store of proofs does is in ProofVault; here a set of     *)
(* invoices whose tokens it holds.                                         *)
(***************************************************************************)
EXTENDS Naturals, FiniteSets

CONSTANTS
    NwcInvoices,  \* asked for by the connection
    ApiInvoices,  \* asked for through the management API
    Lookups,      \* calls of lookup_invoice and of receive/check
    WebSocket,    \* the mint has NUT-17
    MaxTries,     \* maxRetries of checkAndMintTokens
    MaxPolls,     \* config.maxRetries of pollInvoice
    InOrder,      \* TRUE: the store's writes keep their order (file, SQLite)
                  \* FALSE: each takes a pooled connection (MySQL)
    Faults,       \* the faults that may happen
    MaxSilent,    \* bound: requests the mint does not answer
    MaxCrashes    \* bound: crashes of the process

Invoices == NwcInvoices \cup ApiInvoices
Tasks == Invoices \cup Lookups   \* an invoice names its own creation and waiter

AllFaults == {"lostAnswer",  \* the mint issues the tokens, its answer is lost
              "storeWrite"}  \* a write of the store throws

ASSUME InvoiceAssumption ==
    /\ NwcInvoices \cap ApiInvoices = {}
    /\ Lookups \cap Invoices = {}
    /\ IsFiniteSet(NwcInvoices) /\ IsFiniteSet(ApiInvoices) /\ IsFiniteSet(Lookups)
    /\ WebSocket \in BOOLEAN
    /\ MaxTries \in Nat \ {0} /\ MaxPolls \in Nat \ {0}
    /\ MaxSilent \in Nat /\ MaxCrashes \in Nat /\ InOrder \in BOOLEAN
    /\ Faults \subseteq AllFaults

VARIABLES
    quote,      \* what the mint says of each invoice's quote
    expired,    \* the invoices past expires_at
    tx,         \* tx_history in memory (the connection's records only)
    row,        \* the record in the store
    balance,    \* dedicated_balance_msat in memory
    balanceRow, \* ... in the store
    stored,     \* invoices whose tokens the store of proofs holds
    lost,       \* ghost: invoices whose tokens only the seed can find
    forfeit,    \* ghost: credits a named fault or a crash prevented
    at,         \* where each task stands
    of,         \* the invoice a task is about
    tries,      \* attempts of its running checkAndMintTokens
    polls,      \* attempts of its pollInvoice
    carry,      \* the balance it is writing to the store
    silent,     \* requests the mint did not answer
    up, crashes

mintVars == <<quote, expired>>
recVars  == <<tx, row>>
balVars  == <<balance, balanceRow, forfeit>>
tokVars  == <<stored, lost>>
taskVars == <<at, of, tries, polls, carry>>
procVars == <<silent, up, crashes>>
vars == <<mintVars, recVars, balVars, tokVars, taskVars, procVars>>

TaskStates == {"idle", "recording", "subscribed", "sleeping", "checking", "minting",
               "storing", "settling", "crediting", "done"}
Resting == {"idle", "done"}

Init ==
    /\ quote = [i \in Invoices |-> "none"] /\ expired = {}
    /\ tx = [i \in Invoices |-> "none"]
    /\ row = [i \in Invoices |-> "none"]
    /\ balance = 0 /\ balanceRow = 0 /\ forfeit = 0
    /\ stored = {} /\ lost = {}
    /\ at = [t \in Tasks |-> "idle"]
    /\ of \in [Tasks -> Invoices] /\ \A i \in Invoices : of[i] = i
    /\ tries = [t \in Tasks |-> 0]
    /\ polls = [t \in Tasks |-> 0]
    /\ carry = [t \in Tasks |-> 0]
    /\ silent = 0 /\ up = TRUE /\ crashes = 0

Goto(t, s) == at' = [at EXCEPT ![t] = s]

\* checkAndMintTokens starts: its first attempt asks for the quote's state.
StartCheck(t) ==
    /\ Goto(t, "checking")
    /\ tries' = [tries EXCEPT ![t] = 0]

-----------------------------------------------------------------------------
(* The invoice is asked for *)

CreateInvoice(i) ==
    /\ up
    /\ at[i] = "idle" /\ quote[i] = "none"
    /\ quote' = [quote EXCEPT ![i] = "unpaid"]
    /\ Goto(i, "recording")
    /\ UNCHANGED <<expired, row, balVars, tokVars, of, tries, polls, carry, procVars>>

\* make_invoice: createInvoice has answered, the record is in memory and on its
\* way to the store.
MakeInvoice(i) ==
    /\ i \in NwcInvoices
    /\ CreateInvoice(i)
    /\ tx' = [tx EXCEPT ![i] = "pending"]

\* The API keeps no record in memory.
Receive(i) == i \in ApiInvoices /\ CreateInvoice(i) /\ UNCHANGED tx

\* setTx; then a waiter for a connection's invoice, nobody for the API's.
\* A failing write means an error for the client and no waiter.
Record(i) ==
    /\ up
    /\ at[i] = "recording"
    /\ \/ /\ row' = [row EXCEPT ![i] = "pending"]
          /\ IF i \in ApiInvoices THEN Goto(i, "done") /\ UNCHANGED tries
             ELSE IF WebSocket THEN Goto(i, "subscribed") /\ UNCHANGED tries
             ELSE StartCheck(i)
       \/ /\ "storeWrite" \in Faults
          /\ Goto(i, "done")
          /\ UNCHANGED <<row, tries>>
    /\ UNCHANGED <<mintVars, tx, balVars, tokVars, of, polls, carry, procVars>>

\* The payer, who got the invoice from the client, pays; or it runs out while
\* it is waited for (nobody else looks at the expiry).
Pay(i) ==
    /\ quote[i] = "unpaid" /\ i \notin expired /\ row[i] # "none"
    /\ quote' = [quote EXCEPT ![i] = "paid"]
    /\ UNCHANGED <<expired, recVars, balVars, tokVars, taskVars, procVars>>

Expire(i) ==
    /\ i \in NwcInvoices /\ at[i] \notin Resting
    /\ quote[i] \in {"unpaid", "paid"} /\ i \notin expired
    /\ expired' = expired \cup {i}
    /\ UNCHANGED <<quote, recVars, balVars, tokVars, taskVars, procVars>>

-----------------------------------------------------------------------------
(* waitForPayment, pollInvoice, lookup_invoice, receive/check *)

\* onceMintPaid resolves and one check follows, or it rejects (timeout, socket)
\* and polling takes over.
Subscription(i) ==
    /\ up
    /\ at[i] = "subscribed"
    /\ StartCheck(i)
    /\ \/ quote[i] \in {"paid", "issued"} /\ polls' = [polls EXCEPT ![i] = MaxPolls]
       \/ UNCHANGED polls
    /\ UNCHANGED <<mintVars, recVars, balVars, tokVars, of, carry, procVars>>

Wake(i) ==
    /\ up
    /\ at[i] = "sleeping"
    /\ StartCheck(i)
    /\ UNCHANGED <<mintVars, recVars, balVars, tokVars, of, polls, carry, procVars>>

\* A lookup checks what the record says is not settled.  receive/check asks
\* for any quote id.
Lookup(t) ==
    /\ up
    /\ at[t] = "idle"
    /\ IF of[t] \in NwcInvoices
       THEN tx[of[t]] # "none" /\ (IF tx[of[t]] = "pending" THEN StartCheck(t)
                                   ELSE Goto(t, "done") /\ UNCHANGED tries)
       ELSE quote[of[t]] # "none" /\ StartCheck(t)
    /\ UNCHANGED <<mintVars, recVars, balVars, tokVars, of, polls, carry, procVars>>

\* Mutant: a lookup that finds nothing is left to wait like a waiter.
NotMintedAgain(t) ==
    /\ at' = [at EXCEPT ![t] = "polling"]
    /\ polls' = [polls EXCEPT ![t] = @ + 1]

\* checkAndMintTokens returns false.  A lookup answers; a waiter polls again
\* unless the invoice ran out or its attempts are used up.
NotMinted(t) ==
    IF t \in Lookups \/ polls[t] + 1 >= MaxPolls \/ t \in expired
    THEN Goto(t, "done") /\ UNCHANGED polls
    ELSE Goto(t, "sleeping") /\ polls' = [polls EXCEPT ![t] = @ + 1]

\* Mutant: the first failure ends the attempts and the polling.
AttemptFailsForGood(t) ==
    /\ Goto(t, "done")
    /\ UNCHANGED <<tries, polls>>

\* An attempt throws: the next one after a pause, or the end of them.
AttemptFails(t) ==
    IF tries[t] + 1 < MaxTries
    THEN /\ Goto(t, "checking")
         /\ tries' = [tries EXCEPT ![t] = @ + 1]
         /\ UNCHANGED polls
    ELSE NotMinted(t) /\ UNCHANGED tries

-----------------------------------------------------------------------------
(* checkAndMintTokens *)

\* The mint does not answer, or not in time.
NoAnswer(t) ==
    /\ silent < MaxSilent
    /\ silent' = silent + 1
    /\ AttemptFails(t)

\* Mutant: a quote whose tokens were issued counts as paid.
CheckIssuedToo(t) ==
    /\ up
    /\ at[t] = "checking"
    /\ \/ /\ quote[of[t]] \in {"paid", "issued"}
          /\ Goto(t, IF quote[of[t]] = "paid" THEN "minting" ELSE "storing")
          /\ UNCHANGED <<tries, polls, silent>>
       \/ quote[of[t]] = "unpaid" /\ NotMinted(t) /\ UNCHANGED <<tries, silent>>
       \/ NoAnswer(t)
    /\ UNCHANGED <<mintVars, recVars, balVars, tokVars, of, carry, up, crashes>>

Check(t) ==
    /\ up
    /\ at[t] = "checking"
    /\ \/ quote[of[t]] = "paid" /\ Goto(t, "minting") /\ UNCHANGED <<tries, polls, silent>>
       \/ quote[of[t]] # "paid" /\ NotMinted(t) /\ UNCHANGED <<tries, silent>>
       \/ NoAnswer(t)
    /\ UNCHANGED <<mintVars, recVars, balVars, tokVars, of, carry, up, crashes>>

\* mintProofsBolt11: the first of several tasks gets the tokens, the mint
\* refuses the others.
Mint(t) ==
    /\ up
    /\ at[t] = "minting"
    /\ \/ /\ quote[of[t]] = "paid"
          /\ quote' = [quote EXCEPT ![of[t]] = "issued"]
          /\ \/ Goto(t, "storing") /\ UNCHANGED <<tries, polls, lost>>
             \/ /\ "lostAnswer" \in Faults
                /\ lost' = lost \cup {of[t]}
                /\ AttemptFails(t)
          /\ UNCHANGED silent
       \/ /\ quote[of[t]] = "issued"
          /\ AttemptFails(t)
          /\ UNCHANGED <<quote, lost, silent>>
       \/ NoAnswer(t) /\ UNCHANGED <<quote, lost>>
    /\ UNCHANGED <<expired, recVars, balVars, stored, of, carry, up, crashes>>

\* Mutant: the record is settled before the tokens are stored.
StoreAfterwards(t) ==
    /\ up
    /\ at[t] = "storing"
    /\ tx' = IF of[t] \in NwcInvoices THEN [tx EXCEPT ![of[t]] = "settled"] ELSE tx
    /\ \/ /\ stored' = stored \cup {of[t]}
          /\ Goto(t, "settling")
          /\ UNCHANGED <<tries, polls, lost>>
       \/ /\ "storeWrite" \in Faults
          /\ lost' = lost \cup {of[t]}
          /\ AttemptFails(t)
          /\ UNCHANGED stored
    /\ UNCHANGED <<mintVars, row, balVars, of, carry, procVars>>

\* addProofs; then a connection's record is settled in memory.
Store(t) ==
    /\ up
    /\ at[t] = "storing"
    /\ \/ /\ stored' = stored \cup {of[t]}
          /\ Goto(t, "settling")
          /\ tx' = IF of[t] \in NwcInvoices THEN [tx EXCEPT ![of[t]] = "settled"] ELSE tx
          /\ UNCHANGED <<tries, polls, lost>>
       \/ /\ "storeWrite" \in Faults
          /\ lost' = lost \cup {of[t]}
          /\ AttemptFails(t)
          /\ UNCHANGED <<stored, tx>>
    /\ UNCHANGED <<mintVars, row, balVars, of, carry, procVars>>

\* Mutant: a failed write of the record is not the credit's business, which is
\* tried again.
SettleRetries(t) ==
    /\ up
    /\ at[t] = "settling" /\ of[t] \in NwcInvoices
    /\ balance' = balance + 1
    /\ carry' = [carry EXCEPT ![t] = balance']
    /\ \/ row' = [row EXCEPT ![of[t]] = "settled"] /\ Goto(t, "crediting")
       \/ "storeWrite" \in Faults /\ UNCHANGED <<row, at>>
    /\ UNCHANGED <<mintVars, tx, balanceRow, forfeit, tokVars, of, tries, polls, procVars>>

\* updateTx; then the balance is credited in memory and updateConnection called
\* with its value.  If updateTx throws the attempt starts over, finds the quote
\* issued, and never credits.
Settle(t) ==
    /\ up
    /\ at[t] = "settling" /\ of[t] \in NwcInvoices
    /\ \/ /\ row' = [row EXCEPT ![of[t]] = IF @ = "none" THEN @ ELSE "settled"]
          /\ balance' = balance + 1
          /\ carry' = [carry EXCEPT ![t] = balance']
          /\ Goto(t, "crediting")
          /\ UNCHANGED <<forfeit, tries, polls>>
       \/ /\ "storeWrite" \in Faults
          /\ forfeit' = forfeit + 1
          /\ AttemptFails(t)
          /\ UNCHANGED <<row, balance, carry>>
    /\ UNCHANGED <<mintVars, tx, balanceRow, tokVars, of, procVars>>

\* receive/check stores what it learned: updateTx of no record does nothing, and
\* if it throws the client gets an error.
SettleApi(t) ==
    /\ up
    /\ at[t] = "settling" /\ of[t] \in ApiInvoices
    /\ \/ row' = [row EXCEPT ![of[t]] = IF @ = "none" THEN @ ELSE "settled"]
       \/ "storeWrite" \in Faults /\ UNCHANGED row
    /\ Goto(t, "done")
    /\ UNCHANGED <<mintVars, tx, balVars, tokVars, of, tries, polls, carry, procVars>>

\* The writes of updateConnection that were called before this one.
Ahead(t) == {s \in Tasks : at[s] = "crediting" /\ carry[s] < carry[t]}

\* updateConnection has written the value it was called with.
Credit(t) ==
    /\ up
    /\ at[t] = "crediting"
    /\ InOrder => Ahead(t) = {}
    /\ \/ /\ balanceRow' = carry[t]
          /\ Goto(t, "done")
          /\ UNCHANGED <<tries, polls>>
       \/ /\ "storeWrite" \in Faults
          /\ AttemptFails(t)
          /\ UNCHANGED balanceRow
    /\ UNCHANGED <<mintVars, recVars, balance, forfeit, tokVars, of, carry, procVars>>

-----------------------------------------------------------------------------
(* Crash and boot *)

Uncredited == {t \in Tasks : at[t] = "settling" /\ of[t] \in NwcInvoices}

Crash ==
    /\ up
    /\ crashes < MaxCrashes
    /\ up' = FALSE
    /\ crashes' = crashes + 1
    /\ lost' = lost \cup {of[t] : t \in {s \in Tasks : at[s] = "storing"}}
    /\ balance' = balanceRow
    /\ forfeit' = forfeit + Cardinality(Uncredited) + (balance - balanceRow)
    /\ tx' = [i \in Invoices |-> IF i \in NwcInvoices THEN row[i] ELSE "none"]
    /\ at' = [t \in Tasks |-> IF at[t] = "idle" THEN "idle" ELSE "done"]
    /\ UNCHANGED <<mintVars, row, balanceRow, stored, of, tries, polls, carry, silent>>

\* Records and balances are what the store says (tx' and balance' of Crash).
\* No waiter is started again: a pending invoice is checked when a client asks.
Boot ==
    /\ ~up
    /\ up' = TRUE
    /\ UNCHANGED <<mintVars, recVars, balVars, tokVars, taskVars, silent, crashes>>

-----------------------------------------------------------------------------
CheckAndMint(t) == Check(t) \/ Mint(t) \/ Store(t) \/ Settle(t) \/ SettleApi(t) \/ Credit(t)

Next ==
    \/ \E i \in Invoices : \/ MakeInvoice(i) \/ Receive(i) \/ Record(i) \/ Pay(i)
                           \/ Expire(i) \/ Subscription(i) \/ Wake(i)
    \/ \E t \in Lookups : Lookup(t)
    \/ \E t \in Tasks : CheckAndMint(t)
    \/ Crash \/ Boot

Spec == Init /\ [][Next]_vars

\* Every await settles, every timer fires; a subscription reports a payment or
\* is rejected.
Fairness ==
    \A t \in Tasks : /\ WF_vars(t \in Invoices /\ (Record(t) \/ Subscription(t) \/ Wake(t)))
                     /\ WF_vars(CheckAndMint(t))

FairSpec == Spec /\ Fairness

-----------------------------------------------------------------------------
(* Properties *)

\* Every variable holds a value of its kind.
TypeOK ==
    /\ quote \in [Invoices -> {"none", "unpaid", "paid", "issued"}]
    /\ expired \in SUBSET Invoices
    /\ tx \in [Invoices -> {"none", "pending", "settled"}]
    /\ row \in [Invoices -> {"none", "pending", "settled"}]
    /\ balance \in Nat /\ balanceRow \in Nat /\ forfeit \in Nat
    /\ stored \in SUBSET Invoices /\ lost \in SUBSET Invoices
    /\ at \in [Tasks -> TaskStates]
    /\ of \in [Tasks -> Invoices]
    /\ tries \in [Tasks -> Nat] /\ polls \in [Tasks -> Nat] /\ carry \in [Tasks -> Nat]
    /\ silent \in Nat /\ up \in BOOLEAN /\ crashes \in Nat

\* Waiter, lookups and checks may all work on one quote: each invoice whose
\* tokens are stored is credited to its connection once - or its credit is on
\* the way, or was forfeited to a named fault or a crash.
CreditedOnce ==
    balance + forfeit + Cardinality(Uncredited) = Cardinality(stored \cap NwcInvoices)

\* No record, in memory or in the store, says settled before the tokens of the
\* invoice are in the store of proofs: what a client reads as money it has, the
\* wallet has.
SettledMeansStored ==
    \A i \in Invoices : "settled" \in {tx[i], row[i]} => i \in stored

\* Whatever tokens the mint issued are stored, in a handler's hands on their
\* way there, or lost to a named fault; no two handlers hold the same ones.
IssuedIsAccounted ==
    \A i \in Invoices :
        LET holders == {t \in Tasks : at[t] = "storing" /\ of[t] = i}
        IN  /\ Cardinality(holders) <= 1
            /\ quote[i] = "issued" => (i \in stored \cup lost <=> holders = {})

\* The stored balance catches up with the credits: when no write is under way
\* it is the balance in memory, so a restart costs the connection nothing.
\* (Not with failing writes; and MySQL's may overtake each other.)
RowCatchesUp ==
    (\A t \in Tasks : at[t] # "crediting") => balanceRow = balance

\* As long as the mint fails to answer fewer times than there are attempts, an
\* invoice that is paid while somebody waits for it is minted: over WebSocket
\* or by polling, unless the process stops.
PaidIsMinted ==
    \A i \in NwcInvoices :
        (up /\ quote[i] = "paid" /\ at[i] \notin Resting) ~> (quote[i] = "issued" \/ ~up)
=============================================================================
