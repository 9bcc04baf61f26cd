------------------------------ MODULE MoneyPages ------------------------------
(***************************************************************************)
(* Receiving and paying by hand: the console's Receive and Pay pages,       *)
(* nutbits receive and nutbits pay, over POST /receive, /receive/check, /pay *)
(* and GET /lnurl/resolve.  A client waits fifteen seconds for an answer;    *)
(* the service goes on with what it was asked.                              *)
(*                                                                         *)
(* What the service does inside is in InvoiceLifecycle and Spending: here an *)
(* invoice is paid at the mint that issued it, a check mints it once, and a  *)
(* payment ends paid or not.                                                *)
(***************************************************************************)
EXTENDS Naturals, FiniteSets

CONSTANTS
    Mints,
    Receipts,    \* invoices that may be asked for
    Invoices,    \* bolt11 invoices that may be typed in
    Addresses,   \* Lightning Addresses that may be
    Payments,    \* POST /pay requests
    Tools,       \* who is used in this instance
    MaxAttempts, \* how often nutbits receive checks (120)
    MaxInputs,   \* bound: how often the input is changed
    MaxSwitches, \* bound: how often the service moves to another mint
    MoneyFaults  \* what may go wrong

Payees == Invoices \cup Addresses
Nothing == "blank"

AllMoneyFaults == {"timeout",     \* an answer takes longer than the client waits
                   "unreachable", \* the service cannot be reached
                   "mintSilent"}  \* the mint issues tokens and its answer is lost

ASSUME MoneyAssumption ==
    /\ Invoices \cap Addresses = {} /\ Nothing \notin Payees \cup Receipts \cup Mints
    /\ Mints # {} /\ {MaxAttempts, MaxInputs, MaxSwitches} \subseteq Nat
    /\ MoneyFaults \subseteq AllMoneyFaults
    /\ Tools # {} /\ Tools \subseteq {"receivePage", "receiveCommand", "payPage", "payCommand"}

VARIABLES
    active,     \* the service's active mint
    issuer,     \* issuer[r]: the mint that issued the invoice
    told,       \* told[r]: the mint the reply names
    quote,      \* quote[r] at its mint: none, unpaid, paid, issued
    excused,    \* ghost: receipts whose minting the client cannot be told of
    switches,
    tool,       \* what is used
    making,     \* the POST /receive under way, and how far it is
    invoice,    \* invoiceData
    received,   \* paymentReceived
    polling,    \* the timer
    checks,     \* checks under way and what they bring
    attempts,   \* of nutbits receive
    input,      \* the Pay page's input
    typed,      \* the debounce timer runs
    resolving,  \* addresses being resolved
    meta,       \* lnAddrMeta
    inputs,
    payment,    \* payment[p]: none, running, paid, unpaid
    payee,      \* whom it pays
    reply,      \* the answer to it: none, sent, error
    paying,     \* the payment the client waits for
    outcome     \* what the client was shown of each payment: none, sent, failed

mintVars  == <<active, issuer, told, quote, excused, switches>>
recvVars  == <<making, invoice, received, polling, checks, attempts>>
inputVars == <<input, typed, resolving, meta, inputs>>
payVars   == <<payment, payee, reply, paying, outcome>>
moneyVars == <<mintVars, tool, recvVars, inputVars, payVars>>

NoMaking == [r |-> Nothing, step |-> "none"]

MoneyInit ==
    /\ active \in Mints /\ switches = 0
    /\ issuer = [r \in Receipts |-> Nothing] /\ told = issuer
    /\ quote = [r \in Receipts |-> "none"] /\ excused = {}
    /\ tool \in Tools
    /\ making = NoMaking /\ invoice = Nothing /\ received = FALSE
    /\ polling = FALSE /\ checks = {} /\ attempts = 0
    /\ input = Nothing /\ typed = FALSE /\ resolving = {} /\ meta = Nothing /\ inputs = 0
    /\ payment = [p \in Payments |-> "none"] /\ payee = [p \in Payments |-> Nothing]
    /\ reply = [p \in Payments |-> "none"] /\ paying = Nothing
    /\ outcome = [p \in Payments |-> "none"]

Receiving == tool \in {"receivePage", "receiveCommand"}
Paying    == tool \in {"payPage", "payCommand"}

-----------------------------------------------------------------------------
(* The service and the mint *)

\* A failover, the health loop or the operator.
Switch ==
    /\ switches < MaxSwitches /\ switches' = switches + 1
    /\ \E m \in Mints \ {active} : active' = m
    /\ UNCHANGED <<issuer, told, quote, excused, tool, recvVars, inputVars, payVars>>

Pay(r) ==
    /\ quote[r] = "unpaid" /\ quote' = [quote EXCEPT ![r] = "paid"]
    /\ UNCHANGED <<active, issuer, told, excused, switches, tool, recvVars, inputVars, payVars>>

\* POST /receive: the quote is made, by the mint that is active then.
Make ==
    /\ making.step = "asked"
    /\ quote' = [quote EXCEPT ![making.r] = "unpaid"]
    /\ issuer' = [issuer EXCEPT ![making.r] = active]
    /\ making' = [making EXCEPT !.step = "recording"]
    /\ UNCHANGED <<active, told, excused, switches, tool, invoice, received, polling, checks,
                   attempts, inputVars, payVars>>

\* Its record is stored, and the reply names the mint that is active now.
MakeReplies ==
    /\ making.step = "recording"
    /\ told' = [told EXCEPT ![making.r] = active]
    /\ excused' = IF issuer[making.r] = active THEN excused ELSE excused \cup {making.r}
    /\ making' = [making EXCEPT !.step = "replied"]
    /\ UNCHANGED <<active, issuer, quote, switches, tool, invoice, received, polling, checks,
                   attempts, inputVars, payVars>>

\* POST /receive/check: a paid quote of that mint is minted, once.
CheckRuns(k) ==
    /\ k \in checks /\ k.says = "running"
    /\ LET mints == quote[k.r] = "paid" /\ told[k.r] = issuer[k.r]
           Says(a) == checks' = (checks \ {k}) \cup {[k EXCEPT !.says = a]}
       IN  \/ mints /\ Says("paid") /\ UNCHANGED excused
           \/ mints /\ "mintSilent" \in MoneyFaults /\ Says("unpaid") /\ excused' = excused \cup {k.r}
           \/ ~mints /\ Says("unpaid") /\ UNCHANGED excused
    /\ quote' = IF quote[k.r] = "paid" /\ told[k.r] = issuer[k.r]
                THEN [quote EXCEPT ![k.r] = "issued"] ELSE quote
    /\ UNCHANGED <<active, issuer, told, switches, tool, making, invoice, received, polling,
                   attempts, inputVars, payVars>>

-----------------------------------------------------------------------------
(* The Receive page and nutbits receive *)

\* createInvoice; the form is open when no invoice is shown.
AskInvoice(r) ==
    /\ Receiving /\ quote[r] = "none" /\ r = CHOOSE x \in Receipts : quote[x] = "none"
    /\ making = NoMaking /\ invoice = Nothing
    /\ making' = [r |-> r, step |-> "asked"]
    /\ received' = FALSE
    /\ UNCHANGED <<mintVars, tool, invoice, polling, checks, attempts, inputVars, payVars>>

\* The invoice comes, and the timer starts.
InvoiceArrives ==
    /\ making.step = "replied"
    /\ invoice' = making.r /\ making' = NoMaking
    /\ polling' = TRUE
    /\ UNCHANGED <<mintVars, tool, received, checks, attempts, inputVars, payVars>>

\* The client gives up; the invoice exists and nobody sees it.
InvoiceLost ==
    /\ making.step = "replied" /\ "timeout" \in MoneyFaults
    /\ making' = NoMaking
    /\ UNCHANGED <<mintVars, tool, invoice, received, polling, checks, attempts, inputVars, payVars>>

\* checkPayment: the timer stops itself once nothing is left to ask; else a
\* request goes out, whether or not the last has been answered.  The command
\* waits for each, and stops after MaxAttempts.
CheckPayment ==
    /\ polling
    /\ IF invoice = Nothing \/ received
       THEN polling' = FALSE /\ UNCHANGED <<checks, attempts>>
       ELSE /\ UNCHANGED polling
            /\ checks' = checks \cup {[r |-> invoice, says |-> "running"]}
            /\ tool = "receiveCommand" => checks = {} /\ attempts < MaxAttempts
            /\ attempts' = IF tool = "receiveCommand" THEN attempts + 1 ELSE attempts
    /\ checks' # checks \/ ~polling'
    /\ UNCHANGED <<mintVars, tool, making, invoice, received, inputVars, payVars>>

\* "Timed out after 10 minutes."
GiveUp ==
    /\ tool = "receiveCommand" /\ polling /\ checks = {} /\ attempts = MaxAttempts
    /\ polling' = FALSE /\ excused' = excused \cup {invoice}
    /\ UNCHANGED <<active, issuer, told, quote, switches, tool, making, invoice, received, checks,
                   attempts, inputVars, payVars>>

\* An answer, to whichever invoice it belongs.
CheckArrives(k) ==
    /\ k \in checks /\ k.says # "running"
    /\ checks' = checks \ {k}
    /\ IF k.says = "paid" THEN received' = TRUE /\ polling' = FALSE
                          ELSE UNCHANGED <<received, polling>>
    /\ UNCHANGED <<mintVars, tool, making, invoice, attempts, inputVars, payVars>>

\* Mutant: a failed check ends the polling.
CheckFailsForGood(k) ==
    /\ k \in checks
    /\ \/ k.says = "running" /\ "unreachable" \in MoneyFaults /\ UNCHANGED excused
       \/ k.says # "running" /\ "timeout" \in MoneyFaults
          /\ excused' = IF k.says = "paid" THEN excused \cup {k.r} ELSE excused
    /\ checks' = checks \ {k} /\ polling' = FALSE
    /\ UNCHANGED <<active, issuer, told, quote, switches, tool, making, invoice, received,
                   attempts, inputVars, payVars>>

\* The request does not get through, or its answer comes too late: the next
\* poll asks again.
CheckFails(k) ==
    /\ k \in checks
    /\ \/ k.says = "running" /\ "unreachable" \in MoneyFaults /\ UNCHANGED excused
       \/ k.says # "running" /\ "timeout" \in MoneyFaults
          /\ excused' = IF k.says = "paid" THEN excused \cup {k.r} ELSE excused
    /\ checks' = checks \ {k}
    /\ UNCHANGED <<active, issuer, told, quote, switches, tool, making, invoice, received, polling,
                   attempts, inputVars, payVars>>

\* "New Invoice".
Reset ==
    /\ tool = "receivePage" /\ invoice # Nothing
    /\ invoice' = Nothing /\ received' = FALSE /\ polling' = FALSE
    /\ UNCHANGED <<mintVars, tool, making, checks, attempts, inputVars, payVars>>

-----------------------------------------------------------------------------
(* The Pay page and nutbits pay *)

\* The input changes: metadata of another address goes, an address starts the
\* debounce timer.
TypeIn(v) ==
    /\ tool = "payPage" /\ v # input /\ inputs < MaxInputs /\ inputs' = inputs + 1
    /\ input' = v /\ typed' = (v \in Addresses)
    /\ meta' = IF v = meta THEN meta ELSE Nothing
    /\ UNCHANGED <<mintVars, tool, recvVars, resolving, payVars>>

\* The user has stopped typing: GET /lnurl/resolve.
Resolve ==
    /\ typed /\ typed' = FALSE
    /\ resolving' = resolving \cup {input} /\ meta' = Nothing
    /\ UNCHANGED <<mintVars, tool, recvVars, input, inputs, payVars>>

\* It is answered, or not; what comes is put beside whatever is typed by now.
Resolved(a) ==
    /\ a \in resolving /\ resolving' = resolving \ {a}
    /\ meta' \in {a, meta}
    /\ UNCHANGED <<mintVars, tool, recvVars, input, typed, inputs, payVars>>

\* canPay
CanPay == paying = Nothing /\ (input \in Invoices \/ (input \in Addresses /\ meta # Nothing))

Submit(p, to) ==
    /\ payment[p] = "none" /\ p = CHOOSE x \in Payments : payment[x] = "none"
    /\ paying = Nothing
    /\ payment' = [payment EXCEPT ![p] = "running"] /\ payee' = [payee EXCEPT ![p] = to]
    /\ paying' = p
    /\ UNCHANGED <<mintVars, tool, recvVars, inputVars, reply, outcome>>

\* submitPayment; the button, or the command with an invoice.
SubmitPayment(p) ==
    \/ tool = "payPage" /\ CanPay /\ Submit(p, input)
    \/ tool = "payCommand" /\ \E i \in Invoices : Submit(p, i)

\* An invoice is paid once; each payment to an address gets an invoice of its own.
Payable(p) == payee[p] \in Invoices => \A o \in Payments : payee[o] = payee[p] => payment[o] # "paid"

\* POST /pay: refused by a limit, the balance or the address's service; thrown
\* by the wallet; or the payment has ended, and its outcome is in an answer that
\* is a success either way.
PayEnds(p) ==
    /\ payment[p] = "running"
    /\ \/ payment' = [payment EXCEPT ![p] = "unpaid"] /\ reply' = [reply EXCEPT ![p] = "error"]
       \/ payment' = [payment EXCEPT ![p] = "unpaid"] /\ reply' = [reply EXCEPT ![p] = "ok"]
       \/ /\ Payable(p)
          /\ payment' = [payment EXCEPT ![p] = "paid"] /\ reply' = [reply EXCEPT ![p] = "ok"]
    /\ UNCHANGED <<mintVars, tool, recvVars, inputVars, payee, paying, outcome>>

Show(p, s) ==
    /\ paying = p /\ paying' = Nothing
    /\ outcome' = [outcome EXCEPT ![p] = s]
    /\ UNCHANGED <<mintVars, tool, recvVars, inputVars, payment, payee, reply>>

\* An answer means sent, an error means failed.
PayAnswered(p) == reply[p] # "none" /\ Show(p, IF reply[p] = "ok" THEN "sent" ELSE "failed")

\* The client has waited long enough.
PayTimesOut(p) == "timeout" \in MoneyFaults /\ Show(p, "failed")

-----------------------------------------------------------------------------
MoneyNext ==
    \/ Switch \/ Make \/ MakeReplies
    \/ \E r \in Receipts : Pay(r) \/ AskInvoice(r)
    \/ \E k \in checks : CheckRuns(k) \/ CheckArrives(k) \/ CheckFails(k)
    \/ InvoiceArrives \/ InvoiceLost \/ CheckPayment \/ GiveUp \/ Reset
    \/ \E v \in Payees : TypeIn(v)
    \/ Resolve \/ \E a \in Addresses : Resolved(a)
    \/ \E p \in Payments : SubmitPayment(p) \/ PayEnds(p) \/ PayAnswered(p) \/ PayTimesOut(p)

MoneySpec == MoneyInit /\ [][MoneyNext]_moneyVars

\* Timers fire, the service answers what reaches it, an answer arrives or is
\* given up, and of requests made again and again one gets through.
MoneyFairness ==
    /\ WF_moneyVars(CheckPayment) /\ WF_moneyVars(GiveUp)
    /\ SF_moneyVars(\E k \in checks : CheckRuns(k))
    /\ \A a \in {"paid", "unpaid"} : WF_moneyVars(\E k \in checks : k.says = a /\ CheckArrives(k))

-----------------------------------------------------------------------------
(* Properties *)

\* Every variable holds a value of its kind.
MoneyTypeOK ==
    /\ active \in Mints /\ issuer \in [Receipts -> Mints \cup {Nothing}]
    /\ quote \in [Receipts -> {"none", "unpaid", "paid", "issued"}]
    /\ making.step \in {"none", "asked", "recording", "replied"}
    /\ checks \subseteq [r : Receipts, says : {"running", "paid", "unpaid"}]
    /\ resolving \subseteq Addresses /\ meta \in Addresses \cup {Nothing}
    /\ payment \in [Payments -> {"none", "running", "paid", "unpaid"}]
    /\ outcome \in [Payments -> {"none", "sent", "failed"}]

\* A paid invoice the page still shows is in the end shown as received, although
\* checks fail and are answered in any order - except for those the client
\* cannot be told of: the mint kept silent, the answer that said so was lost, the
\* service named another mint than the invoice's, or the command gave up.
PaidIsShown ==
    \A r \in Receipts :
        (invoice = r /\ quote[r] \in {"paid", "issued"}) ~> (received \/ invoice # r \/ r \in excused)

\* "Payment received!" is shown of a paid invoice.
ReceivedIsPaid == (received /\ invoice # Nothing) => quote[invoice] \in {"paid", "issued"}

\* The reply to receive names the mint of the invoice.
ReplyNamesIssuer == \A r \in Receipts : told[r] \in {Nothing, issuer[r]}

\* "Payment sent!" is shown of a payment that was made.
SentMeansPaid == \A p \in Payments : outcome[p] = "sent" => payment[p] = "paid"

\* "Your balance was not affected.": a payment shown as failed is not made.
FailedIsUnpaid == \A p \in Payments : outcome[p] = "failed" => payment[p] # "paid"

\* The limits and the name beside the input are those of the address in it.
MetaMatchesPayee == meta \in {Nothing, input}
=============================================================================
