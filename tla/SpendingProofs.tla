---------------------------- MODULE SpendingProofs ----------------------------
(***************************************************************************)
(* Theorems about Spending, for any number of connections, invoices,       *)
(* requests and operator calls, any limits, fees and reserves, and however  *)
(* handlers interleave and writes to the store fail:                        *)
(*   - what the histories say of the invoices the mint has paid;             *)
(*   - how far a dedicated connection can spend beyond its balance, and a    *)
(*     caller beyond its daily limit, and by what cause;                     *)
(*   - that neither happens, and no invoice is paid twice, in a behaviour    *)
(*     where nothing comes between the check and the booking of a payment.   *)
(***************************************************************************)
EXTENDS Spending, FiniteSetTheorems, WellFoundedInduction, TLAPS

TxRecords  == [known : BOOLEAN, paid : BOOLEAN, err : BOOLEAN]
ReqRecords == [at : ReqStates, answer : Answers, caller : Callers,
               invoice : Invoices, routing : Nat]

\* The part of TypeOK the argument needs.
TxTyped  == tx \in [Callers -> [Invoices -> TxRecords]]
ReqTyped == req \in [Requests -> ReqRecords]

\* A record says paid, a request has heard that it paid, a client was told of
\* success: each only of an invoice the mint has paid.
PaidTxSettled  == \A c \in Callers, i \in Invoices : tx[c][i].paid => i \in settled
PaidReqSettled == \A r \in Requests :
                     req[r].at \in {"settled", "booked"} => req[r].invoice \in settled

HistoryInv ==
    TxTyped /\ ReqTyped /\ PaidTxSettled /\ PaidReqSettled /\ SuccessMeansPaid

-----------------------------------------------------------------------------
(* The two kinds of assignment *)

\* A record put into the history keeps HistoryInv's part about the history,
\* when it claims to be paid only if the mint has paid.
LEMMA PutTxKeeps ==
    ASSUME TxTyped, ReqTyped, PaidTxSettled, NEW r \in Requests,
           NEW record \in TxRecords, PutTx(r, record),
           record.paid => req[r].invoice \in settled, settled' = settled
    PROVE  TxTyped' /\ PaidTxSettled'
<1> USE DEF TxTyped, ReqTyped, PaidTxSettled
<1>1. req[r].caller \in Callers /\ req[r].invoice \in Invoices
  BY DEF ReqRecords
<1>2. tx' = [tx EXCEPT ![req[r].caller][req[r].invoice] = record]
  BY DEF PutTx
<1>3. TxTyped'
  BY <1>1, <1>2
<1>4. ASSUME NEW c \in Callers, NEW i \in Invoices, tx'[c][i].paid PROVE i \in settled
  <2>1. CASE c = req[r].caller /\ i = req[r].invoice
    BY <1>1, <1>2, <1>4, <2>1
  <2>2. CASE ~(c = req[r].caller /\ i = req[r].invoice)
    BY <1>1, <1>2, <1>4, <2>2
  <2>3. QED
    BY <2>1, <2>2
<1>5. QED
  BY <1>3, <1>4

\* A request that moves on keeps HistoryInv's part about requests, when it goes
\* to a state after the payment only with its invoice paid.
LEMMA AtKeeps ==
    ASSUME ReqTyped, PaidReqSettled, SuccessMeansPaid, NEW r \in Requests,
           NEW s \in ReqStates, At(r, s), settled' = settled,
           s \in {"settled", "booked"} => req[r].invoice \in settled
    PROVE  ReqTyped' /\ PaidReqSettled' /\ SuccessMeansPaid'
<1> USE DEF ReqTyped, PaidReqSettled, SuccessMeansPaid
<1>1. req' = [req EXCEPT ![r] = [req[r] EXCEPT !.at = s]]
  BY DEF At
<1>2. req[r] \in ReqRecords
  OBVIOUS
<1>3. [req[r] EXCEPT !.at = s] \in ReqRecords
  BY <1>2 DEF ReqRecords
<1>4. ReqTyped'
  BY <1>1, <1>3
<1>5. ASSUME NEW q \in Requests
      PROVE  /\ req'[q].answer = req[q].answer /\ req'[q].invoice = req[q].invoice
             /\ req'[q].at = IF q = r THEN s ELSE req[q].at
  BY <1>1, <1>2 DEF ReqRecords
<1>6. QED
  BY <1>4, <1>5

\* A request that is answered keeps it, when success is answered only with its
\* invoice paid.
LEMMA AnswerKeeps ==
    ASSUME ReqTyped, PaidReqSettled, SuccessMeansPaid, NEW r \in Requests,
           NEW a \in Answers, Answer(r, a), settled' = settled,
           a \in {"ok", "cached"} => req[r].invoice \in settled
    PROVE  ReqTyped' /\ PaidReqSettled' /\ SuccessMeansPaid'
<1> USE DEF ReqTyped, PaidReqSettled, SuccessMeansPaid
<1>1. req' = [req EXCEPT ![r] = [req[r] EXCEPT !.at = "answered", !.answer = a]]
  BY DEF Answer
<1>2. req[r] \in ReqRecords
  OBVIOUS
<1>3. [req[r] EXCEPT !.at = "answered", !.answer = a] \in ReqRecords
  BY <1>2 DEF ReqRecords, ReqStates
<1>4. ReqTyped'
  BY <1>1, <1>3
<1>5. ASSUME NEW q \in Requests
      PROVE  /\ req'[q].invoice = req[q].invoice
             /\ req'[q].answer = IF q = r THEN a ELSE req[q].answer
             /\ req'[q].at = IF q = r THEN "answered" ELSE req[q].at
  BY <1>1, <1>2 DEF ReqRecords
<1>6. QED
  BY <1>4, <1>5

\* The history as one value: nothing of it changes.
LEMMA TxStays ==
    ASSUME TxTyped, PaidTxSettled, UNCHANGED <<tx, settled>>
    PROVE  TxTyped' /\ PaidTxSettled'
BY DEF TxTyped, PaidTxSettled

\* The record of a request and its failed variant are records.
LEMMA TxOfTyped ==
    ASSUME TxTyped, ReqTyped, NEW r \in Requests
    PROVE  /\ TxOf(r) \in TxRecords
           /\ [TxOf(r) EXCEPT !.err = TRUE] \in TxRecords
           /\ [TxOf(r) EXCEPT !.err = TRUE].paid = TxOf(r).paid
           /\ [TxOf(r) EXCEPT !.paid = TRUE] \in TxRecords
           /\ OpenTx \in TxRecords /\ OpenTx.paid = FALSE
           /\ [OpenTx EXCEPT !.err = TRUE] \in TxRecords
           /\ [OpenTx EXCEPT !.err = TRUE].paid = FALSE
           /\ [OpenTx EXCEPT !.paid = TRUE] \in TxRecords
<1>1. req[r].caller \in Callers /\ req[r].invoice \in Invoices
  BY DEF ReqTyped, ReqRecords
<1>2. TxOf(r) \in TxRecords
  BY <1>1 DEF TxTyped, TxOf
<1>3. QED
  BY <1>2 DEF TxRecords, OpenTx

\* A record that is paid is of an invoice the mint has paid.
LEMMA TxOfSettled ==
    ASSUME ReqTyped, PaidTxSettled, NEW r \in Requests, TxOf(r).paid
    PROVE  req[r].invoice \in settled
BY DEF ReqTyped, ReqRecords, PaidTxSettled, TxOf

\* A request answered with a refusal, its record marked as failed.
LEMMA RefusalKeeps ==
    ASSUME HistoryInv, NEW r \in Requests, NEW a \in {"insufficient", "unstored", "failed", "internal"},
           PutTx(r, [TxOf(r) EXCEPT !.err = TRUE]), Answer(r, a), settled' = settled
    PROVE  HistoryInv'
<1> USE DEF HistoryInv
<1>1. a \in Answers /\ a \notin {"ok", "cached"}
  BY DEF Answers
<1>2. ReqTyped' /\ PaidReqSettled' /\ SuccessMeansPaid'
  BY <1>1, AnswerKeeps
<1>3. /\ [TxOf(r) EXCEPT !.err = TRUE] \in TxRecords
      /\ [TxOf(r) EXCEPT !.err = TRUE].paid = TxOf(r).paid
  BY TxOfTyped
<1>4. [TxOf(r) EXCEPT !.err = TRUE].paid => req[r].invoice \in settled
  BY <1>3, TxOfSettled
<1>5. TxTyped' /\ PaidTxSettled'
  BY <1>3, <1>4, PutTxKeeps
<1>6. QED
  BY <1>2, <1>5

-----------------------------------------------------------------------------
(* The steps of a request *)

\* From the duplicate check to the balance checks.
LEMMA HistoryCheckStep ==
    ASSUME HistoryInv, NEW r \in Requests,
           Receive(r) \/ CheckLimits(r) \/ CheckPool(r)
    PROVE  HistoryInv'
<1> USE DEF HistoryInv, Answers, ReqStates
<1>1. CASE Receive(r)
  <2>1. CASE req[r].caller \in revoked /\ Answer(r, "ignored") /\ UNCHANGED tx
    BY <1>1, <2>1, AnswerKeeps, TxStays DEF Receive
  <2>2. CASE TxOf(r).paid /\ Answer(r, "cached") /\ UNCHANGED tx
    BY <1>1, <2>2, AnswerKeeps, TxStays, TxOfSettled DEF Receive
  <2>3. CASE PutTx(r, OpenTx) /\ (At(r, "recorded") \/ Answer(r, "unstored"))
    BY <1>1, <2>3, AtKeeps, AnswerKeeps, PutTxKeeps, TxOfTyped DEF Receive
  <2>4. QED
    BY <1>1, <2>1, <2>2, <2>3 DEF Receive
<1>2. CASE CheckLimits(r)
  <2>1. CASE (Answer(r, "quota") \/ Answer(r, "unstored")) /\ UNCHANGED tx
    BY <1>2, <2>1, AnswerKeeps, TxStays DEF CheckLimits
  <2>2. CASE Refuse(r)
    BY <1>2, <2>2, RefusalKeeps DEF CheckLimits, Refuse, Told
  <2>3. CASE At(r, "checked") /\ UNCHANGED tx
    BY <1>2, <2>3, AtKeeps, TxStays DEF CheckLimits
  <2>4. QED
    BY <1>2, <2>1, <2>2, <2>3 DEF CheckLimits, Passes
<1>3. CASE CheckPool(r)
  <2>1. CASE Refuse(r)
    BY <1>3, <2>1, RefusalKeeps DEF CheckPool, Refuse, Told
  <2>2. CASE (At(r, "queued") \/ Answer(r, "unstored")) /\ UNCHANGED tx
    BY <1>3, <2>2, AtKeeps, AnswerKeeps, TxStays DEF CheckPool
  <2>3. QED
    BY <1>3, <2>1, <2>2 DEF CheckPool, Passes
<1>4. QED
  BY <1>1, <1>2, <1>3

\* payInvoice: the mint pays, or not.
LEMMA HistoryMeltStep ==
    ASSUME HistoryInv, NEW r \in Requests,
           PayThrows(r) \/ Take(r) \/ Paid(r) \/ NotPaid(r)
    PROVE  HistoryInv'
<1> USE DEF HistoryInv, Answers, ReqStates
<1>1. CASE PayThrows(r)
  BY <1>1, AnswerKeeps, TxStays DEF PayThrows
<1>2. CASE Take(r)
  BY <1>2, AtKeeps, TxStays DEF Take
<1>3. CASE NotPaid(r)
  BY <1>3, AtKeeps, TxStays DEF NotPaid
<1>4. CASE Paid(r)
  <2>1. settled' = settled \cup {req[r].invoice} /\ tx' = tx
    BY <1>4 DEF Paid
  <2>2. PICK routing \in 0..MintReserve :
          req' = [req EXCEPT ![r] = [req[r] EXCEPT !.at = "settled", !.routing = routing]]
    BY <1>4 DEF Paid
  <2>3. routing \in Nat
    BY <2>2, SpendingAssumption
  <2>4. req[r] \in ReqRecords
    BY DEF ReqTyped
  <2>5. [req[r] EXCEPT !.at = "settled", !.routing = routing] \in ReqRecords
    BY <2>3, <2>4 DEF ReqRecords
  <2>6. ReqTyped'
    BY <2>2, <2>5 DEF ReqTyped
  <2>7. ASSUME NEW q \in Requests
        PROVE  /\ req'[q].answer = req[q].answer /\ req'[q].invoice = req[q].invoice
               /\ req'[q].at = IF q = r THEN "settled" ELSE req[q].at
    BY <2>2, <2>4 DEF ReqTyped, ReqRecords
  <2>8. PaidReqSettled' /\ SuccessMeansPaid'
    BY <2>1, <2>7 DEF PaidReqSettled, SuccessMeansPaid
  <2>9. TxTyped' /\ PaidTxSettled'
    BY <2>1 DEF TxTyped, PaidTxSettled
  <2>10. QED
    BY <2>6, <2>8, <2>9
<1>5. QED
  BY <1>1, <1>2, <1>3, <1>4

\* Booking the outcome, in the history and in the answer.
LEMMA HistoryBookStep ==
    ASSUME HistoryInv, NEW r \in Requests,
           Book(r) \/ TrackSpend(r) \/ BookFailure(r)
    PROVE  HistoryInv'
<1> USE DEF HistoryInv, Answers, ReqStates
<1>1. CASE Book(r)
  <2>1. req[r].invoice \in settled
    BY <1>1 DEF Book, PaidReqSettled
  <2>2. PutTx(r, [TxOf(r) EXCEPT !.paid = TRUE]) /\ At(r, "booked") /\ settled' = settled
    BY <1>1 DEF Book
  <2>3. QED
    BY <2>1, <2>2, AtKeeps, PutTxKeeps, TxOfTyped
<1>2. CASE TrackSpend(r)
  <2>1. req[r].invoice \in settled
    BY <1>2 DEF TrackSpend, PaidReqSettled
  <2>2. (Answer(r, "ok") \/ Answer(r, "unbooked")) /\ UNCHANGED <<tx, settled>>
    BY <1>2 DEF TrackSpend, Told
  <2>3. QED
    BY <2>1, <2>2, AnswerKeeps, TxStays
<1>3. CASE BookFailure(r)
  BY <1>3, RefusalKeeps DEF BookFailure, Told
<1>4. QED
  BY <1>1, <1>2, <1>3

\* POST /api/v1/pay.
LEMMA HistoryApiStep ==
    ASSUME HistoryInv, NEW r \in Requests,
           ApiReceive(r) \/ ApiCheckPool(r) \/ ApiTrackSpend(r) \/ ApiRecord(r)
    PROVE  HistoryInv'
<1> USE DEF HistoryInv, Answers, ReqStates
<1>1. CASE ApiReceive(r)
  <2>1. /\ Answer(r, "quota") \/ Answer(r, "unstored") \/ At(r, "checked")
        /\ UNCHANGED <<tx, settled>>
    BY <1>1 DEF ApiReceive
  <2>2. QED
    BY <2>1, AnswerKeeps, AtKeeps, TxStays
<1>2. CASE ApiCheckPool(r)
  <2>1. /\ Answer(r, "insufficient") \/ Answer(r, "unstored") \/ At(r, "queued")
        /\ UNCHANGED <<tx, settled>>
    BY <1>2 DEF ApiCheckPool
  <2>2. QED
    BY <2>1, AnswerKeeps, AtKeeps, TxStays
<1>3. CASE ApiTrackSpend(r)
  <2>1. req[r].invoice \in settled
    BY <1>3 DEF ApiTrackSpend, PaidReqSettled
  <2>2. (At(r, "booked") \/ Answer(r, "unbooked")) /\ UNCHANGED <<tx, settled>>
    BY <1>3 DEF ApiTrackSpend
  <2>3. QED
    BY <2>1, <2>2, AtKeeps, AnswerKeeps, TxStays
<1>4. CASE ApiRecord(r)
  <2>1. settled' = settled
    BY <1>4 DEF ApiRecord
  <2>2. CASE /\ req[r].at = "booked"
             /\ PutTx(r, [OpenTx EXCEPT !.paid = TRUE])
             /\ Answer(r, "ok") \/ Answer(r, "unbooked")
    <3>1. req[r].invoice \in settled
      BY <2>2 DEF PaidReqSettled
    <3>2. QED
      BY <2>1, <2>2, <3>1, AnswerKeeps, PutTxKeeps, TxOfTyped
  <2>3. CASE /\ PutTx(r, [OpenTx EXCEPT !.err = TRUE])
             /\ Answer(r, "failed") \/ Answer(r, "internal")
    BY <2>1, <2>3, AnswerKeeps, PutTxKeeps, TxOfTyped
  <2>4. CASE (Answer(r, "unbooked") \/ Answer(r, "internal")) /\ UNCHANGED tx
    BY <2>1, <2>4, AnswerKeeps, TxStays
  <2>5. QED
    BY <1>4, <2>2, <2>3, <2>4 DEF ApiRecord, Told
<1>5. QED
  BY <1>1, <1>2, <1>3, <1>4

-----------------------------------------------------------------------------
(* The invariant and what it gives *)

\* HistoryInv is inductive.
LEMMA HistoryInvariant == Spec => []HistoryInv
<1>1. Init => HistoryInv
  <2> SUFFICES ASSUME Init PROVE HistoryInv
    OBVIOUS
  <2>1. TxTyped /\ PaidTxSettled
    BY DEF Init, TxTyped, TxRecords, NoTx, PaidTxSettled
  <2>2. req \in [Requests -> [at : {"new"}, answer : {"none"}, caller : PayCallers,
                              invoice : Invoices, routing : {0}]]
    BY DEF Init
  <2>3. PayCallers \subseteq Callers
    BY SpendingAssumption DEF Callers
  <2>4. ReqTyped
    BY <2>2, <2>3 DEF ReqTyped, ReqRecords, ReqStates, Answers
  <2>5. \A r \in Requests : req[r].at = "new" /\ req[r].answer = "none"
    BY <2>2
  <2>6. PaidReqSettled /\ SuccessMeansPaid
    BY <2>5 DEF PaidReqSettled, SuccessMeansPaid
  <2>7. QED
    BY <2>1, <2>4, <2>6 DEF HistoryInv
<1>2. HistoryInv /\ [Next]_vars => HistoryInv'
  <2> SUFFICES ASSUME HistoryInv, [Next]_vars PROVE HistoryInv'
    OBVIOUS
  <2>1. ASSUME UNCHANGED <<tx, settled, req>> PROVE HistoryInv'
    BY <2>1 DEF HistoryInv, TxTyped, ReqTyped, PaidTxSettled, PaidReqSettled,
                SuccessMeansPaid
  <2>2. CASE UNCHANGED vars
    BY <2>1, <2>2 DEF vars
  <2>3. ASSUME NEW r \in Requests, Receive(r) \/ ApiReceive(r) \/ PayStep(r)
        PROVE  HistoryInv'
    BY <2>3, HistoryCheckStep, HistoryMeltStep, HistoryBookStep, HistoryApiStep
       DEF PayStep
  <2>4. ASSUME NEW a \in Admins, AdminStep(a) PROVE HistoryInv'
    <3>1. UNCHANGED <<tx, settled, req>>
      BY <2>4 DEF AdminStep, AdminRequest, FundRead, FundCount, FundCommit, Withdraw, Revoke
    <3>2. QED
      BY <2>1, <3>1
  <2>5. QED
    BY <2>2, <2>3, <2>4 DEF Next
<1>3. QED
  BY <1>1, <1>2, PTL DEF Spec

\* A client is told of success, now or from the history, only of an invoice the
\* mint has paid: pay_invoice answers from a record only if it says paid, and a
\* record says so only after payInvoice returned success.
THEOREM SuccessMeansPaidTheorem == Spec => []SuccessMeansPaid
<1>1. HistoryInv => SuccessMeansPaid
  BY DEF HistoryInv
<1>2. QED
  BY <1>1, HistoryInvariant, PTL

\* What PaidIsForever says of one step.
KeepsPaid == \A c \in Conns, i \in Invoices : tx[c][i].paid => tx'[c][i].paid

\* A record that replaces another keeps it paid.
LEMMA PutTxKeepsPaid ==
    ASSUME TxTyped, ReqTyped, NEW r \in Requests, NEW record, PutTx(r, record),
           TxOf(r).paid => record.paid
    PROVE  KeepsPaid
<1>1. req[r].caller \in Callers /\ req[r].invoice \in Invoices
  BY DEF ReqTyped, ReqRecords
<1>2. tx' = [tx EXCEPT ![req[r].caller][req[r].invoice] = record]
  BY DEF PutTx
<1>3. ASSUME NEW c \in Conns, NEW i \in Invoices, tx[c][i].paid PROVE tx'[c][i].paid
  <2>1. c \in Callers
    BY DEF Callers
  <2>2. CASE c = req[r].caller /\ i = req[r].invoice
    BY <1>1, <1>2, <1>3, <2>2 DEF TxTyped, TxOf
  <2>3. CASE ~(c = req[r].caller /\ i = req[r].invoice)
    BY <1>1, <1>2, <1>3, <2>1, <2>3 DEF TxTyped
  <2>4. QED
    BY <2>2, <2>3
<1>4. QED
  BY <1>3 DEF KeepsPaid

\* A record of the management API replaces none of a connection.
LEMMA ApiKeepsPaid ==
    ASSUME TxTyped, ReqTyped, NEW r \in Requests, IsApi(r), NEW record, PutTx(r, record)
    PROVE  KeepsPaid
<1>1. req[r].caller \in Callers /\ req[r].caller \notin Conns
  BY SpendingAssumption DEF ReqTyped, ReqRecords, IsApi
<1>2. tx' = [tx EXCEPT ![req[r].caller][req[r].invoice] = record]
  BY DEF PutTx
<1>3. ASSUME NEW c \in Conns PROVE tx'[c] = tx[c]
  BY <1>1, <1>2 DEF TxTyped, Callers
<1>4. QED
  BY <1>3 DEF KeepsPaid

\* No step makes the history forget a payment.
LEMMA StepKeepsPaid ==
    ASSUME HistoryInv, [Next]_vars
    PROVE  [KeepsPaid]_vars
<1> USE DEF HistoryInv
<1>1. CASE UNCHANGED vars
  BY <1>1
<1>2. ASSUME UNCHANGED tx PROVE KeepsPaid
  BY <1>2 DEF KeepsPaid
<1>3. ASSUME NEW r \in Requests, Receive(r) PROVE KeepsPaid
  <2>1. UNCHANGED tx \/ (~TxOf(r).paid /\ PutTx(r, OpenTx))
    BY <1>3 DEF Receive
  <2>2. QED
    BY <1>2, <2>1, PutTxKeepsPaid
<1>4. ASSUME NEW r \in Requests, CheckLimits(r) \/ CheckPool(r) \/ BookFailure(r)
      PROVE  KeepsPaid
  <2>1. UNCHANGED tx \/ PutTx(r, [TxOf(r) EXCEPT !.err = TRUE])
    BY <1>4 DEF CheckLimits, CheckPool, BookFailure, Refuse
  <2>2. QED
    BY <1>2, <2>1, PutTxKeepsPaid, TxOfTyped
<1>5. ASSUME NEW r \in Requests, Book(r) PROVE KeepsPaid
  <2>1. PutTx(r, [TxOf(r) EXCEPT !.paid = TRUE])
    BY <1>5 DEF Book
  <2>2. [TxOf(r) EXCEPT !.paid = TRUE].paid
    BY TxOfTyped DEF TxRecords
  <2>3. QED
    BY <2>1, <2>2, PutTxKeepsPaid
<1>6. ASSUME NEW r \in Requests, ApiRecord(r) PROVE KeepsPaid
  <2>1. UNCHANGED tx \/ (IsApi(r) /\ \E record : PutTx(r, record))
    BY <1>6 DEF ApiRecord
  <2>2. QED
    BY <1>2, <2>1, ApiKeepsPaid
<1>7. ASSUME NEW r \in Requests,
             TrackSpend(r) \/ PayThrows(r) \/ Take(r) \/ Paid(r) \/ NotPaid(r)
               \/ ApiReceive(r) \/ ApiCheckPool(r) \/ ApiTrackSpend(r)
      PROVE  KeepsPaid
  BY <1>2, <1>7 DEF TrackSpend, PayThrows, Take, Paid, NotPaid, ApiReceive,
                    ApiCheckPool, ApiTrackSpend
<1>8. ASSUME NEW a \in Admins, AdminStep(a) PROVE KeepsPaid
  BY <1>2, <1>8 DEF AdminStep, AdminRequest, FundRead, FundCount, FundCommit,
                    Withdraw, Revoke
<1>9. QED
  BY <1>1, <1>3, <1>4, <1>5, <1>6, <1>7, <1>8 DEF Next, PayStep

\* No step of any handler makes a connection's history forget a payment: what
\* replaces or edits a paid record is paid again.
THEOREM PaidIsForeverTheorem == Spec => PaidIsForever
<1>1. HistoryInv /\ [Next]_vars => [KeepsPaid]_vars
  BY StepKeepsPaid
<1>2. QED
  BY <1>1, HistoryInvariant, PTL DEF Spec, PaidIsForever, KeepsPaid

-----------------------------------------------------------------------------
(* What was paid is recorded *)

\* The mint's view of who paid, and the request that is about to book it.
PayerTyped   == payer \in [Invoices -> Callers \cup {NoOne}]
SettledIsPayers ==
    \A r \in Requests : req[r].at = "settled" => payer[req[r].invoice] = req[r].caller

RecordInv == HistoryInv /\ PayerTyped /\ SettledIsPayers /\ PaidIsRecorded

\* A step that pays nothing, books nothing and forgets nothing.
LEMMA RecordStays ==
    ASSUME RecordInv, HistoryInv', KeepsPaid, payer' = payer,
           \A q \in Requests : (req'[q].at = "settled" <=> req[q].at = "settled"),
           \A q \in Requests : req'[q].invoice = req[q].invoice /\ req'[q].caller = req[q].caller
    PROVE  RecordInv'
<1> USE DEF RecordInv
<1>1. PayerTyped' /\ SettledIsPayers'
  BY DEF PayerTyped, SettledIsPayers
<1>2. PaidIsRecorded'
  <2> SUFFICES ASSUME NEW i \in Invoices, payer[i] \in Conns
               PROVE  tx'[payer[i]][i].paid
                        \/ \E r \in Requests : req'[r].at = "settled" /\ req'[r].invoice = i
    BY DEF PaidIsRecorded
  <2> QED
    BY DEF PaidIsRecorded, KeepsPaid
<1> QED
  BY <1>1, <1>2

\* A request that moves keeps what it asked for.
LEMMA Moves ==
    ASSUME ReqTyped, NEW r \in Requests, NEW s, NEW a, req[r].at # "settled", s # "settled",
           At(r, s) \/ Answer(r, a)
    PROVE  /\ \A q \in Requests : (req'[q].at = "settled" <=> req[q].at = "settled")
           /\ \A q \in Requests : req'[q].invoice = req[q].invoice /\ req'[q].caller = req[q].caller
<1>1. CASE req' = [req EXCEPT ![r] = [req[r] EXCEPT !.at = s]]
  BY <1>1 DEF ReqTyped, ReqRecords
<1>2. CASE req' = [req EXCEPT ![r] = [req[r] EXCEPT !.at = "answered", !.answer = a]]
  BY <1>2 DEF ReqTyped, ReqRecords
<1> QED
  BY <1>1, <1>2 DEF At, Answer

\* The mint pays: the request is the one that will book it.
LEMMA RecordPaid ==
    ASSUME RecordInv, HistoryInv', NEW r \in Requests, Paid(r)
    PROVE  RecordInv'
<1> USE DEF RecordInv, HistoryInv
<1>1. PICK routing \in 0..MintReserve :
        req' = [req EXCEPT ![r] = [req[r] EXCEPT !.at = "settled", !.routing = routing]]
  BY DEF Paid
<1>2. /\ req[r].invoice \in Invoices /\ req[r].caller \in Callers
      /\ req[r].invoice \notin settled /\ req[r].at = "melting"
      /\ payer' = [payer EXCEPT ![req[r].invoice] = req[r].caller] /\ tx' = tx
  BY DEF Paid, ReqTyped, ReqRecords
<1>3. \A q \in Requests : /\ req'[q].invoice = req[q].invoice /\ req'[q].caller = req[q].caller
                          /\ req'[q].at = IF q = r THEN "settled" ELSE req[q].at
  BY <1>1 DEF ReqTyped, ReqRecords
<1>4. PayerTyped'
  BY <1>2 DEF PayerTyped
<1>5. /\ payer'[req[r].invoice] = req[r].caller
      /\ \A i \in Invoices : i # req[r].invoice => payer'[i] = payer[i]
  BY <1>2 DEF PayerTyped
<1>6. SettledIsPayers'
  <2> SUFFICES ASSUME NEW q \in Requests, req'[q].at = "settled"
               PROVE  payer'[req'[q].invoice] = req'[q].caller
    BY DEF SettledIsPayers
  <2>1. CASE q = r
    BY <1>3, <1>5, <2>1
  <2>2. CASE q # r
    <3>1. req[q].at = "settled" /\ req[q].invoice \in settled /\ req[q].invoice \in Invoices
      BY <1>3, <2>2 DEF PaidReqSettled, ReqTyped, ReqRecords
    <3>2. payer'[req[q].invoice] = payer[req[q].invoice]
      BY <1>2, <1>5, <3>1
    <3> QED
      BY <1>3, <3>1, <3>2 DEF SettledIsPayers
  <2> QED
    BY <2>1, <2>2
<1>7. PaidIsRecorded'
  <2> SUFFICES ASSUME NEW i \in Invoices, payer'[i] \in Conns
               PROVE  tx'[payer'[i]][i].paid
                        \/ \E q \in Requests : req'[q].at = "settled" /\ req'[q].invoice = i
    BY DEF PaidIsRecorded
  <2>1. CASE i = req[r].invoice
    BY <1>3, <2>1
  <2>2. CASE i # req[r].invoice
    BY <1>2, <1>3, <1>5, <2>2 DEF PaidIsRecorded
  <2> QED
    BY <2>1, <2>2
<1> QED
  BY <1>4, <1>6, <1>7

\* A payment of a connection is booked in its history; the API's is counted first.
LEMMA RecordBooked ==
    ASSUME RecordInv, HistoryInv', KeepsPaid, NEW r \in Requests, Book(r) \/ ApiTrackSpend(r)
    PROVE  RecordInv'
<1> USE DEF RecordInv, HistoryInv
<1>1. /\ req[r].at = "settled" /\ payer' = payer
      /\ \/ req' = [req EXCEPT ![r] = [req[r] EXCEPT !.at = "booked"]]
         \/ req' = [req EXCEPT ![r] = [req[r] EXCEPT !.at = "answered", !.answer = "unbooked"]]
      /\ \/ req[r].caller \notin Conns
         \/ tx' = [tx EXCEPT ![req[r].caller][req[r].invoice] = [TxOf(r) EXCEPT !.paid = TRUE]]
  BY SpendingAssumption DEF Book, ApiTrackSpend, At, Answer, PutTx, IsApi
<1>2. \A q \in Requests : /\ req'[q].invoice = req[q].invoice /\ req'[q].caller = req[q].caller
                          /\ req'[q].at = "settled" <=> req[q].at = "settled" /\ q # r
  <2>1. CASE req' = [req EXCEPT ![r] = [req[r] EXCEPT !.at = "booked"]]
    BY <1>1, <2>1 DEF ReqTyped, ReqRecords
  <2>2. CASE req' = [req EXCEPT ![r] = [req[r] EXCEPT !.at = "answered", !.answer = "unbooked"]]
    BY <1>1, <2>2 DEF ReqTyped, ReqRecords
  <2> QED
    BY <1>1, <2>1, <2>2
<1>3. PayerTyped' /\ SettledIsPayers'
  BY <1>1, <1>2 DEF PayerTyped, SettledIsPayers
<1>4. PaidIsRecorded'
  <2> SUFFICES ASSUME NEW i \in Invoices, payer[i] \in Conns
               PROVE  tx'[payer[i]][i].paid
                        \/ \E q \in Requests : req'[q].at = "settled" /\ req'[q].invoice = i
    BY <1>1 DEF PaidIsRecorded
  <2>1. CASE tx[payer[i]][i].paid
    BY <2>1 DEF KeepsPaid
  <2>2. CASE \E q \in Requests : q # r /\ req[q].at = "settled" /\ req[q].invoice = i
    BY <1>2, <2>2
  <2>3. CASE req[r].invoice = i
    <3>1. payer[i] = req[r].caller /\ req[r].caller \in Callers
      BY <1>1, <2>3 DEF SettledIsPayers, ReqTyped, ReqRecords
    <3>2. tx' = [tx EXCEPT ![req[r].caller][i] = [TxOf(r) EXCEPT !.paid = TRUE]]
      BY <1>1, <2>3, <3>1
    <3>3. tx'[req[r].caller][i] = [TxOf(r) EXCEPT !.paid = TRUE]
      BY <3>1, <3>2 DEF TxTyped
    <3>4. [TxOf(r) EXCEPT !.paid = TRUE].paid
      BY TxOfTyped DEF TxRecords
    <3> QED
      BY <3>1, <3>3, <3>4
  <2> QED
    BY <2>1, <2>2, <2>3 DEF PaidIsRecorded
<1> QED
  BY <1>3, <1>4

\* In every reachable state histories and payers agree.
LEMMA RecordInvariant == Spec => []RecordInv
<1>1. Init /\ HistoryInv => RecordInv
  <2> SUFFICES ASSUME Init, HistoryInv PROVE RecordInv
    OBVIOUS
  <2>1. PayerTyped /\ \A i \in Invoices : payer[i] \notin Conns
    BY SpendingAssumption DEF Init, PayerTyped
  <2>2. \A r \in Requests : req[r].at = "new"
    BY DEF Init
  <2> QED
    BY <2>1, <2>2 DEF RecordInv, SettledIsPayers, PaidIsRecorded
<1>2. RecordInv /\ HistoryInv' /\ [Next]_vars => RecordInv'
  <2> SUFFICES ASSUME RecordInv, HistoryInv', [Next]_vars PROVE RecordInv'
    OBVIOUS
  <2> USE DEF RecordInv, HistoryInv
  <2>1. [KeepsPaid]_vars
    BY StepKeepsPaid
  <2>2. CASE UNCHANGED vars
    <3>1. KeepsPaid
      BY <2>2 DEF vars, KeepsPaid
    <3> QED
      BY <2>2, <3>1, RecordStays DEF vars
  <2>3. ASSUME NEW r \in Requests, Paid(r) PROVE RecordInv'
    BY <2>3, RecordPaid
  <2>4. ASSUME NEW r \in Requests, Book(r) \/ ApiTrackSpend(r) PROVE RecordInv'
    <3>1. KeepsPaid
      BY <2>1, <2>4 DEF Book, ApiTrackSpend, vars, KeepsPaid
    <3> QED
      BY <2>4, <3>1, RecordBooked
  <2>5. ASSUME NEW r \in Requests,
               Receive(r) \/ CheckLimits(r) \/ CheckPool(r) \/ TrackSpend(r) \/ BookFailure(r)
                 \/ PayThrows(r) \/ Take(r) \/ NotPaid(r)
                 \/ ApiReceive(r) \/ ApiCheckPool(r) \/ ApiRecord(r)
        PROVE  RecordInv'
    <3>1. /\ req[r].at # "settled" /\ payer' = payer
          /\ \E s \in ReqStates \ {"settled"}, a \in Answers : At(r, s) \/ Answer(r, a)
      BY <2>5 DEF Receive, CheckLimits, CheckPool, TrackSpend, BookFailure, PayThrows, Take,
         NotPaid, ApiReceive, ApiCheckPool, ApiRecord, ReqStates, Answers, Refuse, Passes, Told
    <3>2. PICK s \in ReqStates \ {"settled"}, a \in Answers : At(r, s) \/ Answer(r, a)
      BY <3>1
    <3>3. /\ \A q \in Requests : (req'[q].at = "settled" <=> req[q].at = "settled")
          /\ \A q \in Requests : req'[q].invoice = req[q].invoice /\ req'[q].caller = req[q].caller
      BY <3>1, <3>2, Moves
    <3>4. KeepsPaid
      BY <2>1 DEF vars, KeepsPaid
    <3> QED
      BY <3>1, <3>3, <3>4, RecordStays
  <2>6. ASSUME NEW a \in Admins, AdminStep(a) PROVE RecordInv'
    <3>1. UNCHANGED <<req, payer, tx>>
      BY <2>6 DEF AdminStep, AdminRequest, FundRead, FundCount, FundCommit, Withdraw, Revoke
    <3>2. KeepsPaid
      BY <3>1 DEF KeepsPaid
    <3> QED
      BY <3>1, <3>2, RecordStays
  <2> QED
    BY <2>2, <2>3, <2>4, <2>5, <2>6 DEF Next, PayStep
<1> QED
  BY <1>1, <1>2, HistoryInvariant, PTL DEF Spec

\* However requests, operators and the mint interleave, an invoice the mint paid for
\* a connection is in its history as paid, or the request that paid it is about to
\* book it: a retry is answered from the history and not paid again.
THEOREM PaidIsRecordedTheorem == Spec => []PaidIsRecorded
<1>1. RecordInv => PaidIsRecorded
  BY DEF RecordInv
<1> QED
  BY <1>1, RecordInvariant, PTL

-----------------------------------------------------------------------------
(* Sums over finite sets: what MapThenSumSet, a fold over elements chosen one by *)
(* one, computes whatever the order.  Each lemma takes a smallest set that it    *)
(* fails for.                                                                    *)

\* Among the finite sets of a collection one has no proper subset in it.
LEMMA Smallest ==
    ASSUME NEW S, IsFiniteSet(S), NEW B \in SUBSET (SUBSET S), B # {}
    PROVE  \E m \in B : \A x \in m : m \ {x} \notin B
<1> DEFINE K == {Cardinality(T) : T \in B}
<1>1. \A T \in B : IsFiniteSet(T) /\ Cardinality(T) \in Nat
  BY FS_Subset, FS_CardinalityType
<1>2. K \in SUBSET Nat /\ K # {}
  BY <1>1
<1>3. \E k \in K : \A l \in K : <<l, k>> \notin OpToRel(<, Nat)
  <2> HIDE DEF K
  <2> QED
    BY <1>2, NatLessThanWellFounded, WFMin
<1>4. PICK m \in B : \A T \in B : <<Cardinality(T), Cardinality(m)>> \notin OpToRel(<, Nat)
  BY <1>3
<1>5. ASSUME NEW x \in m, m \ {x} \in B PROVE FALSE
  <2>1. Cardinality(m \ {x}) = Cardinality(m) - 1
    BY <1>1, <1>5, FS_RemoveElement
  <2>2. /\ Cardinality(m \ {x}) \in Nat /\ Cardinality(m) \in Nat
        /\ <<Cardinality(m \ {x}), Cardinality(m)>> \notin OpToRel(<, Nat)
    BY <1>1, <1>4, <1>5
  <2>3. ~(Cardinality(m \ {x}) < Cardinality(m))
    BY <2>2 DEF OpToRel
  <2>4. \A a, b \in Nat : a = b - 1 => a < b
    OBVIOUS
  <2> QED
    BY <2>1, <2>2, <2>3, <2>4, Zenon
<1> QED
  BY <1>5

\* The element the fold takes next, and the sum of f over S.
Pick(s)       == CHOOSE x \in s : TRUE
SumOver(f, S) == MapThenSumSet(LAMBDA c : f[c], S)

\* The function on sets the library's fold chooses, and the sum is the value of.
Iter(f, S) ==
    CHOOSE iter : iter = [s \in SUBSET S |->
                            IF s = {} THEN 0 ELSE f[Pick(s)] + iter[s \ {Pick(s)}]]

\* The sum by its definition.
LEMMA SumIsIter ==
    ASSUME NEW f, NEW S
    PROVE  SumOver(f, S) = Iter(f, S)[S]
BY DEF SumOver, MapThenSumSet, MapThenFoldSet, Iter, Pick

\* g adds up f over the sets of at most n elements.
Adds(g, f, S, n) ==
    /\ g \in [SUBSET S -> Int]
    /\ \A s \in SUBSET S : Cardinality(s) <= n =>
          g[s] = IF s = {} THEN 0 ELSE f[Pick(s)] + g[s \ {Pick(s)}]

\* The element taken next is one of the set.
LEMMA PickIn == ASSUME NEW s, s # {} PROVE Pick(s) \in s
BY DEF Pick

\* What adds up the sets of n elements can be made to add up those of n + 1 ...
LEMMA AddsOneMore ==
    ASSUME NEW S, IsFiniteSet(S), NEW f, \A x \in S : f[x] \in Int, NEW n \in Nat,
           NEW g, Adds(g, f, S, n)
    PROVE  \E h : Adds(h, f, S, n + 1)
<1> DEFINE h == [s \in SUBSET S |-> IF s = {} THEN 0 ELSE f[Pick(s)] + g[s \ {Pick(s)}]]
<1>2. h \in [SUBSET S -> Int]
  BY PickIn DEF Adds
<1>3. ASSUME NEW s \in SUBSET S, Cardinality(s) <= n PROVE h[s] = g[s]
  BY <1>3 DEF Adds
<1>4. ASSUME NEW s \in SUBSET S, Cardinality(s) <= n + 1, s # {}
      PROVE  h[s] = f[Pick(s)] + h[s \ {Pick(s)}]
  <2>1. IsFiniteSet(s) /\ Cardinality(s) \in Nat
    BY FS_Subset, FS_CardinalityType
  <2>2. Pick(s) \in s
    BY <1>4, PickIn
  <2>3. Cardinality(s \ {Pick(s)}) = Cardinality(s) - 1
    BY <2>1, <2>2, FS_RemoveElement
  <2>4. Cardinality(s \ {Pick(s)}) <= n
    <3> HIDE DEF h
    <3> QED BY <1>4, <2>1, <2>3
  <2>5. s \ {Pick(s)} \in SUBSET S
    OBVIOUS
  <2>6. h[s \ {Pick(s)}] = g[s \ {Pick(s)}]
    <3> HIDE DEF h
    <3> QED BY <1>3, <2>4, <2>5
  <2> QED
    BY <1>4, <2>6
<1>5. h[{}] = 0
  OBVIOUS
<1>6. Adds(h, f, S, n + 1)
  <2> HIDE DEF h
  <2> QED
    BY <1>2, <1>4, <1>5 DEF Adds
<1> QED
  BY <1>6

\* ... and so there is a function for every n.
LEMMA AddsAny ==
    ASSUME NEW S, IsFiniteSet(S), NEW f, \A x \in S : f[x] \in Int, NEW n \in Nat
    PROVE  \E g : Adds(g, f, S, n)
<1> DEFINE Bad == {k \in Nat : ~ \E g : Adds(g, f, S, k)}
<1> SUFFICES ASSUME Bad # {} PROVE FALSE
  OBVIOUS
<1>1. PICK m \in Bad : \A k \in Bad : ~(k < m)
  <2>1. \E m \in Bad : \A k \in Bad : <<k, m>> \notin OpToRel(<, Nat)
    BY NatLessThanWellFounded, WFMin
  <2> QED
    BY <2>1 DEF OpToRel
<1>2. CASE m = 0
  <2> DEFINE g == [s \in SUBSET S |-> 0]
  <2>1. \A s \in SUBSET S : Cardinality(s) <= 0 => s = {}
    BY FS_Subset, FS_CardinalityType, FS_EmptySet
  <2>2. Adds(g, f, S, 0)
    BY <2>1 DEF Adds
  <2> QED
    BY <1>1, <1>2, <2>2
<1>3. CASE m # 0
  <2>1. m - 1 \in Nat /\ m - 1 \notin Bad
    BY <1>1, <1>3
  <2>2. PICK g : Adds(g, f, S, m - 1)
    BY <2>1
  <2>3. \E h : Adds(h, f, S, (m - 1) + 1)
    BY <2>1, <2>2, AddsOneMore
  <2>4. (m - 1) + 1 = m
    BY <1>1
  <2> QED
    BY <1>1, <2>3, <2>4
<1> QED
  BY <1>2, <1>3

\* The chosen function does what its equation says, on every part of a finite set ...
LEMMA IterUnfolds ==
    ASSUME NEW S, IsFiniteSet(S), NEW f, \A x \in S : f[x] \in Int
    PROVE  /\ Iter(f, S) \in [SUBSET S -> Int]
           /\ Iter(f, S)[{}] = 0
           /\ \A s \in SUBSET S : s # {} =>
                Iter(f, S)[s] = f[Pick(s)] + Iter(f, S)[s \ {Pick(s)}]
<1>1. Cardinality(S) \in Nat
  BY FS_CardinalityType
<1>2. PICK g : Adds(g, f, S, Cardinality(S))
  BY <1>1, AddsAny
<1>3. \A s \in SUBSET S : Cardinality(s) <= Cardinality(S)
  BY FS_Subset
<1>4. g = [s \in SUBSET S |-> IF s = {} THEN 0 ELSE f[Pick(s)] + g[s \ {Pick(s)}]]
  BY <1>2, <1>3 DEF Adds
<1> DEFINE it == Iter(f, S)
<1>5. it = [s \in SUBSET S |-> IF s = {} THEN 0 ELSE f[Pick(s)] + it[s \ {Pick(s)}]]
  BY <1>4 DEF Iter
<1>6. \A s \in SUBSET S : it[s] = IF s = {} THEN 0 ELSE f[Pick(s)] + it[s \ {Pick(s)}]
  <2> HIDE DEF it
  <2> QED BY <1>5
<1>7. ASSUME NEW s \in SUBSET S, it[s] # g[s] PROVE FALSE
  <2> DEFINE B == {t \in SUBSET S : it[t] # g[t]}
  <2>1. B \in SUBSET (SUBSET S) /\ B # {}
    BY <1>7
  <2>2. PICK m \in B : \A x \in m : m \ {x} \notin B
    <3> HIDE DEF B
    <3> QED BY <2>1, Smallest
  <2>3. it[m] # g[m] /\ m \in SUBSET S
    BY <2>2
  <2>4. g[m] = IF m = {} THEN 0 ELSE f[Pick(m)] + g[m \ {Pick(m)}]
    <3> HIDE DEF it
    <3> QED BY <1>4, <2>3
  <2>5. it[m] = IF m = {} THEN 0 ELSE f[Pick(m)] + it[m \ {Pick(m)}]
    BY <1>6, <2>3
  <2>6. CASE m # {}
    <3>1. Pick(m) \in m /\ m \ {Pick(m)} \in SUBSET S
      BY <2>3, <2>6, PickIn
    <3>2. m \ {Pick(m)} \notin B
      BY <2>2, <3>1
    <3>3. it[m \ {Pick(m)}] = g[m \ {Pick(m)}]
      BY <3>1, <3>2
    <3> QED
      BY <2>3, <2>4, <2>5, <2>6, <3>3
  <2> QED
    BY <2>3, <2>4, <2>5, <2>6
<1>8. \A s \in SUBSET S : it[s] \in Int
  BY <1>2, <1>7 DEF Adds
<1>9. it \in [SUBSET S -> Int]
  <2> HIDE DEF it
  <2> QED BY <1>5, <1>8
<1>10. it[{}] = 0
  BY <1>6
<1> QED
  BY <1>6, <1>9, <1>10

\* ... one element at a time.
LEMMA IterAt ==
    ASSUME NEW S, IsFiniteSet(S), NEW f, \A x \in S : f[x] \in Int,
           NEW s \in SUBSET S, s # {}
    PROVE  Iter(f, S)[s] = f[Pick(s)] + Iter(f, S)[s \ {Pick(s)}]
<1>1. \A t \in SUBSET S : t # {} => Iter(f, S)[t] = f[Pick(t)] + Iter(f, S)[t \ {Pick(t)}]
  BY IterUnfolds, Zenon
<1> QED
  BY <1>1, Zenon

\* Nothing sums to zero.
LEMMA SumEmpty == ASSUME NEW f PROVE SumOver(f, {}) = 0
BY SumIsIter, IterUnfolds, FS_EmptySet

\* The sum over a part of S does not depend on S.
LEMMA IterPart ==
    ASSUME NEW S, IsFiniteSet(S), NEW f, \A x \in S : f[x] \in Int, NEW T \in SUBSET S
    PROVE  Iter(f, S)[T] = Iter(f, T)[T]
<1>1. IsFiniteSet(T) /\ \A x \in T : f[x] \in Int
  BY FS_Subset
<1> DEFINE g == Iter(f, S)
           h == Iter(f, T)
           B == {t \in SUBSET T : g[t] # h[t]}
<1> SUFFICES ASSUME B # {} PROVE FALSE
  OBVIOUS
<1>2. PICK m \in B : \A x \in m : m \ {x} \notin B
  <2>1. B \in SUBSET (SUBSET T)
    OBVIOUS
  <2> HIDE DEF B
  <2> QED BY <1>1, <2>1, Smallest
<1>3. m \in SUBSET T /\ m \in SUBSET S /\ g[m] # h[m]
  BY <1>2
<1>4. g[{}] = 0 /\ h[{}] = 0
  BY <1>1, IterUnfolds
<1>5. m # {}
  BY <1>3, <1>4
<1>6. Pick(m) \in m
  BY <1>5, PickIn
<1>7. g[m] = f[Pick(m)] + g[m \ {Pick(m)}]
  BY <1>3, <1>5, IterAt, Zenon
<1>8. h[m] = f[Pick(m)] + h[m \ {Pick(m)}]
  BY <1>1, <1>3, <1>5, IterAt, Zenon
<1>9. g[m \ {Pick(m)}] = h[m \ {Pick(m)}]
  BY <1>2, <1>3, <1>6
<1> QED
  BY <1>3, <1>7, <1>8, <1>9

\* The sum with the element the fold takes first taken out.
LEMMA SumPick ==
    ASSUME NEW S, IsFiniteSet(S), NEW f, \A x \in S : f[x] \in Int, S # {}
    PROVE  SumOver(f, S) = f[Pick(S)] + SumOver(f, S \ {Pick(S)})
<1>1. Iter(f, S)[S] = f[Pick(S)] + Iter(f, S)[S \ {Pick(S)}]
  BY IterAt, Zenon
<1>2. Iter(f, S)[S \ {Pick(S)}] = Iter(f, S \ {Pick(S)})[S \ {Pick(S)}]
  BY IterPart
<1> QED
  BY <1>1, <1>2, SumIsIter

\* Integers sum to an integer.
LEMMA SumInt ==
    ASSUME NEW S, IsFiniteSet(S), NEW f, \A x \in S : f[x] \in Int
    PROVE  SumOver(f, S) \in Int
BY IterUnfolds, SumIsIter

\* The sum with one summand taken out, whichever.
LEMMA SumRemove ==
    ASSUME NEW S, IsFiniteSet(S), NEW f, \A y \in S : f[y] \in Int, NEW x \in S
    PROVE  SumOver(f, S) = f[x] + SumOver(f, S \ {x})
<1> DEFINE B == {T \in SUBSET S : \E y \in T : SumOver(f, T) # f[y] + SumOver(f, T \ {y})}
<1> SUFFICES ASSUME B # {} PROVE FALSE
  OBVIOUS
<1>1. PICK m \in B : \A y \in m : m \ {y} \notin B
  <2>1. B \in SUBSET (SUBSET S)
    OBVIOUS
  <2> HIDE DEF B
  <2> QED BY <2>1, Smallest
<1>2. PICK z \in m : SumOver(f, m) # f[z] + SumOver(f, m \ {z})
  BY <1>1
<1> DEFINE p == Pick(m)
<1>3. /\ p \in m /\ m \in SUBSET S /\ IsFiniteSet(m)
      /\ f[p] \in Int /\ f[z] \in Int
  BY <1>1, <1>2, PickIn, FS_Subset
<1>4. SumOver(f, m) = f[p] + SumOver(f, m \ {p})
  BY <1>3, SumPick
<1>5. p # z
  BY <1>2, <1>4
<1> DEFINE rest == (m \ {p}) \ {z}
<1>6. SumOver(f, m \ {p}) = f[z] + SumOver(f, rest)
  BY <1>1, <1>3, <1>5
<1>7. SumOver(f, m \ {z}) = f[p] + SumOver(f, rest)
  <2>1. (m \ {z}) \ {p} = rest
    OBVIOUS
  <2>2. p \in m \ {z} /\ m \ {z} \in SUBSET S /\ m \ {z} \notin B
    BY <1>1, <1>3, <1>5
  <2> QED
    BY <2>1, <2>2
<1>8. SumOver(f, rest) \in Int
  BY <1>3, FS_Subset, SumInt
<1> HIDE DEF p, rest
<1> QED
  BY <1>2, <1>3, <1>4, <1>6, <1>7, <1>8

\* Naturals sum to a natural.
LEMMA SumNat ==
    ASSUME NEW S, IsFiniteSet(S), NEW f, \A x \in S : f[x] \in Nat
    PROVE  SumOver(f, S) \in Nat
<1> DEFINE B == {T \in SUBSET S : SumOver(f, T) \notin Nat}
<1> SUFFICES ASSUME B # {} PROVE FALSE
  OBVIOUS
<1>1. PICK m \in B : \A y \in m : m \ {y} \notin B
  <2>1. B \in SUBSET (SUBSET S)
    OBVIOUS
  <2> HIDE DEF B
  <2> QED BY <2>1, Smallest
<1>2. m \in SUBSET S /\ IsFiniteSet(m) /\ SumOver(f, m) \notin Nat
  BY <1>1, FS_Subset
<1>3. m # {}
  BY <1>2, SumEmpty
<1>4. Pick(m) \in m /\ f[Pick(m)] \in Nat
  BY <1>2, <1>3, PickIn
<1>5. SumOver(f, m) = f[Pick(m)] + SumOver(f, m \ {Pick(m)})
  BY <1>2, <1>3, SumPick
<1>6. SumOver(f, m \ {Pick(m)}) \in Nat
  BY <1>1, <1>2, <1>4
<1> QED
  BY <1>2, <1>4, <1>5, <1>6

\* Naturals of at most v sum to at most as many times v.
LEMMA SumAtMost ==
    ASSUME NEW S, IsFiniteSet(S), NEW f, NEW v \in Nat, \A x \in S : f[x] \in Nat /\ f[x] <= v
    PROVE  SumOver(f, S) <= Cardinality(S) * v
<1> DEFINE B == {T \in SUBSET S : ~(SumOver(f, T) <= Cardinality(T) * v)}
<1> SUFFICES ASSUME B # {} PROVE FALSE
  OBVIOUS
<1>1. PICK m \in B : \A y \in m : m \ {y} \notin B
  <2>1. B \in SUBSET (SUBSET S)
    OBVIOUS
  <2> HIDE DEF B
  <2> QED BY <2>1, Smallest
<1>2. m \in SUBSET S /\ IsFiniteSet(m) /\ ~(SumOver(f, m) <= Cardinality(m) * v)
  BY <1>1, FS_Subset
<1>3. m # {}
  <2>1. SumOver(f, {}) = 0
    BY SumEmpty
  <2>2. Cardinality({}) = 0
    BY FS_EmptySet
  <2>3. 0 <= 0 * v
    OBVIOUS
  <2> HIDE DEF B
  <2> QED
    BY <1>2, <2>1, <2>2, <2>3, Zenon
<1>4. Pick(m) \in m /\ f[Pick(m)] \in Nat /\ f[Pick(m)] <= v
  BY <1>2, <1>3, PickIn
<1>5. SumOver(f, m) = f[Pick(m)] + SumOver(f, m \ {Pick(m)})
  <2>1. \A x \in m : f[x] \in Int
    BY <1>2
  <2> QED
    BY <1>2, <1>3, <2>1, SumPick, Zenon
<1>6. SumOver(f, m \ {Pick(m)}) <= Cardinality(m \ {Pick(m)}) * v
  BY <1>1, <1>2, <1>4
<1>7. Cardinality(m) \in Nat /\ Cardinality(m \ {Pick(m)}) = Cardinality(m) - 1
  BY <1>2, <1>4, FS_CardinalityType, FS_RemoveElement
<1>8. (Cardinality(m) - 1) * v = Cardinality(m) * v - v
  BY <1>7
<1>9. Cardinality(m) * v \in Int
  BY <1>7
<1>10. SumOver(f, m \ {Pick(m)}) \in Nat
  BY <1>2, FS_Subset, SumNat
<1> QED
  BY <1>2, <1>4, <1>5, <1>6, <1>7, <1>8, <1>9, <1>10

-----------------------------------------------------------------------------
(* What the actions have in common *)

AdminRecords == [at : AdminStates, kind : {"fund", "withdraw", "revoke"},
                 conn : Dedicated, wallet : Nat, allocated : Nat]
AdminTyped   == admin \in [Admins -> AdminRecords]

\* No step changes whom a request is of, and what it asks to pay.
LEMMA RequestsKept ==
    ASSUME ReqTyped, [Next]_vars, NEW q \in Requests
    PROVE  req'[q].caller = req[q].caller /\ req'[q].invoice = req[q].invoice
<1>1. CASE UNCHANGED req
  BY <1>1
<1>2. ASSUME NEW r \in Requests, NEW s, At(r, s)
      PROVE  req'[q].caller = req[q].caller /\ req'[q].invoice = req[q].invoice
  BY <1>2 DEF At, ReqTyped, ReqRecords
<1>3. ASSUME NEW r \in Requests, NEW a, Answer(r, a)
      PROVE  req'[q].caller = req[q].caller /\ req'[q].invoice = req[q].invoice
  BY <1>3 DEF Answer, ReqTyped, ReqRecords
<1>4. ASSUME NEW r \in Requests, Paid(r)
      PROVE  req'[q].caller = req[q].caller /\ req'[q].invoice = req[q].invoice
  <2>1. PICK routing :
          req' = [req EXCEPT ![r] = [req[r] EXCEPT !.at = "settled", !.routing = routing]]
    BY <1>4 DEF Paid
  <2> QED
    BY <2>1 DEF ReqTyped, ReqRecords
<1>5. ASSUME NEW r \in Requests, Receive(r) \/ ApiReceive(r) \/ PayStep(r)
      PROVE  Paid(r) \/ (\E s : At(r, s)) \/ (\E a : Answer(r, a))
  BY <1>5 DEF PayStep, Receive, ApiReceive, CheckLimits, CheckPool, Book, TrackSpend, BookFailure,
     PayThrows, Take, NotPaid, ApiCheckPool, ApiTrackSpend, ApiRecord, Refuse, Passes, Told
<1>6. ASSUME NEW a \in Admins, AdminStep(a) PROVE UNCHANGED req
  BY <1>6 DEF AdminStep, AdminRequest, FundRead, FundCount, FundCommit, Withdraw, Revoke
<1> QED
  BY <1>1, <1>2, <1>3, <1>4, <1>5, <1>6 DEF Next, vars

\* Where a request stands after one moved ...
LEMMA WhereAt ==
    ASSUME ReqTyped, NEW r \in Requests, NEW s, At(r, s), NEW q \in Requests
    PROVE  req'[q] = IF q = r THEN [req[r] EXCEPT !.at = s] ELSE req[q]
BY DEF At, ReqTyped

\* ... and after one was answered.
LEMMA WhereAnswered ==
    ASSUME ReqTyped, NEW r \in Requests, NEW a, Answer(r, a), NEW q \in Requests
    PROVE  req'[q] = IF q = r THEN [req[r] EXCEPT !.at = "answered", !.answer = a] ELSE req[q]
BY DEF Answer, ReqTyped

\* The service fee of an amount is a number of sats.
LEMMA FeeNat ==
    ASSUME NEW amount \in Nat
    PROVE  calcServiceFee(amount) \in Nat
<1>1. ServiceFeePpm \in Nat /\ ServiceFeeBase \in Nat
  BY SpendingAssumption
<1>2. amount * ServiceFeePpm \in Nat
  BY <1>1
<1>3. (amount * ServiceFeePpm) \div 1000000 \in Nat
  BY <1>2
<1> QED
  BY <1>1, <1>3 DEF calcServiceFee

\* What a request needs is a number of sats, at least one.
LEMMA NeededNat ==
    ASSUME ReqTyped, NEW r \in Requests
    PROVE  /\ Sats[req[r].invoice] \in Nat /\ Sats[req[r].invoice] >= 1
           /\ Needed(r) \in Nat /\ Needed(r) >= Sats[req[r].invoice]
           /\ MintReserve \in Nat
<1>1. Sats[req[r].invoice] \in Nat /\ Sats[req[r].invoice] >= 1 /\ MintReserve \in Nat
  BY SpendingAssumption DEF ReqTyped, ReqRecords
<1>2. calcServiceFee(Sats[req[r].invoice]) \in Nat
  BY <1>1, FeeNat
<1> QED
  BY <1>1, <1>2 DEF Needed

\* A whole number of sats that passes a balance check also covers what the mint may
\* keep for routing.
LEMMA CheckCovers ==
    ASSUME ReserveCovers, ReqTyped, NEW r \in Requests,
           NEW msat \in Int, msat % 1000 = 0, MaxSpendable(msat) >= Needed(r) * 1000
    PROVE  msat >= (Needed(r) + MintReserve) * 1000
<1>1. Needed(r) \in Nat /\ Needed(r) >= 1 /\ MintReserve \in Nat
  BY NeededNat
<1>2. (100 - FeeReservePct) \in Nat
  BY SpendingAssumption
<1>3. MaxSpendable((Needed(r) + MintReserve - 1) * 1000) < Needed(r) * 1000
  <2>1. req[r].invoice \in Invoices
    BY DEF ReqTyped, ReqRecords
  <2>2. \A i \in Invoices :
          MaxSpendable((Sats[i] + calcServiceFee(Sats[i]) + MintReserve - 1) * 1000)
            < (Sats[i] + calcServiceFee(Sats[i])) * 1000
    BY DEF ReserveCovers, MaxSpendable
  <2> QED
    BY <2>1, <2>2 DEF Needed
<1> DEFINE limit == Needed(r) * 1000
           short == (Needed(r) + MintReserve - 1) * 1000
           rate  == 100 - FeeReservePct
           a     == rate * msat
           b     == rate * short
<1>4. limit \in Int /\ rate \in Nat /\ short \in Int
  BY <1>1, <1>2
<1>5. b \div 100 < limit /\ a \div 100 >= limit
  BY <1>3 DEF MaxSpendable
<1> SUFFICES ASSUME msat < (Needed(r) + MintReserve) * 1000 PROVE FALSE
  BY <1>1
<1>6. msat <= short
  BY <1>1
<1> HIDE DEF limit, short, rate
<1>7. a <= b /\ a \in Int /\ b \in Int
  BY <1>4, <1>6
<1> HIDE DEF a, b
<1>8. a \div 100 <= b \div 100 /\ a \div 100 \in Int /\ b \div 100 \in Int
  BY <1>7
<1> QED
  BY <1>4, <1>5, <1>8

\* ReserveCovers in terms of the configuration: it is enough that the reserve a mint asks
\* for is at most the percentage set aside, of the invoice, the service fee and the reserve.
LEMMA PercentageCovers ==
    ASSUME \A i \in Invoices :
              100 * MintReserve
                <= FeeReservePct * (Sats[i] + calcServiceFee(Sats[i]) + MintReserve)
    PROVE  ReserveCovers
<1> SUFFICES ASSUME NEW i \in Invoices
             PROVE  MaxSpendable((Sats[i] + calcServiceFee(Sats[i]) + MintReserve - 1) * 1000)
                      < (Sats[i] + calcServiceFee(Sats[i])) * 1000
  BY DEF ReserveCovers, MaxSpendable
<1> DEFINE need == Sats[i] + calcServiceFee(Sats[i])
           full == need + MintReserve
<1>1. need \in Nat /\ need >= 1 /\ MintReserve \in Nat /\ full \in Nat /\ full >= 1
  <2>1. /\ Sats[i] \in Nat /\ Sats[i] >= 1 /\ MintReserve \in Nat
        /\ ServiceFeePpm \in Nat /\ ServiceFeeBase \in Nat
    BY SpendingAssumption
  <2>2. calcServiceFee(Sats[i]) \in Nat
    BY <2>1, FeeNat
  <2> QED
    BY <2>1, <2>2
<1>2. 100 * MintReserve <= FeeReservePct * full
  OBVIOUS
<1>3. FeeReservePct \in Nat /\ FeeReservePct <= 100
  BY SpendingAssumption
<1>4. (need + MintReserve - 1) * 1000 = (full - 1) * 1000
  BY <1>1
<1> HIDE DEF need, full
<1> DEFINE part == FeeReservePct * full
           rest == (100 - FeeReservePct) * ((full - 1) * 1000)
<1>5. rest = (100 * full - part - 100 + FeeReservePct) * 1000 /\ part \in Nat
  BY <1>1, <1>3
<1>6. full = need + MintReserve
  BY DEF full
<1>7. rest < need * 100000
  <2>1. CASE FeeReservePct = 100
    BY <1>1, <1>5, <2>1
  <2>2. CASE FeeReservePct < 100
    <3> HIDE DEF part, rest
    <3>1. 100 * MintReserve <= part
      BY <1>2 DEF part
    <3> QED
      BY <1>1, <1>3, <1>5, <1>6, <2>2, <3>1
  <2> QED
    BY <1>3, <2>1, <2>2
<1>8. rest \div 100 < need * 1000
  <2> HIDE DEF rest, part
  <2>1. rest \in Int
    BY <1>1, <1>3, <1>5
  <2> QED
    BY <1>1, <1>7, <2>1
<1> QED
  BY <1>4, <1>8 DEF MaxSpendable, need

-----------------------------------------------------------------------------
(* A dedicated connection pays out of its own balance *)

\* A payment of a dedicated connection between its balance check and its booking.
InHand(r) == /\ req[r].caller \in Dedicated
             /\ req[r].at \in {"checked", "queued", "melting", "settled"}

\* What a payment may take: the invoice, the service fee and the whole reserve.
AtMost(r) == (Needed(r) + MintReserve) * 1000

\* What a step must not do to keep balances apart: lower the balance of a connection
\* while a payment of it is in hand, be it by another payment, a withdrawal or a revocation.
Undisturbed ==
    \A r \in Requests : InHand(r) /\ InHand(r)' =>
        funds'[req[r].caller] >= funds[req[r].caller]

\* Balances are whole sats, the mint keeps no more than its reserve, and a balance still
\* covers the payment it was checked for.
FundsTyped     == funds \in [Conns -> Nat]
WholeSats      == \A c \in Conns : funds[c] % 1000 = 0
RoutingBounded == \A r \in Requests : req[r].routing <= MintReserve
FundsCover     == \A r \in Requests : InHand(r) => funds[req[r].caller] >= AtMost(r)
OverdraftTyped == overdraft \in [Conns -> Nat]

BalanceInv ==
    /\ FundsTyped /\ WholeSats /\ RoutingBounded /\ FundsCover
    /\ OverdraftTyped /\ Isolation

\* A payment in hand was in hand before, or has just passed the balance check.
LEMMA ComesIntoHand ==
    ASSUME ReqTyped, [Next]_vars, NEW q \in Requests, InHand(q)'
    PROVE  InHand(q) \/ (CheckLimits(q) /\ At(q, "checked"))
<1>1. req'[q].caller = req[q].caller
  BY RequestsKept
<1>2. SUFFICES ASSUME req[q].caller \in Dedicated, req[q].caller \in Conns, ~IsApi(q),
                      req[q].at \notin {"checked", "queued", "melting", "settled"},
                      req'[q].at \in {"checked", "queued", "melting", "settled"}
               PROVE  CheckLimits(q) /\ At(q, "checked")
  BY <1>1, SpendingAssumption DEF InHand, IsApi
<1>3. req' # req
  BY <1>2
<1>4. ASSUME NEW r \in Requests, r # q, Receive(r) \/ ApiReceive(r) \/ PayStep(r) PROVE FALSE
  <2>1. ASSUME NEW s, At(r, s) PROVE FALSE
    BY <1>2, <1>4, <2>1, WhereAt
  <2>2. ASSUME NEW a, Answer(r, a) PROVE FALSE
    BY <1>2, <1>4, <2>2, WhereAnswered
  <2>3. ASSUME Paid(r) PROVE FALSE
    <3>1. PICK v : req' = [req EXCEPT ![r] = v]
      BY <2>3 DEF Paid
    <3> QED
      BY <1>2, <1>4, <3>1 DEF ReqTyped
  <2> QED
    BY <1>4, <2>1, <2>2, <2>3 DEF PayStep, Receive, ApiReceive, CheckLimits, CheckPool, Book,
       TrackSpend, BookFailure, PayThrows, Take, NotPaid, ApiCheckPool, ApiTrackSpend, ApiRecord,
       Refuse, Passes, Told
<1>5. ASSUME NEW a, Answer(q, a) PROVE FALSE
  BY <1>2, <1>5, WhereAnswered DEF ReqTyped, ReqRecords
<1>6. ASSUME NEW s \in {"recorded", "booked"}, At(q, s) PROVE FALSE
  <2>1. req'[q] = [req[q] EXCEPT !.at = s] /\ req[q] \in ReqRecords
    BY <1>6, WhereAt DEF ReqTyped
  <2>2. req'[q].at = s
    BY <2>1 DEF ReqRecords
  <2> QED
    BY <1>2, <1>6, <2>2
<1>7. ASSUME Receive(q) \/ ApiReceive(q) \/ PayStep(q)
      PROVE  CheckLimits(q) /\ At(q, "checked")
  BY <1>2, <1>5, <1>6, <1>7 DEF PayStep, Receive, ApiReceive, CheckLimits, CheckPool, Book,
     TrackSpend, BookFailure, PayThrows, Take, Paid, NotPaid, ApiCheckPool, ApiTrackSpend, ApiRecord,
     Refuse, Passes, Told
<1>8. ASSUME NEW a \in Admins, AdminStep(a) PROVE FALSE
  BY <1>3, <1>8 DEF AdminStep, AdminRequest, FundRead, FundCount, FundCommit, Withdraw, Revoke
<1> QED
  BY <1>3, <1>4, <1>7, <1>8 DEF Next, vars

\* Only the mint's answer sets what it kept, and keeps at most its reserve.
LEMMA RoutingKept ==
    ASSUME ReqTyped, RoutingBounded, [Next]_vars
    PROVE  RoutingBounded'
<1> USE DEF RoutingBounded
<1>1. CASE UNCHANGED req
  BY <1>1
<1>2. ASSUME NEW r \in Requests, NEW s, At(r, s) PROVE RoutingBounded'
  BY <1>2 DEF At, ReqTyped, ReqRecords
<1>3. ASSUME NEW r \in Requests, NEW a, Answer(r, a) PROVE RoutingBounded'
  BY <1>3 DEF Answer, ReqTyped, ReqRecords
<1>4. ASSUME NEW r \in Requests, Paid(r) PROVE RoutingBounded'
  <2>1. PICK routing \in 0..MintReserve :
          req' = [req EXCEPT ![r] = [req[r] EXCEPT !.at = "settled", !.routing = routing]]
    BY <1>4 DEF Paid
  <2>2. routing <= MintReserve
    BY SpendingAssumption
  <2> QED
    BY <2>1, <2>2 DEF ReqTyped, ReqRecords
<1>5. ASSUME NEW r \in Requests, Receive(r) \/ ApiReceive(r) \/ PayStep(r)
      PROVE  Paid(r) \/ (\E s : At(r, s)) \/ (\E a : Answer(r, a))
  BY <1>5 DEF PayStep, Receive, ApiReceive, CheckLimits, CheckPool, Book, TrackSpend, BookFailure,
     PayThrows, Take, NotPaid, ApiCheckPool, ApiTrackSpend, ApiRecord, Refuse, Passes, Told
<1>6. ASSUME NEW a \in Admins, AdminStep(a) PROVE UNCHANGED req
  BY <1>6 DEF AdminStep, AdminRequest, FundRead, FundCount, FundCommit, Withdraw, Revoke
<1> QED
  BY <1>1, <1>2, <1>3, <1>4, <1>5, <1>6 DEF Next, vars

\* The booking of a payment whose balance still covers it: it costs no more than the
\* balance, and the balance goes down by exactly the cost.
LEMMA BookCovered ==
    ASSUME ReqTyped, BalanceInv, NEW r \in Requests, Book(r), req[r].caller \in Dedicated
    PROVE  LET c == req[r].caller
               spent == (Needed(r) + req[r].routing) * 1000
           IN  /\ c \in Conns /\ spent \in Nat /\ spent <= funds[c]
               /\ funds' = [funds EXCEPT ![c] = funds[c] - spent]
               /\ overdraft' = overdraft
<1> DEFINE c == req[r].caller
           spent == (Needed(r) + req[r].routing) * 1000
<1>1. c \in Conns /\ c \in Dedicated
  BY SpendingAssumption
<1>2. Needed(r) \in Nat /\ MintReserve \in Nat /\ req[r].routing \in Nat /\ req[r].routing <= MintReserve
  BY NeededNat DEF ReqTyped, ReqRecords, BalanceInv, RoutingBounded
<1>3. funds[c] >= AtMost(r) /\ funds[c] \in Nat
  BY <1>1 DEF BalanceInv, FundsCover, InHand, Book, FundsTyped
<1>4. spent \in Nat /\ spent <= funds[c]
  BY <1>2, <1>3 DEF AtMost
<1>5. /\ funds' = [funds EXCEPT ![c] = IF spent > @ THEN 0 ELSE @ - spent]
      /\ overdraft' = [overdraft EXCEPT ![c] = @ + IF spent > funds[c] THEN spent - funds[c] ELSE 0]
  BY <1>1 DEF Book
<1> HIDE DEF c, spent
<1>6. ~(spent > funds[c])
  BY <1>3, <1>4
<1>7. funds' = [funds EXCEPT ![c] = funds[c] - spent]
  BY <1>5, <1>6
<1>8. overdraft[c] \in Nat /\ overdraft' = [overdraft EXCEPT ![c] = overdraft[c] + 0]
  BY <1>1, <1>5, <1>6 DEF BalanceInv, OverdraftTyped
<1>9. overdraft' = overdraft
  BY <1>8 DEF BalanceInv, OverdraftTyped
<1> QED
  BY <1>1, <1>4, <1>7, <1>9 DEF c, spent

\* Balances stay naturals, and whole sats, whatever raises or lowers them.
LEMMA BalancesTyped ==
    ASSUME ReqTyped, AdminTyped, BalanceInv, [Next]_vars
    PROVE  FundsTyped' /\ WholeSats' /\ OverdraftTyped' /\ Isolation'
<1> USE DEF FundsTyped, WholeSats, OverdraftTyped, Isolation, BalanceInv
<1>1. ASSUME UNCHANGED <<funds, overdraft>>
      PROVE  FundsTyped' /\ WholeSats' /\ OverdraftTyped' /\ Isolation'
  BY <1>1
<1>2. ASSUME NEW c \in Conns, NEW v \in Nat, v % 1000 = 0,
             funds' = [funds EXCEPT ![c] = v], overdraft' = overdraft
      PROVE  FundsTyped' /\ WholeSats' /\ OverdraftTyped' /\ Isolation'
  BY <1>2
<1>3. ASSUME NEW r \in Requests, Book(r)
      PROVE  FundsTyped' /\ WholeSats' /\ OverdraftTyped' /\ Isolation'
  <2>1. CASE req[r].caller \notin Dedicated
    BY <1>1, <1>3, <2>1 DEF Book
  <2>2. CASE req[r].caller \in Dedicated
    <3> DEFINE c == req[r].caller
               k == Needed(r) + req[r].routing
    <3>1. /\ c \in Conns /\ k * 1000 <= funds[c]
          /\ funds' = [funds EXCEPT ![c] = funds[c] - k * 1000]
          /\ overdraft' = overdraft
      BY <1>3, <2>2, BookCovered
    <3>2. k \in Nat
      BY NeededNat DEF ReqTyped, ReqRecords
    <3>3. funds[c] \in Nat /\ funds[c] % 1000 = 0
      BY <3>1
    <3> HIDE DEF c, k
    <3>4. funds[c] - k * 1000 \in Nat /\ (funds[c] - k * 1000) % 1000 = 0
      BY <3>1, <3>2, <3>3
    <3> QED
      BY <1>2, <3>1, <3>4
  <2> QED
    BY <2>1, <2>2
<1>4. ASSUME NEW a \in Admins, FundCommit(a) \/ Withdraw(a) \/ Revoke(a)
      PROVE  FundsTyped' /\ WholeSats' /\ OverdraftTyped' /\ Isolation'
  <2> DEFINE c == admin[a].conn
  <2>1. c \in Conns /\ funds[c] \in Nat /\ funds[c] % 1000 = 0 /\ FundSats \in Nat
    <3>1. c \in Dedicated /\ Dedicated \subseteq Conns /\ FundSats \in Nat
      BY SpendingAssumption DEF AdminTyped, AdminRecords
    <3> HIDE DEF c
    <3> QED
      BY <3>1
  <2>2. overdraft' = overdraft
    BY <1>4 DEF FundCommit, Withdraw, Revoke
  <2>3. \/ UNCHANGED funds
        \/ funds' = [funds EXCEPT ![c] = funds[c] + FundSats * 1000]
        \/ /\ FundSats * 1000 <= funds[c]
           /\ funds' = [funds EXCEPT ![c] = funds[c] - FundSats * 1000]
        \/ funds' = [funds EXCEPT ![c] = 0]
    BY <1>4, <2>1 DEF FundCommit, Withdraw, Revoke
  <2> HIDE DEF c
  <2>4. funds[c] + FundSats * 1000 \in Nat /\ (funds[c] + FundSats * 1000) % 1000 = 0
    BY <2>1
  <2>5. FundSats * 1000 <= funds[c] =>
          funds[c] - FundSats * 1000 \in Nat /\ (funds[c] - FundSats * 1000) % 1000 = 0
    BY <2>1
  <2>6. 0 \in Nat /\ 0 % 1000 = 0
    OBVIOUS
  <2> QED
    BY <1>1, <1>2, <2>1, <2>2, <2>3, <2>4, <2>5, <2>6
<1>5. ASSUME NEW r \in Requests, Receive(r) \/ ApiReceive(r) \/ PayStep(r), ~Book(r)
      PROVE  UNCHANGED <<funds, overdraft>>
  BY <1>5 DEF PayStep, Receive, ApiReceive, CheckLimits, CheckPool, TrackSpend, BookFailure,
     PayThrows, Take, Paid, NotPaid, ApiCheckPool, ApiTrackSpend, ApiRecord
<1>6. ASSUME NEW a \in Admins, AdminRequest(a) \/ FundRead(a) \/ FundCount(a)
      PROVE  UNCHANGED <<funds, overdraft>>
  BY <1>6 DEF AdminRequest, FundRead, FundCount
<1> QED
  BY <1>1, <1>3, <1>4, <1>5, <1>6 DEF Next, AdminStep, vars

\* A step that leaves balances in hand undisturbed keeps BalanceInv.
LEMMA BalanceStep ==
    ASSUME ReserveCovers, ReqTyped, AdminTyped, BalanceInv, [Next]_vars, Undisturbed
    PROVE  BalanceInv'
<1>1. FundsTyped' /\ WholeSats' /\ OverdraftTyped' /\ Isolation'
  BY BalancesTyped
<1>2. RoutingBounded'
  BY RoutingKept DEF BalanceInv
<1>3. ASSUME NEW q \in Requests, InHand(q)' PROVE funds'[req'[q].caller] >= AtMost(q)'
  <2>1. /\ req'[q].caller = req[q].caller /\ req'[q].invoice = req[q].invoice
        /\ req[q].caller \in Conns /\ req[q].caller \in Dedicated
    BY <1>3, RequestsKept, SpendingAssumption DEF InHand
  <2>2. AtMost(q)' = AtMost(q)
    BY <2>1 DEF AtMost, Needed
  <2>3. CASE InHand(q)
    <3>1. funds[req[q].caller] >= AtMost(q) /\ funds'[req[q].caller] >= funds[req[q].caller]
      BY <1>3, <2>3 DEF BalanceInv, FundsCover, Undisturbed
    <3>2. /\ funds[req[q].caller] \in Nat /\ funds'[req[q].caller] \in Nat /\ AtMost(q) \in Int
      BY <1>1, <2>1, NeededNat DEF BalanceInv, FundsTyped, AtMost
    <3> QED
      BY <2>1, <2>2, <3>1, <3>2
  <2>4. CASE CheckLimits(q) /\ At(q, "checked")
    <3> DEFINE msat == funds[req[q].caller]
    <3>1. funds' = funds
      BY <2>4 DEF CheckLimits
    <3>2. msat \in Nat /\ msat % 1000 = 0
      BY <2>1 DEF BalanceInv, FundsTyped, WholeSats
    <3>3. ~(MaxSpendable(msat) < Needed(q) * 1000)
      <4>1. \A a : ~Answer(q, a)
        <5> SUFFICES ASSUME NEW a, Answer(q, a) PROVE FALSE
          OBVIOUS
        <5> QED
          BY <1>3, WhereAnswered DEF InHand, ReqTyped, ReqRecords
      <4> QED
        BY <2>1, <2>4, <4>1 DEF CheckLimits, Refuse, Told
    <3>4. MaxSpendable(msat) \in Int /\ Needed(q) * 1000 \in Int
      BY <3>2, NeededNat, SpendingAssumption DEF MaxSpendable
    <3>5. msat >= AtMost(q)
      BY <3>2, <3>3, <3>4, CheckCovers DEF AtMost
    <3> QED
      BY <2>1, <2>2, <3>1, <3>5
  <2> QED
    BY <1>3, <2>3, <2>4, ComesIntoHand
<1>4. FundsCover'
  BY <1>3 DEF FundsCover
<1> QED
  BY <1>1, <1>2, <1>4 DEF BalanceInv

-----------------------------------------------------------------------------
(* Types *)

\* What is set aside is a sum of balances.
LEMMA AllocatedNat ==
    ASSUME FundsTyped
    PROVE  /\ Allocated = SumOver(funds, Dedicated \ revoked) /\ Allocated \in Nat
           /\ IsFiniteSet(Dedicated \ revoked) /\ Dedicated \ revoked \subseteq Conns
<1>1. IsFiniteSet(Dedicated \ revoked) /\ Dedicated \ revoked \subseteq Conns
  BY SpendingAssumption, FS_Subset
<1>2. \A c \in Dedicated \ revoked : funds[c] \in Nat
  BY <1>1 DEF FundsTyped
<1>3. Allocated = SumOver(funds, Dedicated \ revoked)
  BY DEF Allocated, SumOver
<1> QED
  BY <1>1, <1>2, <1>3, SumNat

HadTyped == had \in [Requests -> Int]

\* The rest of TypeOK: everything but the history and the requests.
RestTyped ==
    /\ pool \in Nat
    /\ lock \in Requests \cup {"free"}
    /\ FundsTyped
    /\ revoked \subseteq Conns
    /\ daily \in [Callers -> Nat]
    /\ settled \subseteq Invoices
    /\ PayerTyped
    /\ AdminTyped
    /\ OverdraftTyped
    /\ HadTyped

\* A step of a request keeps the types.
LEMMA RequestTyped ==
    ASSUME ReqTyped, RestTyped, NEW r \in Requests, Receive(r) \/ ApiReceive(r) \/ PayStep(r)
    PROVE  RestTyped'
<1> USE DEF RestTyped, FundsTyped, PayerTyped, AdminTyped, OverdraftTyped, HadTyped
<1>1. /\ req[r].caller \in Callers /\ req[r].invoice \in Invoices /\ req[r].routing \in Nat
      /\ Sats[req[r].invoice] \in Nat /\ Needed(r) \in Nat /\ MintReserve \in Nat
  BY NeededNat DEF ReqTyped, ReqRecords
<1>2. CASE Take(r)
  BY <1>1, <1>2 DEF Take
<1>3. CASE Paid(r)
  <2>1. PICK routing \in 0..MintReserve : pool' = pool + MintReserve - routing
    BY <1>3 DEF Paid
  <2>2. pool' \in Nat
    BY <1>1, <2>1
  <2> QED
    BY <1>1, <1>3, <2>2 DEF Paid
<1>4. CASE NotPaid(r)
  BY <1>1, <1>4 DEF NotPaid
<1>5. CASE TrackSpend(r) \/ ApiTrackSpend(r)
  <2>1. Api \in Callers
    BY DEF Callers
  <2> QED
    BY <1>1, <1>5, <2>1 DEF TrackSpend, ApiTrackSpend
<1>6. CASE Book(r)
  <2>1. CASE UNCHANGED <<funds, overdraft>>
    BY <1>6, <2>1 DEF Book
  <2>2. CASE req[r].caller \in Dedicated
    <3> DEFINE c == req[r].caller
               spent == (Needed(r) + req[r].routing) * 1000
    <3>1. c \in Conns /\ spent \in Nat /\ funds[c] \in Nat /\ overdraft[c] \in Nat
      BY <1>1, <2>2, SpendingAssumption
    <3>2. /\ funds' = [funds EXCEPT ![c] = IF spent > funds[c] THEN 0 ELSE funds[c] - spent]
          /\ overdraft' = [overdraft EXCEPT
                             ![c] = overdraft[c] + IF spent > funds[c] THEN spent - funds[c] ELSE 0]
      BY <1>6, <2>2 DEF Book
    <3> HIDE DEF c, spent
    <3>3. FundsTyped' /\ OverdraftTyped'
      BY <3>1, <3>2
    <3> QED
      BY <1>6, <3>3 DEF Book
  <2> QED
    BY <1>6, <2>1, <2>2 DEF Book
<1>7. ASSUME ~Take(r), ~Paid(r), ~NotPaid(r), ~TrackSpend(r), ~ApiTrackSpend(r), ~Book(r)
      PROVE  /\ UNCHANGED <<pool, lock, funds, revoked, daily, settled, payer, admin, overdraft>>
             /\ \/ had' = had
                \/ had' = [had EXCEPT ![r] = funds[req[r].caller]] /\ req[r].caller \in Conns
                \/ had' = [had EXCEPT ![r] = Seen(r)]
  <2>1. ~IsApi(r) => req[r].caller \in Conns
    BY <1>1 DEF IsApi, Callers
  <2> QED
    BY <1>7, <2>1 DEF PayStep, Receive, ApiReceive, CheckLimits, CheckPool, BookFailure, PayThrows,
       ApiCheckPool, ApiRecord, Refuse, Passes
<1>8. CASE /\ UNCHANGED <<pool, lock, funds, revoked, daily, settled, payer, admin, overdraft>>
           /\ \/ had' = had
              \/ had' = [had EXCEPT ![r] = funds[req[r].caller]] /\ req[r].caller \in Conns
              \/ had' = [had EXCEPT ![r] = Seen(r)]
  <2>1. req[r].caller \in Conns => funds[req[r].caller] \in Int
    OBVIOUS
  <2>2. Seen(r) \in Int
    BY AllocatedNat DEF Seen
  <2> QED
    BY <1>8, <2>1, <2>2
<1> QED
  BY <1>2, <1>3, <1>4, <1>5, <1>6, <1>7, <1>8

\* A step of the operator keeps the types.
LEMMA OperatorTyped ==
    ASSUME RestTyped, NEW a \in Admins, AdminStep(a)
    PROVE  RestTyped'
<1> USE DEF RestTyped, OverdraftTyped, PayerTyped, HadTyped
<1> DEFINE c == admin[a].conn
<1>1. /\ admin[a] \in AdminRecords /\ c \in Dedicated /\ c \in Conns
      /\ funds[c] \in Nat /\ FundSats \in Nat
  BY SpendingAssumption DEF AdminTyped, AdminRecords, FundsTyped
<1>2. ASSUME NEW s \in AdminStates, AdminAt(a, s) PROVE AdminTyped'
  <2>1. [admin[a] EXCEPT !.at = s] \in AdminRecords
    BY <1>1 DEF AdminRecords
  <2> QED
    BY <1>2, <2>1 DEF AdminAt, AdminTyped
<1>3. CASE AdminRequest(a)
  BY <1>2, <1>3 DEF AdminRequest, AdminStates, FundsTyped
<1>4. CASE FundRead(a)
  <2>1. [admin[a] EXCEPT !.at = "read", !.wallet = pool] \in AdminRecords
    BY <1>1 DEF AdminRecords, AdminStates
  <2>2. AdminTyped'
    BY <1>4, <2>1 DEF FundRead, AdminTyped
  <2> QED
    BY <1>4, <2>2 DEF FundRead, FundsTyped
<1>5. CASE FundCount(a)
  <2>1. [admin[a] EXCEPT !.at = "counted", !.allocated = Allocated] \in AdminRecords
    BY <1>1, AllocatedNat DEF AdminRecords, AdminStates
  <2>2. AdminTyped'
    BY <1>5, <2>1 DEF FundCount, AdminTyped
  <2> QED
    BY <1>5, <2>2 DEF FundCount, FundsTyped
<1>6. CASE FundCommit(a) \/ Withdraw(a)
  <2>1. AdminTyped'
    BY <1>2, <1>6 DEF FundCommit, Withdraw, AdminStates
  <2>2. \/ UNCHANGED funds
        \/ funds' = [funds EXCEPT ![c] = funds[c] + FundSats * 1000]
        \/ /\ ~(FundSats * 1000 > funds[c])
           /\ funds' = [funds EXCEPT ![c] = funds[c] - FundSats * 1000]
    BY <1>6 DEF FundCommit, Withdraw
  <2> HIDE DEF c
  <2>3. FundsTyped'
    BY <1>1, <2>2 DEF FundsTyped
  <2> QED
    BY <1>6, <2>1, <2>3 DEF FundCommit, Withdraw
<1>7. CASE Revoke(a)
  <2>1. AdminTyped'
    BY <1>2, <1>7 DEF Revoke, AdminStates
  <2>2. funds' = [funds EXCEPT ![c] = 0] /\ revoked' = revoked \cup {c}
    BY <1>7 DEF Revoke
  <2>3. FundsTyped' /\ revoked' \subseteq Conns
    BY <1>1, <2>2 DEF FundsTyped
  <2> QED
    BY <1>7, <2>1, <2>3 DEF Revoke
<1> QED
  BY <1>3, <1>4, <1>5, <1>6, <1>7 DEF AdminStep

\* Every variable keeps its type: balances, the pool and the counters never go below zero,
\* since each transfer is compared with what it takes from, and a payment beyond the
\* balance leaves it at zero.
LEMMA RestTypedInvariant == Spec => []RestTyped
<1>1. Init => RestTyped
  <2> SUFFICES ASSUME Init PROVE RestTyped
    OBVIOUS
  <2>1. InitialPool \in Nat /\ InitialFunds * 1000 \in Nat
    BY SpendingAssumption
  <2>2. FundsTyped /\ OverdraftTyped /\ PayerTyped
    BY <2>1 DEF Init, FundsTyped, OverdraftTyped, PayerTyped
  <2>3. AdminTyped
    <3>1. [at : {"new"}, kind : AdminKinds, conn : Dedicated, wallet : {0}, allocated : {0}]
            \subseteq AdminRecords
      <4>1. AdminKinds \subseteq {"fund", "withdraw", "revoke"} /\ 0 \in Nat
        BY SpendingAssumption
      <4> QED
        BY <4>1 DEF AdminRecords, AdminStates
    <3> QED
      BY <3>1 DEF Init, AdminTyped
  <2> QED
    BY <2>1, <2>2, <2>3 DEF Init, RestTyped, HadTyped
<1>2. RestTyped /\ ReqTyped /\ [Next]_vars => RestTyped'
  <2> SUFFICES ASSUME RestTyped, ReqTyped, [Next]_vars PROVE RestTyped'
    OBVIOUS
  <2>1. CASE UNCHANGED vars
    BY <2>1 DEF vars, RestTyped, FundsTyped, PayerTyped, AdminTyped, OverdraftTyped, HadTyped
  <2> QED
    BY <2>1, RequestTyped, OperatorTyped DEF Next
<1>3. HistoryInv => ReqTyped
  BY DEF HistoryInv
<1> QED
  BY <1>1, <1>2, <1>3, HistoryInvariant, PTL DEF Spec

\* Every variable holds a value of its kind, whoever pays, funds, withdraws and revokes.
THEOREM SpendingTypeCorrect == Spec => []TypeOK
<1>1. RestTyped /\ HistoryInv => TypeOK
  BY DEF RestTyped, HistoryInv, TypeOK, FundsTyped, PayerTyped, AdminTyped, OverdraftTyped, HadTyped,
     TxTyped, ReqTyped, TxRecords, ReqRecords, AdminRecords
<1> QED
  BY <1>1, RestTypedInvariant, HistoryInvariant, PTL

-----------------------------------------------------------------------------
\* BalanceInv at the start ...
LEMMA BalanceInit == Init /\ RestTyped /\ HistoryInv => BalanceInv
<1> SUFFICES ASSUME Init, RestTyped, HistoryInv PROVE BalanceInv
  OBVIOUS
<1>1. InitialFunds * 1000 \in Nat /\ (InitialFunds * 1000) % 1000 = 0
  BY SpendingAssumption
<1>2. WholeSats
  BY <1>1 DEF Init, WholeSats
<1>3. Isolation
  BY SpendingAssumption DEF Init, Isolation
<1>4. RoutingBounded /\ FundsCover
  <2>1. \A r \in Requests : req[r].at = "new" /\ req[r].routing = 0
    BY DEF Init
  <2> QED
    BY <2>1, SpendingAssumption DEF RoutingBounded, FundsCover, InHand
<1> QED
  BY <1>2, <1>3, <1>4 DEF BalanceInv, RestTyped

\* ... and kept by a step that leaves balances in hand undisturbed.
LEMMA BalanceNext ==
    ASSUME ReserveCovers
    PROVE  BalanceInv /\ RestTyped /\ HistoryInv /\ [Next]_vars /\ [Undisturbed]_vars => BalanceInv'
<1> SUFFICES ASSUME BalanceInv, RestTyped, HistoryInv, [Next]_vars, [Undisturbed]_vars
             PROVE  BalanceInv'
  OBVIOUS
<1>1. CASE UNCHANGED vars
  BY <1>1 DEF vars, BalanceInv, FundsTyped, WholeSats, RoutingBounded, FundsCover,
     OverdraftTyped, Isolation, InHand, AtMost, Needed
<1>2. CASE Undisturbed
  BY <1>2, BalanceStep DEF RestTyped, HistoryInv
<1> QED
  BY <1>1, <1>2

\* A dedicated connection never spends beyond its own balance, however handlers
\* interleave, provided nothing lowers the balance of a connection between the balance
\* check of a payment and its booking.
THEOREM IsolationUndisturbed ==
    ASSUME ReserveCovers
    PROVE  Spec /\ [][Undisturbed]_vars => []Isolation
<1>1. BalanceInv => Isolation
  BY DEF BalanceInv
<1> QED
  BY <1>1, BalanceInit, BalanceNext, RestTypedInvariant, HistoryInvariant, PTL DEF Spec

-----------------------------------------------------------------------------
(* What a connection spends beyond its balance *)

\* A payment in hand saw, at its check, a balance that does.
HadEnough ==
    \A r \in Requests : InHand(r) => MaxSpendable(had[r]) >= Needed(r) * 1000

\* It is what the check left in had, and no later step touches it.
LEMMA HadEnoughStep ==
    ASSUME ReqTyped, RestTyped, HadEnough, [Next]_vars
    PROVE  HadEnough'
<1> SUFFICES ASSUME NEW q \in Requests, InHand(q)'
             PROVE  MaxSpendable(had'[q]) >= Needed(q)' * 1000
  BY DEF HadEnough, MaxSpendable
<1>1. req'[q].caller = req[q].caller /\ req'[q].invoice = req[q].invoice
  BY RequestsKept
<1>2. Needed(q)' = Needed(q) /\ Needed(q) \in Nat
  BY <1>1, NeededNat DEF Needed
<1>3. CASE CheckLimits(q) /\ At(q, "checked")
  <2>1. req[q].caller \in Dedicated /\ req[q].caller \in Conns
    BY <1>1, SpendingAssumption DEF InHand
  <2>2. \A a : ~Answer(q, a)
    <3> SUFFICES ASSUME NEW a, Answer(q, a) PROVE FALSE
      OBVIOUS
    <3>1. req'[q] = [req[q] EXCEPT !.at = "answered", !.answer = a] /\ req[q] \in ReqRecords
      BY WhereAnswered DEF ReqTyped
    <3>2. req'[q].at = "answered"
      BY <3>1 DEF ReqRecords
    <3> QED
      BY <3>2 DEF InHand
  <2>3. /\ ~(MaxSpendable(funds[req[q].caller]) < Needed(q) * 1000)
        /\ had' = [had EXCEPT ![q] = funds[req[q].caller]]
    BY <1>3, <2>1, <2>2 DEF CheckLimits, Refuse, Told, Passes
  <2>4. had'[q] = funds[req[q].caller] /\ funds[req[q].caller] \in Nat
    BY <2>1, <2>3 DEF RestTyped, HadTyped, FundsTyped
  <2>5. MaxSpendable(funds[req[q].caller]) \in Int
    BY <2>4, SpendingAssumption DEF MaxSpendable
  <2> QED
    BY <1>2, <2>3, <2>4, <2>5
<1>4. CASE InHand(q)
  <2>1. CASE had'[q] = had[q]
    BY <1>2, <1>4, <2>1 DEF HadEnough, MaxSpendable
  <2>2. CASE had'[q] # had[q]
    <3>1. req[q].caller \in Dedicated
      BY <1>4 DEF InHand
    <3>2. ASSUME NEW r \in Requests, CheckLimits(r) PROVE r # q
      BY <1>4, <3>2 DEF CheckLimits, InHand
    <3>3. ASSUME NEW r \in Requests, CheckPool(r), r = q PROVE had' = had
      <4>1. Seen(q) = had[q]
        BY <3>1 DEF Seen
      <4> QED
        BY <3>3, <4>1 DEF CheckPool, Refuse, Passes, RestTyped, HadTyped
    <3>4. ASSUME NEW r \in Requests, CheckLimits(r) \/ CheckPool(r), r # q PROVE had'[q] = had[q]
      <4>1. had' = had \/ \E v : had' = [had EXCEPT ![r] = v]
        BY <3>4 DEF CheckLimits, CheckPool, Refuse, Passes
      <4> QED
        BY <3>4, <4>1 DEF RestTyped, HadTyped
    <3>5. ASSUME NEW r \in Requests, Receive(r) \/ ApiReceive(r) \/ PayStep(r),
                 ~CheckLimits(r), ~CheckPool(r)
          PROVE  had' = had
      BY <3>5 DEF PayStep, Receive, ApiReceive, Book, TrackSpend, BookFailure, PayThrows, Take,
         Paid, NotPaid, ApiCheckPool, ApiTrackSpend, ApiRecord
    <3>6. ASSUME NEW a \in Admins, AdminStep(a) PROVE had' = had
      BY <3>6 DEF AdminStep, AdminRequest, FundRead, FundCount, FundCommit, Withdraw, Revoke
    <3> QED
      BY <2>2, <3>2, <3>3, <3>4, <3>5, <3>6 DEF Next, PayStep, vars
  <2> QED
    BY <2>1, <2>2
<1> QED
  BY <1>3, <1>4, ComesIntoHand

\* A booking beyond the balance.
LEMMA BookOverdraft ==
    ASSUME ReqTyped, RestTyped, HadEnough, NEW r \in Requests, Book(r), NEW c \in Dedicated,
           overdraft'[c] # overdraft[c]
    PROVE  /\ req[r].caller = c /\ Goes(r, "settled", "booked")
           /\ overdraft'[c] - overdraft[c] <= NonNegative(had[r] - funds[c])
                 + NonNegative(req[r].routing * 1000 - SetAside(r))
<1> DEFINE spent == (Needed(r) + req[r].routing) * 1000
           most  == MaxSpendable(had[r])
<1>1. c \in Conns /\ overdraft \in [Conns -> Nat] /\ funds[c] \in Nat /\ overdraft[c] \in Nat
      /\ had[r] \in Int /\ req[r].routing \in Nat /\ Needed(r) \in Nat
  BY NeededNat, SpendingAssumption
     DEF RestTyped, OverdraftTyped, FundsTyped, HadTyped, ReqTyped, ReqRecords
<1>2. /\ req[r].caller \in Dedicated
      /\ overdraft' = [overdraft EXCEPT ![req[r].caller] =
                         @ + IF spent > funds[req[r].caller]
                             THEN spent - funds[req[r].caller] ELSE 0]
  BY DEF Book
<1>3. req[r].caller = c
  BY <1>1, <1>2
<1>4. overdraft'[c] = overdraft[c] + IF spent > funds[c] THEN spent - funds[c] ELSE 0
  BY <1>1, <1>2, <1>3
<1>5. most >= Needed(r) * 1000 /\ most \in Int /\ SetAside(r) = had[r] - most
  <2>1. InHand(r)
    BY <1>2 DEF InHand, Book
  <2> QED
    BY <1>1, <2>1, SpendingAssumption DEF HadEnough, SetAside, MaxSpendable
<1>6. req[r].at = "settled" /\ req'[r].at = "booked"
  <2>1. req[r].at = "settled" /\ At(r, "booked") /\ req[r] \in ReqRecords
    BY DEF Book, ReqTyped
  <2>2. req'[r] = [req[r] EXCEPT !.at = "booked"]
    BY <2>1, WhereAt
  <2> QED
    BY <2>1, <2>2 DEF ReqRecords
<1>7. spent = Needed(r) * 1000 + req[r].routing * 1000 /\ spent \in Int
  BY <1>1
<1> HIDE DEF spent, most
<1>8. overdraft'[c] - overdraft[c] = spent - funds[c]
  BY <1>1, <1>4, <1>7
<1>9. spent - funds[c] <= (had[r] - funds[c]) + (req[r].routing * 1000 - SetAside(r))
  BY <1>1, <1>5, <1>7
<1>11. SetAside(r) \in Int
  BY <1>1, <1>5
<1> DEFINE fell  == had[r] - funds[c]
           above == req[r].routing * 1000 - SetAside(r)
<1>12. overdraft'[c] - overdraft[c] <= fell + above /\ fell \in Int /\ above \in Int
  BY <1>1, <1>8, <1>9, <1>11
<1>13. overdraft'[c] - overdraft[c] \in Int
  BY <1>1, <1>7, <1>8
<1> HIDE DEF fell, above
<1>14. overdraft'[c] - overdraft[c] <= NonNegative(fell) + NonNegative(above)
  BY <1>12, <1>13 DEF NonNegative
<1> QED
  BY <1>3, <1>6, <1>14 DEF Goes, fell, above

\* Whatever interleaves with a payment, a dedicated connection spends beyond its balance by
\* no more than the balance fell since the payment's check, and the routing fee beyond
\* the percentage set aside.
THEOREM OverdraftBoundedTheorem == Spec => OverdraftBounded
<1>1. Init => HadEnough
  BY DEF Init, HadEnough, InHand
<1>2. HistoryInv /\ RestTyped /\ HadEnough /\ [Next]_vars => HadEnough'
  BY HadEnoughStep DEF HistoryInv
<1>3. Spec => []HadEnough
  BY <1>1, <1>2, HistoryInvariant, RestTypedInvariant, PTL DEF Spec
<1> DEFINE Grows == \A c \in Dedicated : overdraft'[c] # overdraft[c] =>
             \E r \in Requests :
                /\ req[r].caller = c /\ Goes(r, "settled", "booked")
                /\ overdraft'[c] - overdraft[c] <= NonNegative(had[r] - funds[c])
                      + NonNegative(req[r].routing * 1000 - SetAside(r))
<1>4. HistoryInv /\ RestTyped /\ HadEnough /\ [Next]_vars => [Grows]_vars
  <2> SUFFICES ASSUME HistoryInv, RestTyped, HadEnough, Next, NEW c \in Dedicated,
                      overdraft'[c] # overdraft[c]
               PROVE  \E r \in Requests :
                        /\ req[r].caller = c /\ Goes(r, "settled", "booked")
                        /\ overdraft'[c] - overdraft[c] <= NonNegative(had[r] - funds[c])
                              + NonNegative(req[r].routing * 1000 - SetAside(r))
    BY DEF vars
  <2>1. ASSUME NEW r \in Requests, Receive(r) \/ ApiReceive(r) \/ PayStep(r), ~Book(r)
        PROVE  overdraft' = overdraft
    BY <2>1 DEF PayStep, Receive, ApiReceive, CheckLimits, CheckPool, TrackSpend, BookFailure,
       PayThrows, Take, Paid, NotPaid, ApiCheckPool, ApiTrackSpend, ApiRecord
  <2>2. ASSUME NEW a \in Admins, AdminStep(a) PROVE overdraft' = overdraft
    BY <2>2 DEF AdminStep, AdminRequest, FundRead, FundCount, FundCommit, Withdraw, Revoke
  <2>3. PICK r \in Requests : Book(r)
    BY <2>1, <2>2 DEF Next
  <2> QED
    BY <2>3, BookOverdraft DEF HistoryInv
<1>5. OverdraftBounded <=> [][Grows]_vars
  BY DEF OverdraftBounded
<1> HIDE DEF Grows
<1>6. Spec => [][Grows]_vars
  BY <1>3, <1>4, HistoryInvariant, RestTypedInvariant, PTL DEF Spec
<1> QED
  BY <1>5, <1>6

-----------------------------------------------------------------------------
(* How many handlers run *)

Busy(r)      == req[r].at \notin {"new", "answered"}
AdminBusy(a) == admin[a].at \notin {"new", "done"}

\* A step of a request: no other moves, and it is under way or finds no other running.
LEMMA RequestMoves ==
    ASSUME ReqTyped, NEW r \in Requests, Receive(r) \/ ApiReceive(r) \/ PayStep(r)
    PROVE  /\ admin' = admin
           /\ \A q \in Requests \ {r} : req'[q] = req[q]
           /\ Busy(r) \/ Cardinality(Running) < MaxRunning
<1>1. Busy(r) \/ Cardinality(Running) < MaxRunning
  BY DEF Busy, PayStep, Receive, ApiReceive, CheckLimits, CheckPool, Book, TrackSpend,
     BookFailure, PayThrows, Take, Paid, NotPaid, ApiCheckPool, ApiTrackSpend, ApiRecord
<1>2. admin' = admin
  BY DEF PayStep, Receive, ApiReceive, CheckLimits, CheckPool, Book, TrackSpend,
     BookFailure, PayThrows, Take, Paid, NotPaid, ApiCheckPool, ApiTrackSpend, ApiRecord
<1>3. \E v : req' = [req EXCEPT ![r] = v]
  <2>1. ASSUME NEW s, At(r, s) PROVE \E v : req' = [req EXCEPT ![r] = v]
    BY <2>1 DEF At
  <2>2. ASSUME NEW a, Answer(r, a) PROVE \E v : req' = [req EXCEPT ![r] = v]
    BY <2>2 DEF Answer
  <2>3. ASSUME Paid(r) PROVE \E v : req' = [req EXCEPT ![r] = v]
    BY <2>3 DEF Paid
  <2>4. Paid(r) \/ (\E s : At(r, s)) \/ (\E a : Answer(r, a))
    BY DEF PayStep, Receive, ApiReceive, CheckLimits, CheckPool, Book, TrackSpend,
       BookFailure, PayThrows, Take, NotPaid, ApiCheckPool, ApiTrackSpend, ApiRecord,
       Refuse, Passes, Told
  <2> QED
    BY <2>1, <2>2, <2>3, <2>4
<1> QED
  BY <1>1, <1>2, <1>3 DEF ReqTyped

\* The same of a step of the operator.
LEMMA OperatorMoves ==
    ASSUME AdminTyped, NEW a \in Admins, AdminStep(a)
    PROVE  /\ req' = req
           /\ \A b \in Admins \ {a} : admin'[b] = admin[b]
           /\ AdminBusy(a) \/ Cardinality(Running) < MaxRunning
<1>1. AdminBusy(a) \/ Cardinality(Running) < MaxRunning
  BY DEF AdminBusy, AdminStep, AdminRequest, FundRead, FundCount, FundCommit, Withdraw,
     Revoke
<1>2. req' = req /\ \E v : admin' = [admin EXCEPT ![a] = v]
  BY DEF AdminStep, AdminRequest, FundRead, FundCount, FundCommit, Withdraw, Revoke,
     AdminAt
<1> QED
  BY <1>1, <1>2 DEF AdminTyped

\* No more handlers run at once than the bound: one that starts finds fewer.
RunningBounded == IsFiniteSet(Running) /\ Cardinality(Running) <= MaxRunning

LEMMA RunningStep ==
    ASSUME ReqTyped, AdminTyped, RunningBounded, [Next]_vars
    PROVE  RunningBounded'
<1> DEFINE Runs(x) == \/ x \in Requests /\ req[x].at \notin {"new", "answered"}
                      \/ x \in Admins /\ admin[x].at \notin {"new", "done"}
<1>1. \A x : x \in Running <=> Runs(x)
  BY DEF Running
<1>2. \A x : x \in Running' <=> Runs(x)'
  BY DEF Running
<1>3. Cardinality(Running) \in Nat /\ MaxRunning \in Nat \ {0}
  BY SpendingAssumption, FS_CardinalityType DEF RunningBounded
\* One handler that moves may join those that run, when they are fewer.
<1>4. ASSUME NEW h, Running' \subseteq Running \cup {h},
             h \in Running \/ Cardinality(Running) < MaxRunning
      PROVE  RunningBounded'
  <2>1. CASE h \in Running
    <3>1. Running' \subseteq Running
      BY <1>4, <2>1
    <3>2. /\ IsFiniteSet(Running') /\ Cardinality(Running') \in Nat
          /\ Cardinality(Running') <= Cardinality(Running)
      BY <3>1, FS_Subset, FS_CardinalityType DEF RunningBounded
    <3> QED
      BY <1>3, <3>2 DEF RunningBounded
  <2>2. CASE h \notin Running
    <3>1. /\ IsFiniteSet(Running \cup {h})
          /\ Cardinality(Running \cup {h}) = Cardinality(Running) + 1
      BY <2>2, FS_AddElement DEF RunningBounded
    <3>2. /\ IsFiniteSet(Running') /\ Cardinality(Running') \in Nat
          /\ Cardinality(Running') <= Cardinality(Running \cup {h})
      BY <1>4, <3>1, FS_Subset, FS_CardinalityType
    <3> QED
      BY <1>3, <1>4, <2>2, <3>1, <3>2 DEF RunningBounded
  <2> QED
    BY <2>1, <2>2
<1>5. CASE UNCHANGED <<req, admin>>
  <2>1. Running' = Running
    BY <1>5 DEF Running
  <2> QED
    BY <2>1 DEF RunningBounded
<1>6. ASSUME NEW r \in Requests, Receive(r) \/ ApiReceive(r) \/ PayStep(r) PROVE RunningBounded'
  <2>1. /\ admin' = admin /\ \A q \in Requests \ {r} : req'[q] = req[q]
        /\ Busy(r) \/ Cardinality(Running) < MaxRunning
    BY <1>6, RequestMoves
  <2>2. \A x : Runs(x)' => Runs(x) \/ x = r
    BY <2>1
  <2>3. Running' \subseteq Running \cup {r}
    <3> HIDE DEF Runs
    <3> QED
      BY <1>1, <1>2, <2>2
  <2>4. Busy(r) => r \in Running
    BY DEF Busy, Running
  <2> QED
    BY <1>4, <2>1, <2>3, <2>4
<1>7. ASSUME NEW a \in Admins, AdminStep(a) PROVE RunningBounded'
  <2>1. /\ req' = req /\ \A b \in Admins \ {a} : admin'[b] = admin[b]
        /\ AdminBusy(a) \/ Cardinality(Running) < MaxRunning
    BY <1>7, OperatorMoves
  <2>2. \A x : Runs(x)' => Runs(x) \/ x = a
    BY <2>1
  <2>3. Running' \subseteq Running \cup {a}
    <3> HIDE DEF Runs
    <3> QED
      BY <1>1, <1>2, <2>2
  <2>4. AdminBusy(a) => a \in Running
    BY DEF AdminBusy, Running
  <2> QED
    BY <1>4, <2>1, <2>3, <2>4
<1> QED
  BY <1>5, <1>6, <1>7 DEF Next, vars

\* RunningBounded, from the start.
LEMMA RunningInvariant == Spec => []RunningBounded
<1>1. Init => RunningBounded
  <2> SUFFICES ASSUME Init PROVE RunningBounded
    OBVIOUS
  <2>1. Running = {}
    BY DEF Init, Running
  <2> QED
    BY <2>1, FS_EmptySet, SpendingAssumption DEF RunningBounded
<1>2. HistoryInv /\ RestTyped /\ RunningBounded /\ [Next]_vars => RunningBounded'
  BY RunningStep DEF HistoryInv, RestTyped
<1> QED
  BY <1>1, <1>2, HistoryInvariant, RestTypedInvariant, PTL DEF Spec

-----------------------------------------------------------------------------
(* The daily limit *)

\* What a step must not do: count another payment of a caller whose payment has been
\* checked and not counted yet.
CountedAlone ==
    \A r \in Requests : Uncounted(r) /\ Uncounted(r)' =>
        daily'[req[r].caller] = daily[req[r].caller]

\* The day's total still has room for the payment it was checked for.
RoomLeft ==
    \A r \in Requests : Uncounted(r) /\ LimitOf(req[r].caller) # 0 =>
        daily[req[r].caller] + Sats[req[r].invoice] <= LimitOf(req[r].caller)

DailyTyped == daily \in [Callers -> Nat]

\* No caller spends more in a day than the stricter of its limits.
DailyLimitHolds == \A c \in Callers : LimitOf(c) # 0 => daily[c] <= LimitOf(c)

QuotaInv == DailyTyped /\ RoomLeft /\ DailyLimitHolds

\* A payment not yet counted was so before, or has just passed the check of the limits.
LEMMA ComesUncounted ==
    ASSUME ReqTyped, [Next]_vars, NEW q \in Requests, Uncounted(q)'
    PROVE  Uncounted(q) \/ ((CheckLimits(q) \/ ApiReceive(q)) /\ At(q, "checked"))
<1>1. req'[q].caller = req[q].caller
  BY RequestsKept
<1>2. SUFFICES ASSUME ~Uncounted(q)
               PROVE  (CheckLimits(q) \/ ApiReceive(q)) /\ At(q, "checked")
  OBVIOUS
<1>3. req'[q].at # req[q].at
  BY <1>1, <1>2 DEF Uncounted, IsApi
<1>4. ASSUME NEW r \in Requests, r # q, Receive(r) \/ ApiReceive(r) \/ PayStep(r) PROVE FALSE
  <2>1. ASSUME NEW s, At(r, s) PROVE FALSE
    BY <1>3, <1>4, <2>1, WhereAt
  <2>2. ASSUME NEW a, Answer(r, a) PROVE FALSE
    BY <1>3, <1>4, <2>2, WhereAnswered
  <2>3. ASSUME Paid(r) PROVE FALSE
    <3>1. PICK v : req' = [req EXCEPT ![r] = v]
      BY <2>3 DEF Paid
    <3> QED
      BY <1>3, <1>4, <3>1 DEF ReqTyped
  <2> QED
    BY <1>4, <2>1, <2>2, <2>3 DEF PayStep, Receive, ApiReceive, CheckLimits, CheckPool, Book,
       TrackSpend, BookFailure, PayThrows, Take, NotPaid, ApiCheckPool, ApiTrackSpend, ApiRecord,
       Refuse, Passes, Told
<1>5. ASSUME NEW a, Answer(q, a) PROVE FALSE
  <2>1. req'[q] = [req[q] EXCEPT !.at = "answered", !.answer = a] /\ req[q] \in ReqRecords
    BY <1>5, WhereAnswered DEF ReqTyped
  <2>2. req'[q].at = "answered"
    BY <2>1 DEF ReqRecords
  <2> QED
    BY <2>2 DEF Uncounted
<1>6. ASSUME NEW s, At(q, s) PROVE req'[q].at = s
  <2>1. req'[q] = [req[q] EXCEPT !.at = s] /\ req[q] \in ReqRecords
    BY <1>6, WhereAt DEF ReqTyped
  <2> QED
    BY <2>1 DEF ReqRecords
<1>7. ASSUME Receive(q) \/ ApiReceive(q) \/ PayStep(q)
      PROVE  (CheckLimits(q) \/ ApiReceive(q)) /\ At(q, "checked")
  <2>1. CASE Receive(q)
    BY <1>5, <1>6, <2>1 DEF Receive, Uncounted
  <2>2. CASE CheckLimits(q) \/ ApiReceive(q)
    BY <1>5, <2>2 DEF CheckLimits, ApiReceive, Refuse, Passes, Told
  <2>3. CASE ApiTrackSpend(q)
    <3>1. req'[q].at = "booked" /\ IsApi(q)
      BY <1>5, <1>6, <2>3 DEF ApiTrackSpend
    <3> QED
      BY <1>1, <3>1 DEF Uncounted, IsApi
  <2>4. CASE TrackSpend(q) \/ BookFailure(q) \/ PayThrows(q) \/ ApiRecord(q)
    BY <1>5, <2>4 DEF TrackSpend, BookFailure, PayThrows, ApiRecord, Told
  <2>5. CASE CheckPool(q) \/ Book(q) \/ Take(q) \/ Paid(q) \/ NotPaid(q) \/ ApiCheckPool(q)
    BY <1>2, <2>5 DEF CheckPool, Book, Take, Paid, NotPaid, ApiCheckPool, Uncounted
  <2> QED
    BY <1>7, <2>1, <2>2, <2>3, <2>4, <2>5 DEF PayStep
<1>8. ASSUME NEW a \in Admins, AdminStep(a) PROVE FALSE
  BY <1>3, <1>8 DEF AdminStep, AdminRequest, FundRead, FundCount, FundCommit, Withdraw, Revoke
<1> QED
  BY <1>3, <1>4, <1>7, <1>8 DEF Next, vars

\* A payment that passes the check finds room for itself.
LEMMA CheckFindsRoom ==
    ASSUME ReqTyped, DailyTyped, NEW q \in Requests, CheckLimits(q) \/ ApiReceive(q),
           At(q, "checked"), LimitOf(req[q].caller) # 0
    PROVE  daily[req[q].caller] + Sats[req[q].invoice] <= LimitOf(req[q].caller)
<1>1. \A a : ~Answer(q, a)
  <2> SUFFICES ASSUME NEW a, Answer(q, a) PROVE FALSE
    OBVIOUS
  <2>1. /\ req'[q] = [req[q] EXCEPT !.at = "answered", !.answer = a]
        /\ req'[q] = [req[q] EXCEPT !.at = "checked"] /\ req[q] \in ReqRecords
    BY WhereAnswered, WhereAt DEF ReqTyped
  <2> QED
    BY <2>1 DEF ReqRecords
<1>2. \E maxPayment : ~OverQuota(q, maxPayment, LimitOf(req[q].caller))
  BY <1>1 DEF CheckLimits, ApiReceive, LimitOf, IsApi
<1>3. /\ daily[req[q].caller] \in Nat /\ Sats[req[q].invoice] \in Nat
      /\ LimitOf(req[q].caller) \in Nat
  BY NeededNat, SpendingAssumption DEF DailyTyped, ReqTyped, ReqRecords, LimitOf, Stricter
<1> QED
  BY <1>2, <1>3 DEF OverQuota

\* A step that counts no other payment of a caller in between keeps QuotaInv.
LEMMA QuotaStep ==
    ASSUME ReqTyped, QuotaInv, DailyTyped', [Next]_vars, CountedAlone
    PROVE  QuotaInv'
<1> USE DEF QuotaInv
<1>2. ASSUME NEW q \in Requests, Uncounted(q)', LimitOf(req'[q].caller) # 0
      PROVE  daily'[req'[q].caller] + Sats[req'[q].invoice] <= LimitOf(req'[q].caller)
  <2>1. req'[q].caller = req[q].caller /\ req'[q].invoice = req[q].invoice
    BY RequestsKept
  <2>2. CASE Uncounted(q)
    BY <1>2, <2>1, <2>2 DEF CountedAlone, RoomLeft
  <2>3. CASE (CheckLimits(q) \/ ApiReceive(q)) /\ At(q, "checked")
    <3>1. daily' = daily
      BY <2>3 DEF CheckLimits, ApiReceive
    <3> QED
      BY <1>2, <2>1, <2>3, <3>1, CheckFindsRoom
  <2> QED
    BY <1>2, <2>2, <2>3, ComesUncounted
<1>3. RoomLeft'
  BY <1>2 DEF RoomLeft
<1>4. ASSUME UNCHANGED daily PROVE DailyLimitHolds'
  BY <1>4 DEF DailyLimitHolds
<1>5. ASSUME NEW r \in Requests, TrackSpend(r) \/ ApiTrackSpend(r) PROVE DailyLimitHolds'
  <2> DEFINE c == req[r].caller
  <2>1. c \in Callers /\ daily[c] \in Nat /\ Sats[req[r].invoice] \in Nat
    BY NeededNat DEF ReqTyped, ReqRecords, DailyTyped
  <2>2. /\ Uncounted(r)
        /\ \/ daily' = [daily EXCEPT ![c] = daily[c] + Sats[req[r].invoice]]
           \/ daily' = daily
    BY <1>5 DEF TrackSpend, ApiTrackSpend, Uncounted, IsApi
  <2>3. LimitOf(c) # 0 => daily'[c] <= LimitOf(c)
    BY <2>1, <2>2 DEF RoomLeft, DailyTyped, DailyLimitHolds
  <2>4. \A d \in Callers \ {c} : daily'[d] = daily[d]
    BY <2>2 DEF DailyTyped
  <2> HIDE DEF c
  <2>5. \A d \in Callers : LimitOf(d) # 0 => daily'[d] <= LimitOf(d)
    BY <2>3, <2>4 DEF DailyLimitHolds
  <2> QED
    BY <2>5 DEF DailyLimitHolds
<1>6. ASSUME NEW r \in Requests, Receive(r) \/ ApiReceive(r) \/ PayStep(r),
             ~TrackSpend(r), ~ApiTrackSpend(r)
      PROVE  UNCHANGED daily
  BY <1>6 DEF PayStep, Receive, ApiReceive, CheckLimits, CheckPool, Book, BookFailure,
     PayThrows, Take, Paid, NotPaid, ApiCheckPool, ApiRecord
<1>7. ASSUME NEW a \in Admins, AdminStep(a) PROVE UNCHANGED daily
  BY <1>7 DEF AdminStep, AdminRequest, FundRead, FundCount, FundCommit, Withdraw, Revoke
<1>8. DailyLimitHolds'
  BY <1>4, <1>5, <1>6, <1>7 DEF Next, vars
<1> QED
  BY <1>3, <1>8

\* No caller spends more in a day than the stricter of its limits, however handlers
\* interleave, provided no other payment of the caller is counted between the check of
\* the limits and the counting of a payment.
THEOREM DailyLimitCountedAlone == Spec /\ [][CountedAlone]_vars => []DailyLimitHolds
<1>1. Init /\ RestTyped => QuotaInv
  <2> SUFFICES ASSUME Init, RestTyped PROVE QuotaInv
    OBVIOUS
  <2>1. \A r \in Requests : req[r].at = "new"
    BY DEF Init
  <2>2. RoomLeft
    BY <2>1 DEF RoomLeft, Uncounted
  <2>3. \A c \in Callers : daily[c] = 0
    BY DEF Init
  <2>4. \A c \in Callers : LimitOf(c) \in Nat
    BY SpendingAssumption DEF LimitOf, Stricter
  <2>5. DailyLimitHolds
    BY <2>3, <2>4 DEF DailyLimitHolds
  <2> QED
    BY <2>2, <2>5 DEF QuotaInv, RestTyped, DailyTyped
<1>2. QuotaInv /\ HistoryInv /\ RestTyped' /\ [Next]_vars /\ [CountedAlone]_vars => QuotaInv'
  <2> SUFFICES ASSUME QuotaInv, HistoryInv, RestTyped', [Next]_vars, [CountedAlone]_vars
               PROVE  QuotaInv'
    OBVIOUS
  <2>1. CASE UNCHANGED vars
    BY <2>1 DEF vars, QuotaInv, DailyTyped, RoomLeft, Uncounted, IsApi, DailyLimitHolds
  <2>2. CASE CountedAlone
    BY <2>2, QuotaStep DEF RestTyped, DailyTyped, HistoryInv
  <2> QED
    BY <2>1, <2>2
<1>3. QuotaInv => DailyLimitHolds
  BY DEF QuotaInv
<1> QED
  BY <1>1, <1>2, <1>3, RestTypedInvariant, HistoryInvariant, PTL DEF Spec

-----------------------------------------------------------------------------
(* The daily limit, whatever is counted in between *)

\* An invoice that passed the check of the limits is within them.
WithinLimit ==
    \A r \in Requests : Uncounted(r) /\ LimitOf(req[r].caller) # 0 =>
        Amount[r] <= LimitOf(req[r].caller)

OverrunInv == WithinLimit /\ DailyOverrunBounded

BoundOnSums ==
    \A c \in Callers : LimitOf(c) # 0 =>
        daily[c] + SumOver(Amount, UncountedOf(c))
          <= LimitOf(c) + (MaxRunning - 1) * Smaller(LimitOf(c), LargestSats)

\* The bound, with the sum by the name the lemmas about sums use.
LEMMA OverrunAsSums == DailyOverrunBounded <=> BoundOnSums
BY DEF DailyOverrunBounded, BoundOnSums, SumOver

AmountsOf(c) ==
    /\ daily[c] \in Nat /\ LimitOf(c) \in Nat /\ LargestSats \in Nat
    /\ IsFiniteSet(UncountedOf(c)) /\ UncountedOf(c) \subseteq Requests
    /\ \A r \in Requests : Amount[r] \in Nat /\ Amount[r] <= LargestSats
    /\ SumOver(Amount, UncountedOf(c)) \in Nat
SumsTyped == \A c \in Callers : AmountsOf(c)

\* What the sums are made of.
LEMMA AmountsTyped == ReqTyped /\ RestTyped /\ RunningBounded => SumsTyped
<1> SUFFICES ASSUME ReqTyped, RestTyped, RunningBounded, NEW c \in Callers
             PROVE  AmountsOf(c)
  BY DEF SumsTyped
<1>1. daily[c] \in Nat /\ LimitOf(c) \in Nat /\ LargestSats \in Nat
  BY SpendingAssumption DEF RestTyped, LimitOf, Stricter
<1>2. \A r \in Requests : Amount[r] \in Nat /\ Amount[r] <= LargestSats
  <2> SUFFICES ASSUME NEW r \in Requests PROVE Amount[r] \in Nat /\ Amount[r] <= LargestSats
    OBVIOUS
  <2>1. Amount[r] = Sats[req[r].invoice] /\ Sats[req[r].invoice] \in 1..LargestSats
    BY SpendingAssumption DEF Amount, ReqTyped, ReqRecords
  <2> QED
    BY <1>1, <2>1
<1>3. UncountedOf(c) \subseteq Running /\ UncountedOf(c) \subseteq Requests
  BY DEF UncountedOf, Uncounted, Running
<1>4. IsFiniteSet(UncountedOf(c))
  BY <1>3, FS_Subset DEF RunningBounded
<1> QED
  BY <1>1, <1>2, <1>3, <1>4, SumNat DEF AmountsOf

OthersOf(c) ==
    LimitOf(c) # 0 => \A r \in UncountedOf(c) :
        SumOver(Amount, UncountedOf(c) \ {r})
          <= (MaxRunning - 1) * Smaller(LimitOf(c), LargestSats)
OthersBounded == \A c \in Callers : OthersOf(c)

\* What the others of a caller may add: one invoice within the limit for each other
\* handler that runs.
LEMMA OthersAdd ==
    ReqTyped /\ RestTyped /\ RunningBounded /\ WithinLimit => OthersBounded
<1> SUFFICES ASSUME ReqTyped, RestTyped, RunningBounded, WithinLimit, NEW c \in Callers,
                    LimitOf(c) # 0, NEW r \in UncountedOf(c)
             PROVE  SumOver(Amount, UncountedOf(c) \ {r})
                      <= (MaxRunning - 1) * Smaller(LimitOf(c), LargestSats)
  BY DEF OthersBounded, OthersOf
<1> DEFINE S == UncountedOf(c) \ {r}
           v == Smaller(LimitOf(c), LargestSats)
<1>1. /\ LimitOf(c) \in Nat /\ LargestSats \in Nat
      /\ IsFiniteSet(UncountedOf(c)) /\ UncountedOf(c) \subseteq Requests
      /\ \A q \in Requests : Amount[q] \in Nat /\ Amount[q] <= LargestSats
  BY AmountsTyped DEF SumsTyped, AmountsOf
<1>2. \A q \in UncountedOf(c) : Amount[q] <= LimitOf(c)
  BY <1>1 DEF WithinLimit, UncountedOf
<1>3. v \in Nat /\ \A q \in S : Amount[q] \in Nat /\ Amount[q] <= v
  BY <1>1, <1>2 DEF Smaller
<1>4. IsFiniteSet(S) /\ Cardinality(S) \in Nat
  BY <1>1, FS_Subset, FS_CardinalityType
<1>5. SumOver(Amount, S) <= Cardinality(S) * v
  <2> HIDE DEF S, v
  <2> QED
    BY <1>3, <1>4, SumAtMost
<1>6. Cardinality(S) <= MaxRunning - 1 /\ MaxRunning \in Nat
  <2>1. UncountedOf(c) \subseteq Running
    BY DEF UncountedOf, Uncounted, Running
  <2>2. Cardinality(UncountedOf(c)) <= Cardinality(Running)
    BY <2>1, FS_Subset DEF RunningBounded
  <2>3. Cardinality(S) = Cardinality(UncountedOf(c)) - 1
    BY <1>1, FS_RemoveElement
  <2>4. Cardinality(UncountedOf(c)) \in Nat /\ Cardinality(Running) \in Nat
    BY <1>1, FS_CardinalityType DEF RunningBounded
  <2> QED
    BY <2>2, <2>3, <2>4, SpendingAssumption DEF RunningBounded
<1>7. SumOver(Amount, S) \in Nat
  <2> HIDE DEF S, v
  <2> QED
    BY <1>3, <1>4, SumNat
<1> HIDE DEF S, v
<1>8. Cardinality(S) * v <= (MaxRunning - 1) * v
  BY <1>3, <1>4, <1>6
<1>9. Cardinality(S) * v \in Nat /\ (MaxRunning - 1) * v \in Int
  BY <1>3, <1>4, <1>6
<1> QED
  BY <1>5, <1>7, <1>8, <1>9 DEF S, v

\* An invoice that a step adds to those under way is within the limit.
LEMMA WithinLimitStep ==
    ASSUME ReqTyped, RestTyped, RestTyped', WithinLimit, [Next]_vars
    PROVE  WithinLimit'
<1> SUFFICES ASSUME NEW q \in Requests, Uncounted(q)', LimitOf(req'[q].caller) # 0
             PROVE  Amount'[q] <= LimitOf(req'[q].caller)
  BY DEF WithinLimit, LimitOf
<1>1. req'[q].caller = req[q].caller /\ req'[q].invoice = req[q].invoice
  BY RequestsKept
<1>2. Amount'[q] = Amount[q] /\ Amount[q] = Sats[req[q].invoice]
  BY <1>1 DEF Amount
<1>3. CASE Uncounted(q)
  BY <1>1, <1>2, <1>3 DEF WithinLimit
<1>4. CASE (CheckLimits(q) \/ ApiReceive(q)) /\ At(q, "checked")
  <2>1. daily[req[q].caller] + Sats[req[q].invoice] <= LimitOf(req[q].caller)
    BY <1>1, <1>4, CheckFindsRoom DEF RestTyped, DailyTyped
  <2>2. /\ daily[req[q].caller] \in Nat /\ Sats[req[q].invoice] \in Nat
        /\ LimitOf(req[q].caller) \in Nat
    BY NeededNat, SpendingAssumption DEF RestTyped, ReqTyped, ReqRecords, LimitOf, Stricter
  <2> QED
    BY <1>1, <1>2, <2>1, <2>2
<1> QED
  BY <1>3, <1>4, ComesUncounted

\* What a step of the day's total is: none, or the amount of a payment that is counted.
LEMMA DayMoves ==
    ASSUME ReqTyped, RestTyped, [Next]_vars
    PROVE  \/ UNCHANGED daily
           \/ \E r \in Requests :
                /\ Uncounted(r) /\ ~Uncounted(r)'
                /\ daily' = [daily EXCEPT ![req[r].caller] = @ + Amount[r]]
<1>1. ASSUME NEW r \in Requests, TrackSpend(r) \/ ApiTrackSpend(r), daily' # daily
      PROVE  /\ Uncounted(r) /\ ~Uncounted(r)'
             /\ daily' = [daily EXCEPT ![req[r].caller] = @ + Amount[r]]
  <2>1. Amount[r] = Sats[req[r].invoice]
    BY DEF Amount
  <2>2. /\ Uncounted(r) /\ daily' = [daily EXCEPT ![req[r].caller] = @ + Amount[r]]
        /\ (\E a : Answer(r, a)) \/ (At(r, "booked") /\ IsApi(r))
    BY <1>1, <2>1 DEF TrackSpend, ApiTrackSpend, Uncounted, IsApi, Told
  <2>3. req'[r].at = "answered" \/ (req'[r].at = "booked" /\ IsApi(r))
    <3>1. req[r] \in ReqRecords
      BY DEF ReqTyped
    <3>2. ASSUME NEW a, Answer(r, a) PROVE req'[r].at = "answered"
      <4>1. req'[r] = [req[r] EXCEPT !.at = "answered", !.answer = a]
        BY <3>2, WhereAnswered
      <4> QED
        BY <3>1, <4>1 DEF ReqRecords
    <3>3. ASSUME At(r, "booked") PROVE req'[r].at = "booked"
      <4>1. req'[r] = [req[r] EXCEPT !.at = "booked"]
        BY <3>3, WhereAt
      <4> QED
        BY <3>1, <4>1 DEF ReqRecords
    <3> QED
      BY <2>2, <3>2, <3>3
  <2>4. req'[r].caller = req[r].caller
    BY RequestsKept
  <2> QED
    BY <2>2, <2>3, <2>4 DEF Uncounted, IsApi
<1>2. ASSUME NEW r \in Requests, Receive(r) \/ ApiReceive(r) \/ PayStep(r),
             ~TrackSpend(r), ~ApiTrackSpend(r)
      PROVE  UNCHANGED daily
  BY <1>2 DEF PayStep, Receive, ApiReceive, CheckLimits, CheckPool, Book, BookFailure,
     PayThrows, Take, Paid, NotPaid, ApiCheckPool, ApiRecord
<1>3. ASSUME NEW a \in Admins, AdminStep(a) PROVE UNCHANGED daily
  BY <1>3 DEF AdminStep, AdminRequest, FundRead, FundCount, FundCommit, Withdraw, Revoke
<1> QED
  BY <1>1, <1>2, <1>3 DEF Next, vars

\* Who joins and who leaves the payments under way of a caller: the one that moves.
LEMMA UncountedMoves ==
    ASSUME ReqTyped, AdminTyped, [Next]_vars, NEW c \in Callers
    PROVE  \/ UncountedOf(c)' = UncountedOf(c)
           \/ \E r \in UncountedOf(c) : /\ ~Uncounted(r)'
                                        /\ UncountedOf(c)' = UncountedOf(c) \ {r}
           \/ \E r \in Requests : /\ req[r].caller = c /\ ~Uncounted(r) /\ Uncounted(r)'
                                  /\ UncountedOf(c)' = UncountedOf(c) \cup {r}
<1>1. \A q \in Requests : req'[q].caller = req[q].caller
  BY RequestsKept
<1>2. UncountedOf(c)' = {q \in Requests : req[q].caller = c /\ Uncounted(q)'}
  BY <1>1 DEF UncountedOf
<1>3. ASSUME NEW r \in Requests, \A q \in Requests \ {r} : Uncounted(q)' <=> Uncounted(q)
      PROVE  \/ UncountedOf(c)' = UncountedOf(c)
             \/ /\ r \in UncountedOf(c) /\ ~Uncounted(r)'
                /\ UncountedOf(c)' = UncountedOf(c) \ {r}
             \/ /\ req[r].caller = c /\ ~Uncounted(r) /\ Uncounted(r)'
                /\ UncountedOf(c)' = UncountedOf(c) \cup {r}
  BY <1>2, <1>3 DEF UncountedOf
<1>4. ASSUME NEW r \in Requests, Receive(r) \/ ApiReceive(r) \/ PayStep(r)
      PROVE  \A q \in Requests \ {r} : Uncounted(q)' <=> Uncounted(q)
  <2>1. \A q \in Requests \ {r} : req'[q] = req[q]
    BY <1>4, RequestMoves
  <2> QED
    BY <2>1 DEF Uncounted, IsApi
<1>5. ASSUME req' = req PROVE UncountedOf(c)' = UncountedOf(c)
  BY <1>5 DEF UncountedOf, Uncounted, IsApi
<1>6. ASSUME NEW a \in Admins, AdminStep(a) PROVE req' = req
  BY <1>6, OperatorMoves
<1> QED
  BY <1>3, <1>4, <1>5, <1>6 DEF Next, vars

\* A step keeps the bound: a payment that joins finds room for itself in what is counted,
\* and the others are few; one that is counted leaves those under way.
LEMMA OverrunStep ==
    ASSUME ReqTyped, RestTyped, ReqTyped', RestTyped', RunningBounded, RunningBounded',
           OverrunInv, [Next]_vars
    PROVE  OverrunInv'
<1>w. WithinLimit /\ WithinLimit'
  BY WithinLimitStep DEF OverrunInv
<1> SUFFICES ASSUME NEW c \in Callers, LimitOf(c) # 0
             PROVE  daily'[c] + SumOver(Amount', UncountedOf(c)')
                      <= LimitOf(c) + (MaxRunning - 1) * Smaller(LimitOf(c), LargestSats)
  <2>1. DailyOverrunBounded' <=> BoundOnSums'
    BY OverrunAsSums, PTL
  <2> QED
    BY <1>w, <2>1 DEF OverrunInv, BoundOnSums, LimitOf
<1> DEFINE U == UncountedOf(c)
           top == LimitOf(c) + (MaxRunning - 1) * Smaller(LimitOf(c), LargestSats)
<1>1. /\ daily[c] \in Nat /\ LimitOf(c) \in Nat /\ LargestSats \in Nat
      /\ IsFiniteSet(U) /\ U \subseteq Requests
      /\ \A r \in Requests : Amount[r] \in Nat /\ Amount[r] <= LargestSats
      /\ SumOver(Amount, U) \in Nat
  BY AmountsTyped DEF SumsTyped, AmountsOf
<1>2. /\ daily'[c] \in Nat /\ IsFiniteSet(U') /\ SumOver(Amount', U') \in Nat
  <2>1. (ReqTyped /\ RestTyped /\ RunningBounded => SumsTyped)'
    BY AmountsTyped, PTL
  <2>2. AmountsOf(c)'
    BY <2>1 DEF SumsTyped
  <2> QED
    BY <2>2 DEF AmountsOf
<1>3. Amount' = Amount
  BY RequestsKept DEF Amount
<1>4. daily[c] + SumOver(Amount, U) <= top
  BY OverrunAsSums DEF OverrunInv, BoundOnSums
<1>5. top \in Int
  BY <1>1, SpendingAssumption DEF Smaller
<1>6. CASE U' = U
  <2>1. CASE UNCHANGED daily
    BY <1>3, <1>4, <1>6, <2>1
  <2>2. ASSUME NEW r \in Requests, Uncounted(r), ~Uncounted(r)',
               daily' = [daily EXCEPT ![req[r].caller] = @ + Amount[r]]
        PROVE  daily'[c] = daily[c]
    <3>1. req'[r].caller = req[r].caller
      BY RequestsKept
    <3>2. req[r].caller # c
      BY <1>6, <2>2, <3>1 DEF UncountedOf
    <3> QED
      BY <2>2, <3>2 DEF RestTyped
  <2> QED
    BY <1>3, <1>4, <1>6, <2>1, <2>2, DayMoves
<1>7. ASSUME NEW r \in U, ~Uncounted(r)', U' = U \ {r}
      PROVE  daily'[c] + SumOver(Amount', U') <= top
  <2>1. SumOver(Amount, U) = Amount[r] + SumOver(Amount, U \ {r})
    <3>1. \A y \in U : Amount[y] \in Int
      BY <1>1
    <3> HIDE DEF U
    <3> QED
      BY <1>1, <3>1, SumRemove
  <2>2. Amount[r] \in Nat /\ SumOver(Amount, U \ {r}) \in Nat
    BY <1>1, <1>2, <1>3, <1>7
  <2>3. daily'[c] <= daily[c] + Amount[r]
    <3>1. CASE UNCHANGED daily
      BY <1>1, <2>2, <3>1
    <3>2. ASSUME NEW q \in Requests, Uncounted(q), ~Uncounted(q)',
                 daily' = [daily EXCEPT ![req[q].caller] = @ + Amount[q]]
          PROVE  daily'[c] <= daily[c] + Amount[r]
      <4>1. CASE q = r
        BY <1>1, <2>2, <3>2, <4>1 DEF RestTyped, UncountedOf
      <4>2. CASE q # r
        <5>1. req'[q].caller = req[q].caller
          BY RequestsKept
        <5>2. req[q].caller # c
          BY <1>7, <3>2, <4>2, <5>1 DEF UncountedOf
        <5>3. daily'[c] = daily[c]
          BY <3>2, <5>2 DEF RestTyped
        <5> QED
          BY <1>1, <2>2, <5>3
      <4> QED
        BY <4>1, <4>2
    <3> QED
      BY <3>1, <3>2, DayMoves
  <2> HIDE DEF top, U
  <2> QED
    BY <1>1, <1>2, <1>3, <1>4, <1>5, <1>7, <2>1, <2>2, <2>3
<1>8. ASSUME NEW r \in Requests, req[r].caller = c, ~Uncounted(r), Uncounted(r)',
             U' = U \cup {r}
      PROVE  daily'[c] + SumOver(Amount', U') <= top
  <2>1. (CheckLimits(r) \/ ApiReceive(r)) /\ At(r, "checked")
    BY <1>8, ComesUncounted
  <2>2. daily[c] + Amount[r] <= LimitOf(c) /\ daily' = daily /\ Amount[r] \in Nat
    <3>1. daily[c] + Sats[req[r].invoice] <= LimitOf(c)
      BY <1>8, <2>1, CheckFindsRoom DEF RestTyped, DailyTyped
    <3>2. Amount[r] = Sats[req[r].invoice]
      BY DEF Amount
    <3> QED
      BY <1>1, <2>1, <3>1, <3>2 DEF CheckLimits, ApiReceive
  <2>3. SumOver(Amount', U') = Amount[r] + SumOver(Amount, U' \ {r})
    <3>1. r \in U' /\ \A y \in U' : Amount[y] \in Int
      BY <1>1, <1>8
    <3> HIDE DEF U
    <3> QED
      BY <1>2, <1>3, <3>1, SumRemove
  <2>4. SumOver(Amount', U' \ {r}) <= (MaxRunning - 1) * Smaller(LimitOf(c), LargestSats)
    <3>1. r \in U' /\ LimitOf(c)' = LimitOf(c)
      BY <1>8 DEF LimitOf
    <3>2. (ReqTyped /\ RestTyped /\ RunningBounded /\ WithinLimit => OthersBounded)'
      BY OthersAdd, PTL
    <3>3. OthersOf(c)'
      BY <1>w, <3>2 DEF OthersBounded
    <3> QED
      BY <3>1, <3>3 DEF OthersOf
  <2>5. /\ (MaxRunning - 1) * Smaller(LimitOf(c), LargestSats) \in Int
        /\ SumOver(Amount, U' \ {r}) \in Int
    <3>1. \A y \in U' \ {r} : Amount[y] \in Nat
      BY <1>1, <1>8
    <3>2. IsFiniteSet(U' \ {r})
      BY <1>2, FS_Subset
    <3>3. SumOver(Amount, U' \ {r}) \in Nat
      BY <3>1, <3>2, SumNat
    <3> QED
      BY <1>1, <3>3, SpendingAssumption DEF Smaller
  <2> HIDE DEF U
  <2> QED
    BY <1>1, <1>2, <1>3, <2>2, <2>3, <2>4, <2>5
<1> QED
  BY <1>6, <1>7, <1>8, UncountedMoves DEF RestTyped

\* What is counted of a caller's day and what it is about to spend never pass its limit by
\* more than an invoice within it for each handler beside the last check, however
\* handlers interleave and writes fail.
THEOREM DailyOverrunBoundedTheorem == Spec => []DailyOverrunBounded
<1>1. Init => OverrunInv
  <2> SUFFICES ASSUME Init PROVE OverrunInv
    OBVIOUS
  <2>1. \A c \in Callers : UncountedOf(c) = {} /\ daily[c] = 0
    BY DEF Init, UncountedOf, Uncounted
  <2>2. WithinLimit
    BY DEF Init, WithinLimit, Uncounted
  <2>3. ASSUME NEW c \in Callers
        PROVE  daily[c] + SumOver(Amount, UncountedOf(c))
                 <= LimitOf(c) + (MaxRunning - 1) * Smaller(LimitOf(c), LargestSats)
    <3>1. SumOver(Amount, UncountedOf(c)) = 0
      BY <2>1, SumEmpty
    <3>2. /\ LimitOf(c) \in Nat /\ Smaller(LimitOf(c), LargestSats) \in Nat
          /\ MaxRunning - 1 \in Nat
      BY SpendingAssumption DEF LimitOf, Stricter, Smaller
    <3>3. (MaxRunning - 1) * Smaller(LimitOf(c), LargestSats) \in Nat
      BY <3>2
    <3> QED
      BY <2>1, <3>1, <3>2, <3>3
  <2> QED
    BY <2>2, <2>3, OverrunAsSums DEF OverrunInv, BoundOnSums
<1>2. /\ HistoryInv /\ RestTyped /\ HistoryInv' /\ RestTyped' /\ RunningBounded /\ RunningBounded'
      /\ OverrunInv /\ [Next]_vars
      => OverrunInv'
  BY OverrunStep DEF HistoryInv
<1>3. OverrunInv => DailyOverrunBounded
  BY DEF OverrunInv
<1> QED
  BY <1>1, <1>2, <1>3, HistoryInvariant, RestTypedInvariant, RunningInvariant, PTL DEF Spec

-----------------------------------------------------------------------------
(* The handlers use payInvoice as it is promised *)

\* The payments as the handlers see them, and their melt quotes.
PayStatuses == [r \in Requests |-> PayStatus(r)]
PayMelts    == [r \in Requests |-> PayMelt(r)]

\* Where a request stands after it moved on or was answered.
LEMMA StandsAt ==
    ASSUME ReqTyped, NEW r \in Requests
    PROVE  /\ \A s : At(r, s) => req'[r].at = s /\ \A q \in Requests \ {r} : req'[q] = req[q]
           /\ \A a : Answer(r, a) => /\ req'[r].at = "answered" /\ req'[r].answer = a
                                     /\ \A q \in Requests \ {r} : req'[q] = req[q]
<1>1. req[r] \in ReqRecords
  BY DEF ReqTyped
<1>2. ASSUME NEW s, At(r, s)
      PROVE  req'[r].at = s /\ \A q \in Requests \ {r} : req'[q] = req[q]
  <2>1. \A q \in Requests : req'[q] = IF q = r THEN [req[r] EXCEPT !.at = s] ELSE req[q]
    BY <1>2, WhereAt
  <2>2. req'[r] = [req[r] EXCEPT !.at = s] /\ \A q \in Requests \ {r} : req'[q] = req[q]
    BY <2>1
  <2> QED
    BY <1>1, <2>2 DEF ReqRecords
<1>3. ASSUME NEW a, Answer(r, a)
      PROVE  /\ req'[r].at = "answered" /\ req'[r].answer = a
             /\ \A q \in Requests \ {r} : req'[q] = req[q]
  <2>1. \A q \in Requests :
          req'[q] = IF q = r THEN [req[r] EXCEPT !.at = "answered", !.answer = a] ELSE req[q]
    BY <1>3, WhereAnswered
  <2>2. /\ req'[r] = [req[r] EXCEPT !.at = "answered", !.answer = a]
        /\ \A q \in Requests \ {r} : req'[q] = req[q]
    BY <2>1
  <2> QED
    BY <1>1, <2>2 DEF ReqRecords
<1> QED
  BY <1>2, <1>3

\* Every step of the handlers is one step of a payment, or none.
LEMMA UsesStep == ReqTyped /\ [Next]_vars => [Promise!Next]_(Promise!vars)
<1> SUFFICES ASSUME ReqTyped, [Next]_vars
             PROVE  Promise!Next \/ UNCHANGED <<PayStatuses, PayMelts>>
  BY DEF Promise!vars, PayStatuses, PayMelts
<1>u. UNCHANGED req => UNCHANGED <<PayStatuses, PayMelts>>
  BY DEF PayStatuses, PayMelts, PayStatus, PayMelt
\* When one request moves, its own payment does at most.
<1>m. ASSUME NEW r \in Requests, \A q \in Requests \ {r} : req'[q] = req[q]
      PROVE  /\ PayStatuses' = [PayStatuses EXCEPT ![r] = PayStatus(r)']
             /\ PayMelts' = [PayMelts EXCEPT ![r] = PayMelt(r)']
             /\ PayStatuses[r] = PayStatus(r) /\ PayMelts[r] = PayMelt(r)
  <2>1. \A q \in Requests \ {r} : PayStatus(q)' = PayStatus(q) /\ PayMelt(q)' = PayMelt(q)
    BY <1>m DEF PayStatus, PayMelt
  <2> QED
    BY <2>1 DEF PayStatuses, PayMelts
<1>s. ASSUME NEW r \in Requests, \A q \in Requests \ {r} : req'[q] = req[q],
             PayStatus(r)' = PayStatus(r), PayMelt(r)' = PayMelt(r)
      PROVE  UNCHANGED <<PayStatuses, PayMelts>>
  <2>1. \A q \in Requests : PayStatus(q)' = PayStatus(q) /\ PayMelt(q)' = PayMelt(q)
    BY <1>s DEF PayStatus, PayMelt
  <2> QED
    BY <2>1 DEF PayStatuses, PayMelts
<1>1. ASSUME NEW r \in Requests, Receive(r) \/ ApiReceive(r) \/ CheckLimits(r)
      PROVE  UNCHANGED <<PayStatuses, PayMelts>>
  <2>1. /\ req[r].at \in {"new", "recorded"}
        /\ \/ \E s \in {"recorded", "checked"} : At(r, s)
           \/ \E a \in {"ignored", "cached", "quota", "insufficient", "unstored"} : Answer(r, a)
    BY <1>1 DEF Receive, ApiReceive, CheckLimits, Refuse, Passes, Told
  <2>2. /\ \A q \in Requests \ {r} : req'[q] = req[q]
        /\ \/ req'[r].at \in {"recorded", "checked"}
           \/ /\ req'[r].at = "answered"
              /\ req'[r].answer \in {"ignored", "cached", "quota", "insufficient", "unstored"}
    BY <2>1, StandsAt
  <2>3. PayStatus(r)' = PayStatus(r) /\ PayMelt(r)' = PayMelt(r)
    BY <2>1, <2>2 DEF PayStatus, PayMelt
  <2> QED
    BY <2>2, <2>3, <1>s
\* payInvoice is called once the pool was found to suffice.
<1>2. ASSUME NEW r \in Requests, CheckPool(r) \/ ApiCheckPool(r)
      PROVE  Promise!Next \/ UNCHANGED <<PayStatuses, PayMelts>>
  <2>1. /\ req[r].at = "checked"
        /\ At(r, "queued") \/ \E a \in {"insufficient", "unstored"} : Answer(r, a)
    BY <1>2 DEF CheckPool, ApiCheckPool, Refuse, Passes, Told
  <2>2. CASE At(r, "queued")
    <3>1. req'[r].at = "queued" /\ \A q \in Requests \ {r} : req'[q] = req[q]
      BY <2>2, StandsAt
    <3>2. /\ PayStatus(r) = "idle" /\ PayStatus(r)' = "asked"
          /\ PayMelt(r) = "UNPAID" /\ PayMelt(r)' = "UNPAID"
      BY <2>1, <3>1 DEF PayStatus, PayMelt
    <3>3. Promise!Ask(r)
      BY <3>1, <3>2, <1>m DEF Promise!Ask, Promise!Turn, PayStatuses, PayMelts
    <3> QED
      BY <3>3 DEF Promise!Next
  <2>3. CASE \E a \in {"insufficient", "unstored"} : Answer(r, a)
    <3>1. /\ req'[r].at = "answered" /\ req'[r].answer \in {"insufficient", "unstored"}
          /\ \A q \in Requests \ {r} : req'[q] = req[q]
      BY <2>3, StandsAt
    <3>2. PayStatus(r)' = PayStatus(r) /\ PayMelt(r)' = PayMelt(r)
      BY <2>1, <3>1 DEF PayStatus, PayMelt
    <3> QED
      BY <3>1, <3>2, <1>s
  <2> QED
    BY <2>1, <2>2, <2>3
<1>3. ASSUME NEW r \in Requests, Take(r) \/ NotPaid(r)
      PROVE  UNCHANGED <<PayStatuses, PayMelts>>
  <2>1. /\ req[r].at \in {"queued", "melting"} /\ req'[r].at \in {"melting", "refused"}
        /\ \A q \in Requests \ {r} : req'[q] = req[q]
    BY <1>3, StandsAt DEF Take, NotPaid
  <2>2. PayStatus(r)' = PayStatus(r) /\ PayMelt(r)' = PayMelt(r)
    BY <2>1 DEF PayStatus, PayMelt
  <2> QED
    BY <2>1, <2>2, <1>s
<1>4. ASSUME NEW r \in Requests, Paid(r) PROVE Promise!Next
  <2>1. PICK routing :
          req' = [req EXCEPT ![r] = [req[r] EXCEPT !.at = "settled", !.routing = routing]]
    BY <1>4 DEF Paid
  <2>2. /\ req[r].at = "melting" /\ req'[r].at = "settled"
        /\ \A q \in Requests \ {r} : req'[q] = req[q]
    BY <1>4, <2>1 DEF Paid, ReqTyped, ReqRecords
  <2>3. /\ PayStatus(r) = "asked" /\ PayStatus(r)' = "asked"
        /\ PayMelt(r) = "UNPAID" /\ PayMelt(r)' = "PAID"
    BY <2>2 DEF PayStatus, PayMelt
  <2>4. Promise!Pay(r)
    BY <2>2, <2>3, <1>m DEF Promise!Pay, Promise!Becomes, PayStatuses, PayMelts
  <2> QED
    BY <2>4 DEF Promise!Next
<1>5. ASSUME NEW r \in Requests, Book(r) \/ ApiTrackSpend(r) PROVE Promise!Next
  <2>1. /\ req[r].at = "settled"
        /\ \/ req'[r].at = "booked"
           \/ req'[r].at = "answered" /\ req'[r].answer = "unbooked"
        /\ \A q \in Requests \ {r} : req'[q] = req[q]
    BY <1>5, StandsAt DEF Book, ApiTrackSpend
  <2>2. /\ PayStatus(r) = "asked" /\ PayStatus(r)' = "ok"
        /\ PayMelt(r) = "PAID" /\ PayMelt(r)' = "PAID"
    BY <2>1 DEF PayStatus, PayMelt
  <2>3. Promise!Succeed(r)
    BY <2>1, <2>2, <1>m DEF Promise!Succeed, Promise!Turn, PayStatuses, PayMelts
  <2> QED
    BY <2>3 DEF Promise!Next
\* What it returned is what the client is told.
<1>6. ASSUME NEW r \in Requests,
             TrackSpend(r) \/ BookFailure(r) \/ PayThrows(r) \/ ApiRecord(r)
      PROVE  Promise!Next \/ UNCHANGED <<PayStatuses, PayMelts>>
  <2>1. \/ req[r].at = "booked" /\ \E a \in {"ok", "unbooked"} : Answer(r, a)
        \/ /\ req[r].at \in {"refused", "queued"}
           /\ \E a \in {"failed", "internal"} : Answer(r, a)
    BY <1>6 DEF TrackSpend, BookFailure, PayThrows, ApiRecord, Told
  <2>2. CASE req[r].at = "booked" /\ \E a \in {"ok", "unbooked"} : Answer(r, a)
    <3>1. /\ req'[r].at = "answered" /\ req'[r].answer \in {"ok", "unbooked"}
          /\ \A q \in Requests \ {r} : req'[q] = req[q]
      BY <2>2, StandsAt
    <3>2. PayStatus(r)' = PayStatus(r) /\ PayMelt(r)' = PayMelt(r)
      BY <2>2, <3>1 DEF PayStatus, PayMelt
    <3> QED
      BY <3>1, <3>2, <1>s
  <2>3. CASE /\ req[r].at \in {"refused", "queued"}
             /\ \E a \in {"failed", "internal"} : Answer(r, a)
    <3>1. /\ req'[r].at = "answered" /\ req'[r].answer \in {"failed", "internal"}
          /\ \A q \in Requests \ {r} : req'[q] = req[q]
      BY <2>3, StandsAt
    <3>2. /\ PayStatus(r) = "asked" /\ PayStatus(r)' = "failed"
          /\ PayMelt(r) = "UNPAID" /\ PayMelt(r)' = "UNPAID"
      BY <2>3, <3>1 DEF PayStatus, PayMelt
    <3>3. Promise!Fail(r)
      BY <3>1, <3>2, <1>m DEF Promise!Fail, Promise!Turn, PayStatuses, PayMelts
    <3> QED
      BY <3>3 DEF Promise!Next
  <2> QED
    BY <2>1, <2>2, <2>3
<1>7. ASSUME NEW a \in Admins, AdminStep(a) PROVE UNCHANGED <<PayStatuses, PayMelts>>
  <2>1. UNCHANGED req
    BY <1>7 DEF AdminStep, AdminRequest, FundRead, FundCount, FundCommit, Withdraw, Revoke
  <2> QED
    BY <2>1, <1>u
<1>8. CASE UNCHANGED vars
  BY <1>8, <1>u DEF vars
<1> QED
  BY <1>1, <1>2, <1>3, <1>4, <1>5, <1>6, <1>7, <1>8 DEF Next, PayStep

\* Both pay handlers keep to the promise that the proofs' model keeps: payInvoice
\* is called once for a request, after its checks, and the client is told what it
\* returned, with any number of requests, connections and operators at once.
THEOREM UsesPaymentTheorem == Spec => UsesPayment
<1>1. Init => Promise!Init
  BY DEF Init, Promise!Init, PayStatus, PayMelt
<1> QED
  BY <1>1, HistoryInvariant, UsesStep, PTL DEF Spec, UsesPayment, Promise!Spec, HistoryInv

-----------------------------------------------------------------------------
(* One payment for an invoice *)

\* From the look at the history to the booking.
UnderWay(r) == req[r].at \in {"recorded", "checked", "queued", "melting", "settled"}

SameInvoice(q, r) == req[q].caller = req[r].caller /\ req[q].invoice = req[r].invoice

\* What pay_invoice must not meet: a request that arrives while another of its
\* connection, for the same invoice, is under way.  The history does not show that
\* one as paid yet.
ArrivesAlone ==
    \A r \in Requests : req[r].at = "new" /\ req'[r].at = "recorded" =>
        \A q \in Requests \ {r} : SameInvoice(q, r) => ~UnderWay(q)

\* A connection has one request for an invoice under way, which has not been paid for
\* it before.
OnceInv ==
    \A r \in Requests : req[r].caller \in Conns /\ UnderWay(r) =>
        /\ req[r].at # "settled" => payer[req[r].invoice] # req[r].caller
        /\ \A q \in Requests \ {r} : SameInvoice(q, r) => ~UnderWay(q)

\* A request gets under way by arriving, and leaves it by its booking or a refusal;
\* in between it is settled once.
LEMMA GetsUnderWay ==
    ASSUME ReqTyped, NEW r \in Requests, Receive(r) \/ ApiReceive(r) \/ PayStep(r), ~Paid(r)
    PROVE  /\ payer' = payer /\ \A q \in Requests \ {r} : req'[q] = req[q]
           /\ UnderWay(r)' =>
                /\ req'[r].at # "settled"
                /\ \/ UnderWay(r) /\ req[r].at # "settled"
                   \/ req[r].caller \notin Conns
                   \/ req[r].at = "new" /\ req'[r].at = "recorded" /\ ~TxOf(r).paid
<1>1. CASE Receive(r)
  <2>1. /\ req[r].at = "new" /\ payer' = payer
        /\ \/ At(r, "recorded") /\ ~TxOf(r).paid
           \/ \E a \in Answers : Answer(r, a)
    BY <1>1 DEF Receive, Answers
  <2>2. /\ \A q \in Requests \ {r} : req'[q] = req[q]
        /\ req'[r].at = "answered" \/ (req'[r].at = "recorded" /\ ~TxOf(r).paid)
    BY <2>1, StandsAt
  <2> QED
    BY <2>1, <2>2 DEF UnderWay
<1>2. CASE ApiReceive(r)
  <2>1. /\ payer' = payer /\ req[r].caller \notin Conns
        /\ (\E a : Answer(r, a)) \/ At(r, "checked")
    BY <1>2, SpendingAssumption DEF ApiReceive, IsApi
  <2>2. /\ \A q \in Requests \ {r} : req'[q] = req[q]
        /\ req'[r].at \in {"answered", "checked"}
    BY <2>1, StandsAt
  <2> QED
    BY <2>1, <2>2
<1>3. CASE PayStep(r)
  <2>1. payer' = payer
    BY <1>3 DEF PayStep, CheckLimits, CheckPool, Book, TrackSpend, BookFailure, PayThrows,
       Take, NotPaid, ApiCheckPool, ApiTrackSpend, ApiRecord
  <2>2. \/ \E a : Answer(r, a)
        \/ At(r, "booked") \/ At(r, "refused")
        \/ /\ req[r].at \in {"recorded", "checked", "queued"}
           /\ At(r, "checked") \/ At(r, "queued") \/ At(r, "melting")
    BY <1>3 DEF PayStep, CheckLimits, CheckPool, Book, TrackSpend, BookFailure, PayThrows,
       Take, NotPaid, ApiCheckPool, ApiTrackSpend, ApiRecord, Refuse, Passes, Told
  <2>3. /\ \A q \in Requests \ {r} : req'[q] = req[q]
        /\ \/ req'[r].at \in {"answered", "booked", "refused"}
           \/ /\ req[r].at \in {"recorded", "checked", "queued"}
              /\ req'[r].at \in {"checked", "queued", "melting"}
    BY <2>2, StandsAt
  <2> QED
    BY <2>1, <2>3 DEF UnderWay
<1> QED
  BY <1>1, <1>2, <1>3

\* Only an arrival could bring a second request under way, and it finds none.
LEMMA OnceStep ==
    ASSUME RecordInv, OnceInv, [Next]_vars, [ArrivesAlone]_vars
    PROVE  OnceInv'
<1>t. ReqTyped /\ PayerTyped /\ SettledIsPayers /\ PaidIsRecorded
  BY DEF RecordInv, HistoryInv
<1>k. \A q \in Requests : req'[q].caller = req[q].caller /\ req'[q].invoice = req[q].invoice
  BY <1>t, RequestsKept
<1>1. CASE UNCHANGED <<req, payer>>
  BY <1>1 DEF OnceInv, UnderWay, SameInvoice
<1>2. ASSUME NEW r \in Requests, Paid(r) PROVE OnceInv'
  <2>1. PICK routing :
          req' = [req EXCEPT ![r] = [req[r] EXCEPT !.at = "settled", !.routing = routing]]
    BY <1>2 DEF Paid
  <2>2. /\ req[r].at = "melting" /\ req'[r].at = "settled"
        /\ \A q \in Requests \ {r} : req'[q] = req[q]
    BY <1>2, <2>1, <1>t DEF Paid, ReqTyped, ReqRecords
  <2>3. /\ \A i \in Invoices : i # req[r].invoice => payer'[i] = payer[i]
        /\ payer'[req[r].invoice] = req[r].caller
    BY <1>2, <1>t DEF Paid, PayerTyped, ReqTyped, ReqRecords
  <2>4. \A q \in Requests : UnderWay(q)' = UnderWay(q)
    BY <2>2 DEF UnderWay
  <2>5. \A q \in Requests, s \in Requests : SameInvoice(q, s)' = SameInvoice(q, s)
    BY <1>k DEF SameInvoice
  <2>6. ASSUME NEW q \in Requests, req[q].caller \in Conns, UnderWay(q), req'[q].at # "settled"
        PROVE  payer'[req[q].invoice] # req[q].caller
    <3>1. q # r /\ req[q].at # "settled" /\ UnderWay(r)
      BY <2>2, <2>6 DEF UnderWay
    <3>2. ~SameInvoice(r, q) /\ payer[req[q].invoice] # req[q].caller
      BY <2>6, <3>1 DEF OnceInv
    <3>3. req[q].invoice \in Invoices
      BY <1>t DEF ReqTyped, ReqRecords
    <3> QED
      BY <2>3, <3>2, <3>3 DEF SameInvoice
  <2> QED
    BY <1>k, <2>4, <2>5, <2>6 DEF OnceInv
<1>3. ASSUME NEW r \in Requests, Receive(r) \/ ApiReceive(r) \/ PayStep(r), ~Paid(r)
      PROVE  OnceInv'
  <2>1. /\ payer' = payer /\ \A q \in Requests \ {r} : req'[q] = req[q]
        /\ UnderWay(r)' =>
             /\ req'[r].at # "settled"
             /\ \/ UnderWay(r) /\ req[r].at # "settled"
                \/ req[r].caller \notin Conns
                \/ req[r].at = "new" /\ req'[r].at = "recorded" /\ ~TxOf(r).paid
    BY <1>3, <1>t, GetsUnderWay
  <2>2. \A q \in Requests \ {r} : UnderWay(q)' = UnderWay(q)
    BY <2>1 DEF UnderWay
  <2>3. \A q \in Requests, s \in Requests : SameInvoice(q, s)' = SameInvoice(q, s)
    BY <1>k DEF SameInvoice
  <2>4. ASSUME UnderWay(r)', req[r].caller \in Conns
        PROVE  /\ payer[req[r].invoice] # req[r].caller
               /\ \A q \in Requests \ {r} : SameInvoice(q, r) => ~UnderWay(q)
    <3>1. CASE UnderWay(r) /\ req[r].at # "settled"
      BY <3>1, <2>4 DEF OnceInv
    <3>2. CASE req[r].at = "new" /\ req'[r].at = "recorded" /\ ~TxOf(r).paid
      <4>1. ArrivesAlone
        <5>1. vars' # vars
          BY <3>2 DEF vars
        <5> QED
          BY <5>1
      <4>2. \A q \in Requests \ {r} : SameInvoice(q, r) => ~UnderWay(q)
        BY <3>2, <4>1 DEF ArrivesAlone
      <4>3. ASSUME payer[req[r].invoice] = req[r].caller PROVE FALSE
        <5>1. req[r].invoice \in Invoices
          BY <1>t DEF ReqTyped, ReqRecords
        <5>2. \/ tx[req[r].caller][req[r].invoice].paid
              \/ \E q \in Requests : req[q].at = "settled" /\ req[q].invoice = req[r].invoice
          BY <1>t, <2>4, <4>3, <5>1 DEF PaidIsRecorded
        <5>3. PICK q \in Requests : req[q].at = "settled" /\ req[q].invoice = req[r].invoice
          BY <5>2, <3>2 DEF TxOf
        <5>4. q # r /\ UnderWay(q) /\ SameInvoice(q, r)
          BY <5>3, <3>2, <4>3, <1>t DEF UnderWay, SameInvoice, SettledIsPayers
        <5> QED
          BY <5>4, <4>2
      <4> QED
        BY <4>2, <4>3
    <3> QED
      BY <2>1, <2>4, <3>1, <3>2
  <2>5. ASSUME NEW q \in Requests \ {r}, UnderWay(q), UnderWay(r)', req[q].caller \in Conns
        PROVE  ~SameInvoice(r, q)
    BY <2>4, <2>5 DEF SameInvoice
  <2>6. ASSUME NEW q \in Requests, req'[q].caller \in Conns, UnderWay(q)'
        PROVE  /\ req'[q].at # "settled" => payer'[req'[q].invoice] # req'[q].caller
               /\ \A s \in Requests \ {q} : SameInvoice(s, q)' => ~UnderWay(s)'
    <3>1. CASE q = r
      BY <3>1, <2>6, <1>k, <2>1, <2>2, <2>3, <2>4
    <3>2. CASE q # r
      <4>1. /\ req'[q] = req[q] /\ UnderWay(q) /\ req[q].caller \in Conns
        BY <3>2, <2>1, <2>2, <2>6
      <4>2. /\ req[q].at # "settled" => payer[req[q].invoice] # req[q].caller
            /\ \A s \in Requests \ {q} : SameInvoice(s, q) => ~UnderWay(s)
        BY <4>1 DEF OnceInv
      <4>3. ASSUME NEW s \in Requests \ {q}, SameInvoice(s, q)' PROVE ~UnderWay(s)'
        BY <3>2, <4>1, <4>2, <4>3, <2>2, <2>3, <2>5
      <4> QED
        BY <4>1, <4>2, <4>3, <2>1
    <3> QED
      BY <3>1, <3>2
  <2> QED
    BY <2>6 DEF OnceInv
<1>4. ASSUME NEW a \in Admins, AdminStep(a) PROVE UNCHANGED <<req, payer>>
  BY <1>4 DEF AdminStep, AdminRequest, FundRead, FundCount, FundCommit, Withdraw, Revoke
<1> QED
  BY <1>1, <1>2, <1>3, <1>4 DEF Next, PayStep, vars

\* A connection never has two payments of one invoice at the mint, nor one of an invoice
\* it has already paid, however handlers interleave, provided no request arrives while
\* another for its invoice is under way.
THEOREM OnePaymentUndisturbed ==
    Spec /\ [][ArrivesAlone]_vars => []OnePaymentPerInvoice
<1>1. Init => OnceInv
  BY DEF Init, OnceInv, UnderWay
<1>2. RecordInv /\ OnceInv /\ [Next]_vars /\ [ArrivesAlone]_vars => OnceInv'
  BY OnceStep
<1>3. ReqTyped /\ OnceInv => OnePaymentPerInvoice
  <2> SUFFICES ASSUME ReqTyped, OnceInv, NEW r \in Requests, ~IsApi(r),
                      req[r].at \in {"queued", "melting"}
               PROVE  /\ payer[req[r].invoice] # req[r].caller
                      /\ \A q \in Requests \ {r} :
                            req[q].at \in {"queued", "melting", "settled"} =>
                              <<req[q].caller, req[q].invoice>> # <<req[r].caller, req[r].invoice>>
    BY DEF OnePaymentPerInvoice
  <2>1. req[r].caller \in Conns /\ UnderWay(r)
    BY DEF IsApi, ReqTyped, ReqRecords, Callers, UnderWay
  <2> QED
    BY <2>1 DEF OnceInv, SameInvoice, UnderWay
<1> QED
  BY <1>1, <1>2, <1>3, RecordInvariant, PTL DEF Spec, RecordInv, HistoryInv

=============================================================================
