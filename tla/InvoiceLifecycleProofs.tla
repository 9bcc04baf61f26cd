------------------------ MODULE InvoiceLifecycleProofs ------------------------
(***************************************************************************)
(* Proofs about InvoiceLifecycle, for every value of the constants: any       *)
(* number of invoices, waiters, lookups, silent mints, faults and crashes.    *)
(***************************************************************************)
EXTENDS InvoiceLifecycle, Integers, FiniteSetTheorems, TLAPS

\* What the steps below take for granted of the variables.
Typed ==
    /\ quote \in [Invoices -> {"none", "unpaid", "paid", "issued"}]
    /\ tx \in [Invoices -> {"none", "pending", "settled"}]
    /\ row \in [Invoices -> {"none", "pending", "settled"}]
    /\ balance \in Int /\ balanceRow \in Int /\ forfeit \in Int /\ carry \in [Tasks -> Int]
    /\ stored \in SUBSET Invoices /\ lost \in SUBSET Invoices
    /\ at \in [Tasks -> TaskStates] /\ of \in [Tasks -> Invoices]

\* Issued tokens are in one place: stored, lost, or with one task that stores them.
Held ==
    /\ \A i \in stored \cup lost : quote[i] = "issued"
    /\ \A t \in Tasks : at[t] = "storing" => quote[of[t]] = "issued" /\ of[t] \notin stored \cup lost
    /\ \A s, t \in Tasks : at[s] = "storing" /\ at[t] = "storing" /\ of[s] = of[t] => s = t
    /\ \A i \in Invoices : quote[i] = "issued" =>
          i \in stored \cup lost \/ \E t \in Tasks : at[t] = "storing" /\ of[t] = i

\* Whatever is settled, or about to be, is stored.
Settling ==
    /\ \A t \in Tasks : at[t] = "settling" => of[t] \in stored
    /\ \A i \in Invoices : tx[i] = "settled" \/ row[i] = "settled" => i \in stored

IInv == Typed /\ Held /\ Settling /\ CreditedOnce

-----------------------------------------------------------------------------
(* Steps that hand out no tokens *)

\* A task that has nothing in its hands.
Free(s) == s \in TaskStates \ {"storing", "settling"}

\* Nobody takes or hands over tokens, and no quote is issued.
LEMMA QuietStep ==
    ASSUME IInv, at' \in [Tasks -> TaskStates],
           \A u \in Tasks : (at'[u] = "storing" <=> at[u] = "storing"),
           \A u \in Tasks : (at'[u] = "settling" <=> at[u] = "settling"),
           UNCHANGED <<balance, forfeit, stored, lost, of>>,
           tx' \in [Invoices -> {"none", "pending", "settled"}],
           row' \in [Invoices -> {"none", "pending", "settled"}],
           balanceRow' \in Int, carry' \in [Tasks -> Int],
           quote' \in [Invoices -> {"none", "unpaid", "paid", "issued"}],
           \A i \in Invoices : (quote'[i] = "issued" <=> quote[i] = "issued"),
           \A i \in Invoices : tx'[i] = "settled" \/ row'[i] = "settled" => i \in stored
    PROVE  IInv'
<1> USE DEF IInv
<1>1. Typed'
  BY DEF Typed
<1>3. Held'
  BY DEF Held, Typed
<1>4. Settling'
  BY DEF Settling, Typed
<1>5. Uncredited' = Uncredited
  BY DEF Uncredited, Typed
<1>6. CreditedOnce'
  BY <1>5 DEF CreditedOnce
<1> QED
  BY <1>1, <1>3, <1>4, <1>6

\* One task moves, from a place where it holds nothing to another.
LEMMA FreeMove ==
    ASSUME IInv, NEW t \in Tasks, NEW s, Free(at[t]), Free(s), at' = [at EXCEPT ![t] = s]
    PROVE  /\ at' \in [Tasks -> TaskStates]
           /\ \A u \in Tasks : (at'[u] = "storing" <=> at[u] = "storing")
           /\ \A u \in Tasks : (at'[u] = "settling" <=> at[u] = "settling")
BY DEF IInv, Typed, Free

\* Where an attempt that fails, or finds nothing, sends its task.
LEMMA NotMintedFree ==
    ASSUME NEW t \in Tasks, NotMinted(t)
    PROVE  \E s : Free(s) /\ at' = [at EXCEPT ![t] = s]
BY DEF NotMinted, Goto, Free, TaskStates

\* A failed attempt leaves its task in a state that holds no tokens.
LEMMA AttemptFailsFree ==
    ASSUME NEW t \in Tasks, AttemptFails(t)
    PROVE  \E s : Free(s) /\ at' = [at EXCEPT ![t] = s]
BY DEF AttemptFails, NotMinted, Goto, Free, TaskStates

\* A waiter is a task, and there are finitely many.
LEMMA TasksAre == /\ Invoices \subseteq Tasks
                  /\ IsFiniteSet(Tasks) /\ IsFiniteSet(Invoices)
<1>1. IsFiniteSet(Invoices)
  BY InvoiceAssumption, FS_Union DEF Invoices
<1> QED
  BY <1>1, InvoiceAssumption, FS_Union DEF Tasks

\* Both sides of CreditedOnce count finite sets.
LEMMA Counts ==
    ASSUME Typed
    PROVE  /\ IsFiniteSet(Uncredited) /\ Cardinality(Uncredited) \in Nat
           /\ IsFiniteSet(stored \cap NwcInvoices)
           /\ Cardinality(stored \cap NwcInvoices) \in Nat
<1>1. Uncredited \subseteq Tasks /\ stored \cap NwcInvoices \subseteq Invoices
  BY DEF Uncredited, Typed
<1>2. IsFiniteSet(Uncredited) /\ IsFiniteSet(stored \cap NwcInvoices)
  BY <1>1, TasksAre, FS_Subset
<1> QED
  BY <1>2, FS_CardinalityType

\* An invoice is asked for.
LEMMA StepCreate ==
    ASSUME IInv, NEW i \in Invoices, MakeInvoice(i) \/ Receive(i)
    PROVE  IInv'
<1>1. /\ Free(at[i]) /\ Free("recording")
      /\ at' = [at EXCEPT ![i] = "recording"] /\ quote[i] = "none"
      /\ quote' = [quote EXCEPT ![i] = "unpaid"]
      /\ tx' = tx \/ tx' = [tx EXCEPT ![i] = "pending"]
      /\ UNCHANGED <<row, balance, balanceRow, forfeit, stored, lost, of, carry>>
  BY DEF MakeInvoice, Receive, CreateInvoice, Goto, Free, TaskStates, balVars, tokVars
<1>2. /\ quote' \in [Invoices -> {"none", "unpaid", "paid", "issued"}]
      /\ \A j \in Invoices : (quote'[j] = "issued" <=> quote[j] = "issued")
  BY <1>1 DEF IInv, Typed
<1>3. /\ tx' \in [Invoices -> {"none", "pending", "settled"}]
      /\ \A j \in Invoices : tx'[j] = "settled" \/ row'[j] = "settled" => j \in stored
  BY <1>1 DEF IInv, Typed, Settling
<1>4. /\ at' \in [Tasks -> TaskStates]
      /\ \A u \in Tasks : (at'[u] = "storing" <=> at[u] = "storing")
      /\ \A u \in Tasks : (at'[u] = "settling" <=> at[u] = "settling")
  BY <1>1, FreeMove, TasksAre
<1>5. row' \in [Invoices -> {"none", "pending", "settled"}] /\ balanceRow' \in Int
      /\ carry' \in [Tasks -> Int]
  BY <1>1 DEF IInv, Typed
<1> QED
  BY <1>1, <1>2, <1>3, <1>4, <1>5, QuietStep

\* The record is written, a payer pays, an invoice runs out.
LEMMA StepRecord ==
    ASSUME IInv, NEW i \in Invoices, Record(i)
    PROVE  IInv'
<1>1. /\ \E s : Free(s) /\ at' = [at EXCEPT ![i] = s]
      /\ Free(at[i])
      /\ row' = row \/ row' = [row EXCEPT ![i] = "pending"]
      /\ UNCHANGED <<quote, tx, balance, balanceRow, forfeit, stored, lost, of, carry>>
  BY DEF Record, StartCheck, Goto, Free, TaskStates, balVars, tokVars, mintVars
<1>2. /\ at' \in [Tasks -> TaskStates]
      /\ \A u \in Tasks : (at'[u] = "storing" <=> at[u] = "storing")
      /\ \A u \in Tasks : (at'[u] = "settling" <=> at[u] = "settling")
  BY <1>1, FreeMove, TasksAre
<1>3. /\ row' \in [Invoices -> {"none", "pending", "settled"}]
      /\ \A j \in Invoices : tx'[j] = "settled" \/ row'[j] = "settled" => j \in stored
  BY <1>1 DEF IInv, Typed, Settling
<1>4. quote' \in [Invoices -> {"none", "unpaid", "paid", "issued"}]
      /\ tx' \in [Invoices -> {"none", "pending", "settled"}]
      /\ balanceRow' \in Int /\ carry' \in [Tasks -> Int]
  BY <1>1 DEF IInv, Typed
<1> QED
  BY <1>1, <1>2, <1>3, <1>4, QuietStep

\* Paying or expiring an invoice issues no tokens.
LEMMA StepPay ==
    ASSUME IInv, NEW i \in Invoices, Pay(i) \/ Expire(i)
    PROVE  IInv'
<1>1. /\ quote' = quote \/ (quote[i] = "unpaid" /\ quote' = [quote EXCEPT ![i] = "paid"])
      /\ UNCHANGED <<at, tx, row, balance, balanceRow, forfeit, stored, lost, of, carry>>
  BY DEF Pay, Expire, recVars, balVars, tokVars, taskVars
<1>2. /\ quote' \in [Invoices -> {"none", "unpaid", "paid", "issued"}]
      /\ \A j \in Invoices : (quote'[j] = "issued" <=> quote[j] = "issued")
  BY <1>1 DEF IInv, Typed
<1>3. \A j \in Invoices : tx'[j] = "settled" \/ row'[j] = "settled" => j \in stored
  BY <1>1 DEF IInv, Settling
<1>4. /\ at' \in [Tasks -> TaskStates]
      /\ tx' \in [Invoices -> {"none", "pending", "settled"}]
      /\ row' \in [Invoices -> {"none", "pending", "settled"}]
      /\ balanceRow' \in Int /\ carry' \in [Tasks -> Int]
  BY <1>1 DEF IInv, Typed
<1> QED
  BY <1>1, <1>2, <1>3, <1>4, QuietStep

\* Nothing but a task's place changes, or what is about to be written.
LEMMA StepMoves ==
    ASSUME IInv, NEW t \in Tasks, Free(at[t]),
           \E s : Free(s) /\ at' = [at EXCEPT ![t] = s],
           UNCHANGED <<quote, tx, row, balance, forfeit, stored, lost, of, carry>>,
           balanceRow' \in Int
    PROVE  IInv'
<1>2. /\ at' \in [Tasks -> TaskStates]
      /\ \A u \in Tasks : (at'[u] = "storing" <=> at[u] = "storing")
      /\ \A u \in Tasks : (at'[u] = "settling" <=> at[u] = "settling")
  BY FreeMove
<1>3. \A j \in Invoices : tx'[j] = "settled" \/ row'[j] = "settled" => j \in stored
  BY DEF IInv, Settling
<1>4. quote' \in [Invoices -> {"none", "unpaid", "paid", "issued"}]
      /\ tx' \in [Invoices -> {"none", "pending", "settled"}]
      /\ row' \in [Invoices -> {"none", "pending", "settled"}]
      /\ carry' \in [Tasks -> Int]
  BY DEF IInv, Typed
<1> QED
  BY <1>2, <1>3, <1>4, QuietStep

\* A waiter goes to work.
LEMMA StepWaiter ==
    ASSUME IInv, NEW i \in Invoices, Subscription(i) \/ Wake(i)
    PROVE  IInv'
<1>1. /\ Free(at[i]) /\ Free("checking") /\ at' = [at EXCEPT ![i] = "checking"]
      /\ UNCHANGED <<quote, tx, row, balance, balanceRow, forfeit, stored, lost, of, carry>>
  BY DEF Subscription, Wake, StartCheck, Goto, Free, TaskStates, mintVars, recVars,
         balVars, tokVars
<1>2. balanceRow' \in Int
  BY <1>1 DEF IInv, Typed
<1> QED
  BY <1>1, <1>2, StepMoves, TasksAre

\* A lookup, or POST /receive/check, starts.
LEMMA StepLookup ==
    ASSUME IInv, NEW t \in Lookups, Lookup(t)
    PROVE  IInv'
<1>1. /\ Free(at[t])
      /\ \E s : Free(s) /\ at' = [at EXCEPT ![t] = s]
      /\ UNCHANGED <<quote, tx, row, balance, balanceRow, forfeit, stored, lost, of, carry>>
  BY DEF Lookup, StartCheck, Goto, Free, TaskStates, mintVars, recVars, balVars, tokVars
<1>2. balanceRow' \in Int /\ t \in Tasks
  BY <1>1 DEF IInv, Typed, Tasks
<1> QED
  BY <1>1, <1>2, StepMoves

-----------------------------------------------------------------------------
(* checkAndMintTokens *)

\* The mint is asked for the quote's state.
LEMMA StepCheck ==
    ASSUME IInv, NEW t \in Tasks, Check(t)
    PROVE  IInv'
<1>1. /\ Free(at[t])
      /\ UNCHANGED <<quote, tx, row, balance, balanceRow, forfeit, stored, lost, of, carry>>
  BY DEF Check, Free, TaskStates, mintVars, recVars, balVars, tokVars
<1>2. Goto(t, "minting") \/ NotMinted(t) \/ AttemptFails(t)
  BY DEF Check, NoAnswer
<1>3. \E s : Free(s) /\ at' = [at EXCEPT ![t] = s]
  BY <1>2, NotMintedFree, AttemptFailsFree DEF Goto, Free, TaskStates
<1>4. balanceRow' \in Int
  BY <1>1 DEF IInv, Typed
<1> QED
  BY <1>1, <1>3, <1>4, StepMoves

\* The balance is written to the store, or the write fails.
LEMMA StepCredit ==
    ASSUME IInv, NEW t \in Tasks, Credit(t)
    PROVE  IInv'
<1>1. /\ Free(at[t])
      /\ balanceRow' \in {balanceRow, carry[t]}
      /\ UNCHANGED <<quote, tx, row, balance, forfeit, stored, lost, of, carry>>
  BY DEF Credit, Free, TaskStates, mintVars, recVars, tokVars
<1>2. Goto(t, "done") \/ AttemptFails(t)
  BY DEF Credit
<1>3. \E s : Free(s) /\ at' = [at EXCEPT ![t] = s]
  BY <1>2, AttemptFailsFree DEF Goto, Free, TaskStates
<1>4. balanceRow' \in Int
  BY <1>1 DEF IInv, Typed
<1> QED
  BY <1>1, <1>3, <1>4, StepMoves

\* The mint issues the tokens to the first that asks: they are in that task's
\* hands, or lost with the answer.
LEMMA StepMint ==
    ASSUME IInv, NEW t \in Tasks, Mint(t)
    PROVE  IInv'
<1> DEFINE i == of[t]
<1>0. /\ at[t] = "minting" /\ Free(at[t]) /\ i \in Invoices
      /\ UNCHANGED <<tx, row, balance, balanceRow, forfeit, stored, of, carry>>
  BY DEF Mint, Free, TaskStates, recVars, balVars, IInv, Typed
<1>1. CASE quote' = quote
  <2>1. UNCHANGED <<quote, lost>> /\ AttemptFails(t)
    BY <1>1 DEF Mint, NoAnswer, IInv, Typed
  <2>2. balanceRow' \in Int
    BY <1>0 DEF IInv, Typed
  <2> QED
    BY <1>0, <2>1, <2>2, AttemptFailsFree, StepMoves
<1>2. CASE quote' # quote
  <2>1. /\ quote[i] = "paid" /\ quote' = [quote EXCEPT ![i] = "issued"]
        /\ \/ at' = [at EXCEPT ![t] = "storing"] /\ lost' = lost
           \/ lost' = lost \cup {i} /\ AttemptFails(t)
    BY <1>2 DEF Mint, NoAnswer, Goto
  <2>2. i \notin stored \cup lost /\ \A u \in Tasks : at[u] = "storing" => of[u] # i
    BY <1>0, <2>1 DEF IInv, Held, Typed
  <2>3. \E s \in TaskStates :
            /\ at' = [at EXCEPT ![t] = s] /\ s # "settling"
            /\ lost' = IF s = "storing" THEN lost ELSE lost \cup {i}
    BY <2>1, AttemptFailsFree DEF Free, TaskStates
  <2>4. PICK s \in TaskStates :
            /\ at' = [at EXCEPT ![t] = s] /\ s # "settling"
            /\ lost' = IF s = "storing" THEN lost ELSE lost \cup {i}
    BY <2>3
  <2>5. Typed'
    BY <1>0, <2>1, <2>4 DEF IInv, Typed
  <2>6. /\ \A u \in Tasks : u # t => at'[u] = at[u]
        /\ at'[t] = s
        /\ \A j \in Invoices : quote'[j] = IF j = i THEN "issued" ELSE quote[j]
    BY <1>0, <2>1, <2>4 DEF IInv, Typed
  <2>7. Held'
    <3>1. \A j \in (stored \cup lost)' : quote'[j] = "issued"
      BY <1>0, <2>4, <2>6 DEF IInv, Held, Typed
    <3>2. \A u \in Tasks : at'[u] = "storing" =>
              quote'[of'[u]] = "issued" /\ of'[u] \notin (stored \cup lost)'
      BY <1>0, <2>2, <2>4, <2>6 DEF IInv, Held, Typed
    <3>3. \A u, v \in Tasks : at'[u] = "storing" /\ at'[v] = "storing" /\ of'[u] = of'[v] => u = v
      BY <1>0, <2>2, <2>6 DEF IInv, Held, Typed
    <3>4. \A j \in Invoices : quote'[j] = "issued" =>
              j \in (stored \cup lost)' \/ \E u \in Tasks : at'[u] = "storing" /\ of'[u] = j
      BY <1>0, <2>4, <2>6 DEF IInv, Held, Typed
    <3> QED
      BY <3>1, <3>2, <3>3, <3>4 DEF Held
  <2>8. \A u \in Tasks : (at'[u] = "settling" <=> at[u] = "settling")
    BY <1>0, <2>4, <2>6
  <2>9. Settling'
    BY <1>0, <2>8 DEF IInv, Settling
  <2>10. Uncredited' = Uncredited
    BY <1>0, <2>8 DEF Uncredited
  <2>11. CreditedOnce'
    BY <1>0, <2>10 DEF IInv, CreditedOnce
  <2> QED
    BY <2>5, <2>7, <2>9, <2>11 DEF IInv
<1> QED
  BY <1>1, <1>2

\* The tokens are stored: one more invoice, and one more credit on the way, if it
\* is the connection's.
LEMMA StepStore ==
    ASSUME IInv, NEW t \in Tasks, Store(t)
    PROVE  IInv'
<1> DEFINE i == of[t]
<1>0. /\ at[t] = "storing" /\ i \in Invoices /\ i \notin stored \cup lost
      /\ quote[i] = "issued"
      /\ UNCHANGED <<quote, row, balance, balanceRow, forfeit, of, carry>>
  BY DEF Store, mintVars, balVars, IInv, Typed, Held
<1>1. CASE /\ stored' = stored \cup {i} /\ at' = [at EXCEPT ![t] = "settling"]
           /\ tx' = IF i \in NwcInvoices THEN [tx EXCEPT ![i] = "settled"] ELSE tx
           /\ lost' = lost
  <2>1. Typed'
    BY <1>0, <1>1 DEF IInv, Typed, TaskStates
  <2>2. /\ \A u \in Tasks : u # t => at'[u] = at[u]
        /\ at'[t] = "settling"
        /\ \A j \in Invoices : tx'[j] = "settled" => tx[j] = "settled" \/ j = i
    BY <1>0, <1>1 DEF IInv, Typed
  <2>3. Held'
    BY <1>0, <1>1, <2>2 DEF IInv, Held, Typed
  <2>4. Settling'
    BY <1>0, <1>1, <2>2 DEF IInv, Settling, Typed
  <2>5. CASE i \in NwcInvoices
    <3>1. Uncredited' = Uncredited \cup {t} /\ t \notin Uncredited
      BY <1>0, <2>2, <2>5 DEF Uncredited
    <3>2. (stored \cap NwcInvoices)' = (stored \cap NwcInvoices) \cup {i}
          /\ i \notin stored \cap NwcInvoices
      BY <1>0, <1>1, <2>5
    <3>3. /\ Cardinality(Uncredited') = Cardinality(Uncredited) + 1
          /\ Cardinality((stored \cap NwcInvoices)') = Cardinality(stored \cap NwcInvoices) + 1
      BY <3>1, <3>2, Counts, FS_AddElement DEF IInv
    <3> QED
      BY <1>0, <2>1, <2>3, <2>4, <3>3, Counts DEF IInv, CreditedOnce, Typed
  <2>6. CASE i \notin NwcInvoices
    <3>1. Uncredited' = Uncredited
      BY <1>0, <2>2, <2>6 DEF Uncredited
    <3>2. (stored \cap NwcInvoices)' = stored \cap NwcInvoices
      BY <1>1, <2>6
    <3> QED
      BY <1>0, <2>1, <2>3, <2>4, <3>1, <3>2 DEF IInv, CreditedOnce
  <2> QED
    BY <2>5, <2>6
<1>2. CASE lost' = lost \cup {i} /\ AttemptFails(t) /\ UNCHANGED <<stored, tx>>
  <2>1. PICK s : Free(s) /\ at' = [at EXCEPT ![t] = s]
    BY <1>2, AttemptFailsFree
  <2>2. Typed'
    BY <1>0, <1>2, <2>1 DEF IInv, Typed, Free
  <2>3. /\ \A u \in Tasks : u # t => at'[u] = at[u]
        /\ at'[t] \notin {"storing", "settling"}
    BY <2>1 DEF IInv, Typed, Free
  <2>4. Held'
    BY <1>0, <1>2, <2>3 DEF IInv, Held, Typed
  <2>5. \A u \in Tasks : (at'[u] = "settling" <=> at[u] = "settling")
    BY <1>0, <2>3
  <2>6. Settling'
    BY <1>0, <1>2, <2>5 DEF IInv, Settling
  <2>7. Uncredited' = Uncredited
    BY <1>0, <2>5 DEF Uncredited
  <2>8. CreditedOnce'
    BY <1>0, <1>2, <2>7 DEF IInv, CreditedOnce
  <2> QED
    BY <2>2, <2>4, <2>6, <2>8 DEF IInv
<1> QED
  BY <1>1, <1>2 DEF Store, Goto

\* A credit moves one unit from what is owed to what is held.
LEMMA Exchange ==
    ASSUME NEW b \in Int, NEW f \in Int, NEW u \in Int, NEW b2 \in Int, NEW f2 \in Int,
           NEW u2 \in Int, b2 + f2 = b + f + 1, u2 = u - 1
    PROVE  b2 + f2 + u2 = b + f + u
OBVIOUS

\* The record is settled and the connection credited, or the credit is forfeited.
LEMMA StepSettle ==
    ASSUME IInv, NEW t \in Tasks, Settle(t)
    PROVE  IInv'
<1> DEFINE i == of[t]
<1>0. /\ at[t] = "settling" /\ i \in NwcInvoices /\ i \in Invoices /\ i \in stored
      /\ UNCHANGED <<quote, tx, balanceRow, stored, lost, of>>
  BY DEF Settle, mintVars, tokVars, IInv, Typed, Settling, Invoices
<1>1. \E s : Free(s) /\ at' = [at EXCEPT ![t] = s]
  BY AttemptFailsFree DEF Settle, Goto, Free, TaskStates
<1>2. PICK s : Free(s) /\ at' = [at EXCEPT ![t] = s]
  BY <1>1
<1>3. /\ row' \in [Invoices -> {"none", "pending", "settled"}]
      /\ \A j \in Invoices : row'[j] = "settled" => row[j] = "settled" \/ j = i
      /\ carry' \in [Tasks -> Int]
      /\ balance' \in Int /\ forfeit' \in Int
      /\ balance' + forfeit' = balance + forfeit + 1
  <2>1. CASE /\ row' = [row EXCEPT ![i] = IF @ = "none" THEN @ ELSE "settled"]
             /\ balance' = balance + 1 /\ forfeit' = forfeit
             /\ carry' = [carry EXCEPT ![t] = balance']
    BY <1>0, <2>1 DEF IInv, Typed
  <2>2. CASE forfeit' = forfeit + 1 /\ UNCHANGED <<row, balance, carry>>
    BY <2>2 DEF IInv, Typed
  <2> QED
    BY <2>1, <2>2 DEF Settle
<1>4. Typed'
  BY <1>0, <1>2, <1>3 DEF IInv, Typed, Free
<1>5. /\ \A u \in Tasks : u # t => at'[u] = at[u]
      /\ at'[t] \notin {"storing", "settling"}
  BY <1>2 DEF IInv, Typed, Free
<1>6. \A u \in Tasks : (at'[u] = "storing" <=> at[u] = "storing")
  BY <1>0, <1>5
<1>7. Held'
  BY <1>0, <1>6 DEF IInv, Held
<1>8. Settling'
  BY <1>0, <1>3, <1>5 DEF IInv, Settling
<1>9. Uncredited' = Uncredited \ {t} /\ t \in Uncredited
  BY <1>0, <1>5 DEF Uncredited
<1>10. Cardinality(Uncredited') = Cardinality(Uncredited) - 1
  BY <1>9, Counts, FS_RemoveElement DEF IInv
<1>11. CreditedOnce'
  <2>1. /\ balance \in Int /\ forfeit \in Int /\ balance' \in Int /\ forfeit' \in Int
        /\ Cardinality(Uncredited) \in Int /\ Cardinality(Uncredited') \in Int
    BY <1>3, <1>10, Counts DEF IInv, Typed
  <2>2. balance' + forfeit' + Cardinality(Uncredited')
            = balance + forfeit + Cardinality(Uncredited)
    BY <1>3, <1>10, <2>1, Exchange
  <2> QED
    BY <1>0, <2>2 DEF IInv, CreditedOnce
<1> QED
  BY <1>4, <1>7, <1>8, <1>11 DEF IInv

\* receive/check writes the record; no connection is credited.
LEMMA StepSettleApi ==
    ASSUME IInv, NEW t \in Tasks, SettleApi(t)
    PROVE  IInv'
<1> DEFINE i == of[t]
<1>0. /\ at[t] = "settling" /\ i \notin NwcInvoices /\ i \in Invoices /\ i \in stored
      /\ at' = [at EXCEPT ![t] = "done"]
      /\ row' = row \/ row' = [row EXCEPT ![i] = IF @ = "none" THEN @ ELSE "settled"]
      /\ UNCHANGED <<quote, tx, balance, balanceRow, forfeit, stored, lost, of, carry>>
  BY InvoiceAssumption DEF SettleApi, Goto, mintVars, balVars, tokVars, IInv, Typed,
     Settling, Invoices
<1>1. /\ row' \in [Invoices -> {"none", "pending", "settled"}]
      /\ \A j \in Invoices : row'[j] = "settled" => row[j] = "settled" \/ j = i
  BY <1>0 DEF IInv, Typed
<1>2. Typed'
  BY <1>0, <1>1 DEF IInv, Typed, TaskStates
<1>3. /\ \A u \in Tasks : u # t => at'[u] = at[u]
      /\ at'[t] = "done"
  BY <1>0 DEF IInv, Typed
<1>4. \A u \in Tasks : (at'[u] = "storing" <=> at[u] = "storing")
  BY <1>0, <1>3
<1>5. Held'
  BY <1>0, <1>4 DEF IInv, Held
<1>6. Settling'
  BY <1>0, <1>1, <1>3 DEF IInv, Settling
<1>7. Uncredited' = Uncredited
  BY <1>0, <1>3 DEF Uncredited
<1>8. CreditedOnce'
  BY <1>0, <1>7 DEF IInv, CreditedOnce
<1> QED
  BY <1>2, <1>5, <1>6, <1>8 DEF IInv

\* A crash drops the tokens in hand and forfeits what was not written.
LEMMA StepCrash ==
    ASSUME IInv, Crash
    PROVE  IInv'
<1>1. /\ lost' = lost \cup {of[t] : t \in {s \in Tasks : at[s] = "storing"}}
      /\ balance' = balanceRow
      /\ forfeit' = forfeit + Cardinality(Uncredited) + (balance - balanceRow)
      /\ tx' = [i \in Invoices |-> IF i \in NwcInvoices THEN row[i] ELSE "none"]
      /\ at' = [t \in Tasks |-> IF at[t] = "idle" THEN "idle" ELSE "done"]
      /\ UNCHANGED <<quote, row, balanceRow, stored, of, carry>>
  BY DEF Crash, mintVars
<1>2. Typed'
  BY <1>1, Counts DEF IInv, Typed, TaskStates
<1>3. \A t \in Tasks : at'[t] \notin {"storing", "settling"}
  BY <1>1
<1>4. Held'
  BY <1>1, <1>3 DEF IInv, Held, Typed
<1>5. Settling'
  BY <1>1, <1>3 DEF IInv, Settling
<1>6. Cardinality(Uncredited') = 0
  <2>1. Uncredited' = {}
    BY <1>3 DEF Uncredited
  <2> QED
    BY <2>1, FS_EmptySet
<1>7. CreditedOnce'
  BY <1>1, <1>6, Counts DEF IInv, CreditedOnce, Typed
<1> QED
  BY <1>2, <1>4, <1>5, <1>7 DEF IInv

-----------------------------------------------------------------------------
(* The invariant and the theorems *)

\* Nothing is issued at the start.
LEMMA InitHolds == Init => IInv
<1> SUFFICES ASSUME Init PROVE IInv
  OBVIOUS
<1>1. Typed /\ Held /\ Settling
  BY DEF Init, Typed, Held, Settling, TaskStates
<1>2. Uncredited = {} /\ stored \cap NwcInvoices = {} /\ Cardinality({}) = 0
  BY FS_EmptySet DEF Init, Uncredited
<1>3. CreditedOnce
  BY <1>2 DEF Init, CreditedOnce
<1> QED
  BY <1>1, <1>3 DEF IInv

\* Every step keeps the invariant.
LEMMA StepHolds == IInv /\ [Next]_vars => IInv'
<1> SUFFICES ASSUME IInv, [Next]_vars PROVE IInv'
  OBVIOUS
<1>1. CASE \E i \in Invoices : \/ MakeInvoice(i) \/ Receive(i) \/ Record(i) \/ Pay(i)
                               \/ Expire(i) \/ Subscription(i) \/ Wake(i)
  BY <1>1, StepCreate, StepRecord, StepPay, StepWaiter
<1>2. CASE \E t \in Lookups : Lookup(t)
  BY <1>2, StepLookup
<1>3. CASE \E t \in Tasks : CheckAndMint(t)
  BY <1>3, StepCheck, StepMint, StepStore, StepSettle, StepSettleApi, StepCredit DEF CheckAndMint
<1>4. CASE Crash
  BY <1>4, StepCrash
<1>5. CASE Boot \/ UNCHANGED vars
  <2>1. UNCHANGED <<quote, tx, row, balance, balanceRow, forfeit, carry, stored, lost, at, of>>
    BY <1>5 DEF Boot, vars, mintVars, recVars, balVars, tokVars, taskVars, procVars
  <2>2. Uncredited' = Uncredited
    BY <2>1 DEF Uncredited
  <2>3. Typed' /\ Held' /\ Settling' /\ CreditedOnce'
    BY <2>1, <2>2 DEF IInv, Typed, Held, Settling, CreditedOnce
  <2> QED
    BY <2>3 DEF IInv
<1> QED
  BY <1>1, <1>2, <1>3, <1>4, <1>5 DEF Next

\* The invariant of all three theorems.
LEMMA Inductive == Spec => []IInv
BY InitHolds, StepHolds, PTL DEF Spec

\* However many waiters, lookups and checks work on one quote, each invoice is
\* credited once, but for what a failing write or a crash forfeits.
THEOREM CreditedOnceTheorem == Spec => []CreditedOnce
<1>1. IInv => CreditedOnce
  BY DEF IInv
<1> QED
  BY <1>1, Inductive, PTL

\* No record says settled of an invoice whose tokens the wallet does not hold.
THEOREM SettledMeansStoredTheorem == Spec => []SettledMeansStored
<1>1. IInv => SettledMeansStored
  BY DEF IInv, Settling, SettledMeansStored
<1> QED
  BY <1>1, Inductive, PTL

\* Issued tokens are stored, lost to a named fault, or in the hands of one task.
THEOREM IssuedIsAccountedTheorem == Spec => []IssuedIsAccounted
<1>1. ASSUME IInv PROVE IssuedIsAccounted
  <2> SUFFICES ASSUME NEW i \in Invoices
               PROVE  LET holders == {t \in Tasks : at[t] = "storing" /\ of[t] = i}
                      IN  /\ Cardinality(holders) <= 1
                          /\ quote[i] = "issued" => (i \in stored \cup lost <=> holders = {})
    BY DEF IssuedIsAccounted
  <2> DEFINE holders == {t \in Tasks : at[t] = "storing" /\ of[t] = i}
  <2>1. holders = {} \/ \E t \in Tasks : holders = {t}
    BY <1>1 DEF IInv, Held
  <2>2. Cardinality(holders) \in {0, 1}
    BY <2>1, FS_EmptySet, FS_Singleton
  <2>3. quote[i] = "issued" => (i \in stored \cup lost <=> holders = {})
    BY <1>1 DEF IInv, Held
  <2> QED
    BY <2>2, <2>3
<1> QED
  BY <1>1, Inductive, PTL
=============================================================================
