------------------------------ MODULE ProofVault ------------------------------
(***************************************************************************)
(* The ecash of ONE mint: the proofs in NUTbits' store, the proofs that a   *)
(* payment, a minting or a restore has taken out or is bringing in, and    *)
(* what the mint itself says of each proof.                                *)
(*                                                                         *)
(* nutbits.js is a single-threaded event loop: the code between two awaits *)
(* runs alone, and each await lets any other handler run.  An action of    *)
(* this module is the code between two awaits that touch the store or the  *)
(* mint; the mint's effect and its answer are one action, because nothing  *)
(* else of NUTbits observes the mint in between and a lost answer is an    *)
(* outcome of its own.                                                     *)
(*                                                                         *)
(* A proof is an identity worth one unit.  The store is the SET of proofs  *)
(* it holds: the file store's array can also hold one proof twice after a  *)
(* restore, which this module does not distinguish.                        *)
(***************************************************************************)
EXTENDS Naturals, Sequences, FiniteSets

CONSTANTS
    Proofs,         \* every proof the mint can ever sign for this wallet
    InitialProofs,  \* the unspent proofs in the store when it is opened
    Payers,         \* calls of payInvoice, one invoice each
    Minters,        \* paid invoices whose tokens are minted, one mint quote each
    Amount,         \* proofs a payment hands to the mint: amount + fee_reserve
    FeeReserve,     \* at most this many come back as change
    MintAmount,     \* proofs issued for a paid mint quote
    MaxRestores,    \* bound: calls of restoreFromSeed, the boot's included
    MaxCrashes,     \* bound: crashes of the process
    LiveArray,      \* TRUE: getProofs returns the store's own array (file store)
                    \* FALSE: getProofs returns a copy of the rows (SQLite, MySQL)
    Faults          \* the faults that may happen

AllFaults == {"lostAnswer",   \* the mint signs or pays, its answer does not arrive
              "pendingMelt",  \* the mint answers a melt with state PENDING
              "storeWrite",   \* a write of the store throws
              "recoveryWrite" \* the emergency file cannot be written either
             }

ASSUME ConstantsAssumption ==
    /\ InitialProofs \subseteq Proofs
    /\ Amount \in Nat /\ FeeReserve \in Nat /\ MintAmount \in Nat
    /\ MaxRestores \in Nat /\ MaxCrashes \in Nat
    /\ LiveArray \in BOOLEAN
    /\ Faults \subseteq AllFaults

VARIABLES
    mint,      \* what the mint says of each proof
    vault,     \* the proofs the running process reads from its store
    disk,      \* the proofs a restart would read
    recovery,  \* the proofs in encrypted recovery files
    stranded,  \* ghost: proofs the process has lost track of; only the seed finds them
    queue,     \* paymentLocks: the head holds the lock, the others await it
    pc,        \* where each payment stands
    active,    \* payInvoice's activeProofs as of the read
    keep,      \* ... the proofs it does not spend
    hold,      \* ... the proofs it hands to the mint (send)
    change,    \* ... the change the mint signed
    melt,      \* the mint's state of the payment's melt quote
    job,       \* where each minting stands
    got,       \* the proofs a minting received
    restore,   \* where restoreFromSeed stands
    found,     \* the proofs it received
    restores,  \* calls of restoreFromSeed so far
    up,        \* the process is running
    crashes    \* crashes so far

mintVars    == <<mint, melt>>
storeVars   == <<vault, disk, recovery>>
payVars     == <<queue, pc, active, keep, hold, change>>
mintingVars == <<job, got>>
restoreVars == <<restore, found, restores>>
procVars    == <<up, crashes>>
vars == <<mintVars, storeVars, stranded, payVars, mintingVars, restoreVars, procVars>>

PayStates == {"idle", "waiting", "quoted", "sending", "sent", "melting", "paid",
              "restoring", "ok", "failed", "crashed"}
Inside    == {"quoted", "sending", "sent", "melting", "paid", "restoring"}
Holding   == {"sent", "melting", "restoring"}

Fresh  == {x \in Proofs : mint[x] = "none"}
Issued == Proofs \ Fresh
Live   == {x \in Proofs : mint[x] \in {"unspent", "pending"}}

\* The proofs in the hands of the handlers: on no disk, in a local variable.
InHand ==
    {x \in Proofs :
        \/ \E p \in Payers : pc[p] \in Holding /\ x \in hold[p]
        \/ \E p \in Payers : pc[p] = "sent" /\ x \in keep[p]
        \/ \E p \in Payers : pc[p] = "paid" /\ x \in change[p]
        \/ \E m \in Minters : job[m] = "issued" /\ x \in got[m]}

Mark(S, s) == [x \in Proofs |-> IF x \in S THEN s ELSE mint[x]]

Init ==
    /\ mint = [x \in Proofs |-> IF x \in InitialProofs THEN "unspent" ELSE "none"]
    /\ vault = InitialProofs
    /\ disk = InitialProofs
    /\ recovery = {}
    /\ stranded = {}
    /\ queue = <<>>
    /\ pc = [p \in Payers |-> "idle"]
    /\ active = [p \in Payers |-> {}]
    /\ keep = [p \in Payers |-> {}]
    /\ hold = [p \in Payers |-> {}]
    /\ change = [p \in Payers |-> {}]
    /\ melt = [p \in Payers |-> "UNPAID"]
    /\ job = [m \in Minters |-> "idle"]
    /\ got = [m \in Minters |-> {}]
    /\ restore = "idle"
    /\ found = {}
    /\ restores = 0
    /\ up = TRUE
    /\ crashes = 0

-----------------------------------------------------------------------------
(* The store's two writes.  A file store changes its array before it writes *)
(* the file, a database rolls the whole transaction back.                  *)

\* Mutant: the array is pushed as one element.
AddProofsNested(S) ==
    /\ vault' = vault \cup {S}
    /\ disk' = vault \cup {S}

AddProofs(S) ==
    /\ vault' = vault \cup S
    /\ disk' = vault \cup S

AddProofsThrows(S) ==
    /\ "storeWrite" \in Faults
    /\ vault' = IF LiveArray THEN vault \cup S ELSE vault
    /\ UNCHANGED disk

\* Mutants: the swap deletes every row of the mint; it deletes nothing.
SwapProofsDeletesAll(remove, add) ==
    /\ vault' = add
    /\ disk' = add

SwapProofsOnlyAdds(remove, add) ==
    /\ vault' = vault \cup add
    /\ disk' = vault \cup add

SwapProofs(remove, add) ==
    /\ vault' = (vault \ remove) \cup add
    /\ disk' = (vault \ remove) \cup add

SwapProofsThrows(remove, add) ==
    /\ "storeWrite" \in Faults
    /\ vault' = IF LiveArray THEN (vault \ remove) \cup add ELSE vault
    /\ UNCHANGED disk

\* The array the payment read IS the store's array when LiveArray: what was
\* pushed since the read is part of it.
ActiveProofs(p) == IF LiveArray THEN vault ELSE active[p]

-----------------------------------------------------------------------------
(* payInvoice, under withPaymentLock *)

Goto(p, s) == pc' = [pc EXCEPT ![p] = s]

\* Mutant: only a payment that succeeds releases the lock.
LeaveOnSuccess(p, s) ==
    /\ Goto(p, s)
    /\ queue' = IF s = "ok" THEN Tail(queue) ELSE queue

\* The payment returns or throws: the lock goes to the next in line.
Leave(p, s) ==
    /\ Goto(p, s)
    /\ queue' = Tail(queue)

\* Mutant: a payment does not wait for its turn.
LockedAtOnce(p, s) ==
    /\ up
    /\ pc[p] = s
    /\ queue # <<>>

Locked(p, s) ==
    /\ up
    /\ pc[p] = s
    /\ queue # <<>>
    /\ Head(queue) = p

Request(p) ==
    /\ up
    /\ pc[p] = "idle"
    /\ Goto(p, "waiting")
    /\ queue' = Append(queue, p)
    /\ UNCHANGED <<mintVars, storeVars, stranded, active, keep, hold, change,
                   mintingVars, restoreVars, procVars>>

\* createMeltQuoteBolt11 answers, or the invoice or the mint is refused.
Quote(p) ==
    /\ Locked(p, "waiting")
    /\ \/ Goto(p, "quoted") /\ UNCHANGED queue
       \/ Leave(p, "failed")
    /\ UNCHANGED <<mintVars, storeVars, stranded, active, keep, hold, change,
                   mintingVars, restoreVars, procVars>>

\* getProofs, the balance check, and the selection payWallet.send starts with.
ReadProofs(p) ==
    /\ Locked(p, "quoted")
    /\ IF Cardinality(vault) < Amount
       THEN /\ Leave(p, "failed")
            /\ UNCHANGED <<active, hold>>
       ELSE /\ \E S \in SUBSET vault :
                 /\ Cardinality(S) = Amount
                 /\ hold' = [hold EXCEPT ![p] = S]
            /\ active' = [active EXCEPT ![p] = vault]
            /\ Goto(p, "sending")
            /\ UNCHANGED queue
    /\ UNCHANGED <<mintVars, storeVars, stranded, keep, change, mintingVars,
                   restoreVars, procVars>>

\* The selected proofs fit exactly: no call of the mint.
SendExact(p) ==
    /\ Locked(p, "sending")
    /\ keep' = [keep EXCEPT ![p] = active[p] \ hold[p]]
    /\ Goto(p, "sent")
    /\ UNCHANGED <<mintVars, storeVars, stranded, queue, active, hold, change,
                   mintingVars, restoreVars, procVars>>

\* The mint swaps the selected proofs for new ones of the right amounts; one
\* more input than needed gives one more output to keep.
SwappedInputs(p) == {T \in SUBSET active[p] :
                        /\ hold[p] \subseteq T
                        /\ Cardinality(T) <= Amount + 1
                        /\ \A x \in T : mint[x] = "unspent"}

SwapSign(inputs, outputs) ==
    mint' = [x \in Proofs |-> IF x \in inputs THEN "spent"
                              ELSE IF x \in outputs THEN "unspent" ELSE mint[x]]

SendSwapped(p) ==
    /\ Locked(p, "sending")
    /\ \E T \in SwappedInputs(p), S \in SUBSET Fresh, K \in SUBSET Fresh :
         /\ S \cap K = {}
         /\ Cardinality(S) = Amount
         /\ Cardinality(S) + Cardinality(K) = Cardinality(T)
         /\ SwapSign(T, S \cup K)
         /\ keep' = [keep EXCEPT ![p] = (active[p] \ T) \cup K]
         /\ hold' = [hold EXCEPT ![p] = S]
    /\ Goto(p, "sent")
    /\ UNCHANGED <<melt, storeVars, stranded, queue, active, change,
                   mintingVars, restoreVars, procVars>>

\* send throws: the mint refused or did not answer.  Nothing was removed yet.
SendFails(p) ==
    /\ Locked(p, "sending")
    /\ \/ UNCHANGED <<mint, stranded>>
       \/ /\ "lostAnswer" \in Faults
          /\ \E T \in SwappedInputs(p), S \in SUBSET Fresh :
               /\ Cardinality(S) = Cardinality(T)
               /\ SwapSign(T, S)
               /\ stranded' = stranded \cup S
    /\ Leave(p, "failed")
    /\ UNCHANGED <<melt, storeVars, active, keep, hold, change, mintingVars,
                   restoreVars, procVars>>

\* "Atomic swap: remove all original proofs, add back keep"
Swap(p) ==
    /\ Locked(p, "sent")
    /\ \/ /\ SwapProofs(ActiveProofs(p), keep[p])
          /\ Goto(p, "melting")
          /\ UNCHANGED <<stranded, queue>>
       \/ /\ SwapProofsThrows(ActiveProofs(p), keep[p])
          /\ stranded' = stranded \cup hold[p] \cup keep[p]
          /\ Leave(p, "failed")
    /\ UNCHANGED <<mintVars, recovery, active, keep, hold, change, mintingVars,
                   restoreVars, procVars>>

\* The mint paid and says so.
MeltPaid(p) ==
    /\ Locked(p, "melting")
    /\ \A x \in hold[p] : mint[x] = "unspent"
    /\ \E C \in SUBSET Fresh :
         /\ Cardinality(C) <= FeeReserve
         /\ SwapSign(hold[p], C)
         /\ change' = [change EXCEPT ![p] = C]
    /\ melt' = [melt EXCEPT ![p] = "PAID"]
    /\ Goto(p, "paid")
    /\ UNCHANGED <<storeVars, stranded, queue, active, keep, hold, mintingVars,
                   restoreVars, procVars>>

\* Mutant: any answer of the melt counts as paid.
MeltUnpaidIsPaid(p) ==
    /\ Locked(p, "melting")
    /\ Goto(p, "paid")
    /\ UNCHANGED <<mintVars, storeVars, stranded, queue, active, keep, hold,
                   change, mintingVars, restoreVars, procVars>>

\* The mint did not pay and says so, or refuses the request.
MeltUnpaid(p) ==
    /\ Locked(p, "melting")
    /\ Goto(p, "restoring")
    /\ UNCHANGED <<mintVars, storeVars, stranded, queue, active, keep, hold,
                   change, mintingVars, restoreVars, procVars>>

\* The payment is under way at the mint (state PENDING), or done and the answer
\* lost with the change it carried.  The code treats both as not paid.
MeltUnknown(p) ==
    /\ Locked(p, "melting")
    /\ \A x \in hold[p] : mint[x] = "unspent"
    /\ \/ /\ "pendingMelt" \in Faults
          /\ mint' = Mark(hold[p], "pending")
          /\ melt' = [melt EXCEPT ![p] = "PENDING"]
          /\ UNCHANGED stranded
       \/ /\ "lostAnswer" \in Faults
          /\ \E C \in SUBSET Fresh :
               /\ Cardinality(C) <= FeeReserve
               /\ SwapSign(hold[p], C)
               /\ stranded' = stranded \cup C
          /\ melt' = [melt EXCEPT ![p] = "PAID"]
    /\ Goto(p, "restoring")
    /\ UNCHANGED <<storeVars, queue, active, keep, hold, change, mintingVars,
                   restoreVars, procVars>>

\* The mint learns the outcome of a payment it had under way.
PendingSettles(p) ==
    /\ melt[p] = "PENDING"
    /\ \A x \in hold[p] : mint[x] = "pending"
    /\ \/ /\ mint' = Mark(hold[p], "spent")
          /\ melt' = [melt EXCEPT ![p] = "PAID"]
       \/ /\ mint' = Mark(hold[p], "unspent")
          /\ melt' = [melt EXCEPT ![p] = "UNPAID"]
    /\ UNCHANGED <<storeVars, stranded, payVars, mintingVars, restoreVars, procVars>>

\* Mutant: a paid melt without change is taken for a failed one.
StoreChangeExpected(p) ==
    /\ Locked(p, "paid")
    /\ IF change[p] = {}
       THEN Goto(p, "restoring") /\ UNCHANGED <<vault, disk, queue>>
       ELSE AddProofs(change[p]) /\ Leave(p, "ok")
    /\ UNCHANGED <<mintVars, recovery, stranded, active, keep, hold, change,
                   mintingVars, restoreVars, procVars>>

\* Success.  A throw while the change is stored lands in the handler of a
\* failed melt, which puts back the spent proofs.
StoreChange(p) ==
    /\ Locked(p, "paid")
    /\ \/ /\ change[p] = {}
          /\ Leave(p, "ok")
          /\ UNCHANGED <<vault, disk, stranded>>
       \/ /\ change[p] # {}
          /\ AddProofs(change[p])
          /\ Leave(p, "ok")
          /\ UNCHANGED stranded
       \/ /\ change[p] # {}
          /\ AddProofsThrows(change[p])
          /\ stranded' = stranded \cup change[p]
          /\ Goto(p, "restoring")
          /\ UNCHANGED queue
    /\ UNCHANGED <<mintVars, recovery, active, keep, hold, change, mintingVars,
                   restoreVars, procVars>>

\* Mutants: the failure is returned without restoring the proofs; the proofs
\* that were kept are restored in place of those that were sent.
RestoreProofsForgotten(p) ==
    /\ Locked(p, "restoring")
    /\ Leave(p, "failed")
    /\ UNCHANGED <<mintVars, storeVars, stranded, active, keep, hold, change,
                   mintingVars, restoreVars, procVars>>

RestoreProofsKept(p) ==
    /\ Locked(p, "restoring")
    /\ AddProofs(keep[p])
    /\ Leave(p, "failed")
    /\ UNCHANGED <<mintVars, recovery, stranded, active, keep, hold, change,
                   mintingVars, restoreVars, procVars>>

\* restoreProofs: the store, else a recovery file, else only a log line.
RestoreProofs(p) ==
    /\ Locked(p, "restoring")
    /\ \/ AddProofs(hold[p]) /\ UNCHANGED <<recovery, stranded>>
       \/ /\ AddProofsThrows(hold[p])
          /\ \/ recovery' = recovery \cup hold[p] /\ UNCHANGED stranded
             \/ /\ "recoveryWrite" \in Faults
                /\ stranded' = stranded \cup hold[p]
                /\ UNCHANGED recovery
    /\ Leave(p, "failed")
    /\ UNCHANGED <<mintVars, active, keep, hold, change, mintingVars,
                   restoreVars, procVars>>

-----------------------------------------------------------------------------
(* checkAndMintTokens, once the quote is paid *)

MintTokens(m) ==
    /\ up
    /\ job[m] = "idle"
    /\ \E F \in SUBSET Fresh :
         /\ Cardinality(F) = MintAmount
         /\ mint' = Mark(F, "unspent")
         /\ \/ /\ got' = [got EXCEPT ![m] = F]
               /\ job' = [job EXCEPT ![m] = "issued"]
               /\ UNCHANGED stranded
            \/ /\ "lostAnswer" \in Faults
               /\ stranded' = stranded \cup F
               /\ job' = [job EXCEPT ![m] = "lost"]
               /\ UNCHANGED got
    /\ UNCHANGED <<melt, storeVars, payVars, restoreVars, procVars>>

\* addProofs throws: the retry finds the quote ISSUED and gives up.
StoreTokens(m) ==
    /\ up
    /\ job[m] = "issued"
    /\ \/ /\ AddProofs(got[m])
          /\ job' = [job EXCEPT ![m] = "done"]
          /\ UNCHANGED stranded
       \/ /\ AddProofsThrows(got[m])
          /\ job' = [job EXCEPT ![m] = "lost"]
          /\ stranded' = stranded \cup got[m]
    /\ UNCHANGED <<mintVars, recovery, payVars, got, restoreVars, procVars>>

-----------------------------------------------------------------------------
(* restoreFromSeed (NUT-09), the periodic save, crash and boot *)

\* The mint returns its signatures: all of the live proofs and possibly spent ones.
RestoreQuery ==
    /\ up
    /\ restore = "idle"
    /\ restores < MaxRestores
    /\ \E S \in SUBSET (Issued \ Live) : found' = Live \cup S
    /\ restore' = "fetched"
    /\ restores' = restores + 1
    /\ UNCHANGED <<mintVars, storeVars, stranded, payVars, mintingVars, procVars>>

RestoreStore ==
    /\ up
    /\ restore = "fetched"
    /\ restore' = "idle"
    /\ found' = {}
    /\ \/ AddProofs(found) /\ stranded' = stranded \ found
       \/ AddProofsThrows(found) /\ UNCHANGED stranded
    /\ UNCHANGED <<mintVars, recovery, payVars, mintingVars, restores, procVars>>

SaveAll ==
    /\ up
    /\ disk' = vault
    /\ UNCHANGED <<mintVars, vault, recovery, stranded, payVars, mintingVars,
                   restoreVars, procVars>>

Crash ==
    /\ up
    /\ crashes < MaxCrashes
    /\ up' = FALSE
    /\ crashes' = crashes + 1
    /\ stranded' = stranded \cup InHand \cup (vault \ disk)
    /\ vault' = {}
    /\ queue' = <<>>
    /\ pc' = [p \in Payers |-> IF pc[p] \in Inside \cup {"waiting"} THEN "crashed" ELSE pc[p]]
    /\ job' = [m \in Minters |-> IF job[m] = "issued" THEN "lost" ELSE job[m]]
    /\ restore' = "idle"
    /\ found' = {}
    /\ UNCHANGED <<mintVars, disk, recovery, active, keep, hold, change, got, restores>>

\* The boot restores from the seed only a mint whose store is empty.
Boot ==
    /\ ~up
    /\ up' = TRUE
    /\ \/ /\ vault' = disk
          /\ UNCHANGED <<disk, stranded, restores>>
       \/ /\ disk = {}
          /\ restores < MaxRestores
          /\ restores' = restores + 1
          /\ \E S \in SUBSET (Issued \ Live) :
               /\ vault' = Live \cup S
               /\ disk' = Live \cup S
               /\ stranded' = stranded \ (Live \cup S)
    /\ UNCHANGED <<mintVars, recovery, payVars, mintingVars, restore, found, crashes>>

-----------------------------------------------------------------------------
PayStep(p) ==
    \/ Quote(p) \/ ReadProofs(p)
    \/ SendExact(p) \/ SendSwapped(p) \/ SendFails(p) \/ Swap(p)
    \/ MeltPaid(p) \/ MeltUnpaid(p) \/ MeltUnknown(p)
    \/ StoreChange(p) \/ RestoreProofs(p)

Next ==
    \/ \E p \in Payers : Request(p) \/ PayStep(p) \/ PendingSettles(p)
    \/ \E m \in Minters : MintTokens(m) \/ StoreTokens(m)
    \/ RestoreQuery \/ RestoreStore \/ SaveAll \/ Crash \/ Boot

Spec == Init /\ [][Next]_vars

\* Every promise NUTbits awaits settles: the mint answers or the request fails.
Fairness ==
    /\ \A p \in Payers : WF_vars(PayStep(p))
    /\ \A m \in Minters : WF_vars(StoreTokens(m))
    /\ WF_vars(RestoreStore)

FairSpec == Spec /\ Fairness

-----------------------------------------------------------------------------
(* Properties *)

\* Every variable holds a value of its kind.
TypeOK ==
    /\ mint \in [Proofs -> {"none", "unspent", "pending", "spent"}]
    /\ vault \in SUBSET Proofs /\ disk \in SUBSET Proofs
    /\ recovery \in SUBSET Proofs /\ stranded \in SUBSET Proofs
    /\ queue \in Seq(Payers)
    /\ pc \in [Payers -> PayStates]
    /\ active \in [Payers -> SUBSET Proofs]
    /\ keep \in [Payers -> SUBSET Proofs]
    /\ hold \in [Payers -> SUBSET Proofs]
    /\ change \in [Payers -> SUBSET Proofs]
    /\ melt \in [Payers -> {"UNPAID", "PENDING", "PAID"}]
    /\ job \in [Minters -> {"idle", "issued", "done", "lost"}]
    /\ got \in [Minters -> SUBSET Proofs]
    /\ restore \in {"idle", "fetched"}
    /\ found \in SUBSET Proofs
    /\ restores \in Nat /\ crashes \in Nat
    /\ up \in BOOLEAN

\* Two payments never have the same proof in hand: selecting proofs, removing
\* them from the store and handing them to the mint is one critical section
\* per mint, whatever is minted or restored meanwhile.
NoDoubleSelection ==
    \A p, q \in Payers :
        (p # q /\ pc[p] \in Holding /\ pc[q] \in Holding) => hold[p] \cap hold[q] = {}

\* A proof the mint would still honour is in the store, in the hands of a
\* handler on its way to the store, in a recovery file, or was stranded by a
\* named fault: no interleaving of payments, mintings, restores, crashes and
\* boots drops one.  (While the process is down the disk is all there is.)
NoSilentLoss ==
    Live \subseteq vault \cup InHand \cup recovery \cup stranded
                    \cup (IF up THEN {} ELSE disk)

\* Without faults the balance is honest: the store holds no spent proof, but
\* those a payment has just swapped at the mint and is about to remove.
NoPhantomBalance ==
    \A x \in vault : mint[x] = "spent" =>
        \E p \in Payers : pc[p] = "sent" /\ x \in active[p]

\* Success is reported only for an invoice the mint has paid.
SuccessMeansPaid == \A p \in Payers : pc[p] \in {"paid", "ok"} => melt[p] = "PAID"

\* Failure is reported only for an invoice the mint has not paid and is not
\* paying: the client may pay again.
FailureMeansUnpaid == \A p \in Payers : pc[p] = "failed" => melt[p] = "UNPAID"

\* A payment that fails leaves in the store every proof it had read or been
\* given that the mint has not spent.
FailedPaymentGivesBack ==
    [][\A p \in Payers : (pc[p] \in Inside /\ pc'[p] = "failed")
          => (active[p] \cup hold[p]) \cap Live' \subseteq vault']_vars

\* The answers of the mint are final and arrive, and the store can be written.
Definite == Faults \subseteq {"recoveryWrite"}

\* What the caller of a payment knows of it.
Status(p) == IF pc[p] \in Inside \cup {"waiting"} THEN "asked" ELSE pc[p]

\* payInvoice keeps the promise of Payment: answered once, paid at most once,
\* success only when paid; without faults a failure is final.
Promise == INSTANCE Payment WITH status <- [p \in Payers |-> Status(p)]
ImplementsPayment == Promise!Spec

\* The lock is released on every path out of payInvoice: a payment that asked
\* for it is answered, unless the process dies.
EveryPaymentAnswered ==
    \A p \in Payers : pc[p] = "waiting" ~> pc[p] \in {"ok", "failed", "crashed"}
=============================================================================
