--------------------------- MODULE ProofVaultProofs ---------------------------
(* What ProofVault guarantees for every number of proofs, payments and      *)
(* mintings, every amount and every set of faults.                          *)
EXTENDS ProofVault, SequenceTheorems, TLAPS

-----------------------------------------------------------------------------
(* Types *)

\* The initial states are typed.
LEMMA TypeInit == Init => TypeOK
BY ConstantsAssumption DEF Init, TypeOK, PayStates

\* Every step keeps the types.
LEMMA TypeStep == TypeOK /\ [Next]_vars => TypeOK'
<1> SUFFICES ASSUME TypeOK, [Next]_vars PROVE TypeOK'
  OBVIOUS
<1> USE DEF TypeOK, PayStates, Goto, Leave, Locked, AddProofs, AddProofsThrows,
            SwapProofs, SwapProofsThrows, Mark, SwapSign, Fresh, Issued, Live,
            mintVars, storeVars, payVars, mintingVars, restoreVars, procVars
<1>0. /\ queue # <<>> => Tail(queue) \in Seq(Payers)
      /\ \A p \in Payers : Append(queue, p) \in Seq(Payers)
      /\ <<>> \in Seq(Payers)
  BY HeadTailProperties, AppendProperties, EmptySeq
<1>1. ASSUME NEW p \in Payers, Request(p) PROVE TypeOK'
  BY <1>0, <1>1 DEF Request
<1>2. ASSUME NEW p \in Payers, Quote(p) PROVE TypeOK'
  BY <1>0, <1>2 DEF Quote
<1>3. ASSUME NEW p \in Payers, ReadProofs(p) PROVE TypeOK'
  <2>1. active' \in [Payers -> SUBSET Proofs] /\ hold' \in [Payers -> SUBSET Proofs]
    BY <1>3 DEF ReadProofs
  <2>2. pc' \in [Payers -> PayStates] /\ queue' \in Seq(Payers)
    BY <1>0, <1>3 DEF ReadProofs
  <2>3. QED
    BY <1>3, <2>1, <2>2 DEF ReadProofs
<1>4. ASSUME NEW p \in Payers, SendExact(p) PROVE TypeOK'
  BY <1>4 DEF SendExact
<1>5. ASSUME NEW p \in Payers, SendSwapped(p) PROVE TypeOK'
  BY <1>5 DEF SendSwapped, SwappedInputs
<1>6. ASSUME NEW p \in Payers, SendFails(p) PROVE TypeOK'
  BY <1>0, <1>6 DEF SendFails, SwappedInputs
<1>7. ASSUME NEW p \in Payers, Swap(p) PROVE TypeOK'
  BY <1>0, <1>7 DEF Swap, ActiveProofs
<1>8. ASSUME NEW p \in Payers, MeltPaid(p) PROVE TypeOK'
  BY <1>8 DEF MeltPaid
<1>9. ASSUME NEW p \in Payers, MeltUnpaid(p) PROVE TypeOK'
  BY <1>9 DEF MeltUnpaid
<1>10. ASSUME NEW p \in Payers, MeltUnknown(p) PROVE TypeOK'
  <2>1. mint' \in [Proofs -> {"none", "unspent", "pending", "spent"}]
    BY <1>10 DEF MeltUnknown
  <2>2. stranded' \in SUBSET Proofs /\ melt' \in [Payers -> {"UNPAID", "PENDING", "PAID"}]
    BY <1>10 DEF MeltUnknown
  <2>3. pc' \in [Payers -> PayStates]
    BY <1>10 DEF MeltUnknown
  <2>4. QED
    BY <1>10, <2>1, <2>2, <2>3 DEF MeltUnknown
<1>11. ASSUME NEW p \in Payers, StoreChange(p) PROVE TypeOK'
  BY <1>0, <1>11 DEF StoreChange
<1>12. ASSUME NEW p \in Payers, RestoreProofs(p) PROVE TypeOK'
  BY <1>0, <1>12 DEF RestoreProofs
<1>13. ASSUME NEW p \in Payers, PendingSettles(p) PROVE TypeOK'
  <2>1. mint' \in [Proofs -> {"none", "unspent", "pending", "spent"}]
    BY <1>13 DEF PendingSettles
  <2>2. melt' \in [Payers -> {"UNPAID", "PENDING", "PAID"}]
    BY <1>13 DEF PendingSettles
  <2>3. QED
    BY <1>13, <2>1, <2>2 DEF PendingSettles
<1>14. ASSUME NEW m \in Minters, MintTokens(m) PROVE TypeOK'
  BY <1>14 DEF MintTokens
<1>15. ASSUME NEW m \in Minters, StoreTokens(m) PROVE TypeOK'
  BY <1>15 DEF StoreTokens
<1>16. ASSUME RestoreQuery PROVE TypeOK'
  BY <1>16 DEF RestoreQuery
<1>17. ASSUME RestoreStore PROVE TypeOK'
  BY <1>17 DEF RestoreStore
<1>18. ASSUME SaveAll PROVE TypeOK'
  BY <1>18 DEF SaveAll
<1>19. ASSUME Crash PROVE TypeOK'
  <2>1. stranded' \in SUBSET Proofs
    BY <1>19 DEF Crash, InHand
  <2>2. pc' \in [Payers -> PayStates]
    BY <1>19 DEF Crash, Inside
  <2>3. job' \in [Minters -> {"idle", "issued", "done", "lost"}]
    BY <1>19 DEF Crash
  <2>4. queue' \in Seq(Payers)
    BY <1>0, <1>19 DEF Crash
  <2>5. vault' \in SUBSET Proofs /\ found' \in SUBSET Proofs
    BY <1>19 DEF Crash
  <2>6. up' \in BOOLEAN
    BY <1>19 DEF Crash
  <2>7. crashes' \in Nat
    BY <1>19 DEF Crash
  <2>8. QED
    BY <1>19, <2>1, <2>2, <2>3, <2>4, <2>5, <2>6, <2>7 DEF Crash
<1>20. ASSUME Boot PROVE TypeOK'
  BY <1>20 DEF Boot
<1>21. CASE UNCHANGED vars
  BY <1>21 DEF vars
<1>22. QED
  BY <1>1, <1>2, <1>3, <1>4, <1>5, <1>6, <1>7, <1>8, <1>9, <1>10, <1>11, <1>12,
     <1>13, <1>14, <1>15, <1>16, <1>17, <1>18, <1>19, <1>20, <1>21
     DEF Next, PayStep

\* Every reachable state is well typed.
THEOREM TypeCorrect == Spec => []TypeOK
BY TypeInit, TypeStep, PTL DEF Spec

-----------------------------------------------------------------------------
(* The payment lock *)

\* A payment past its quote is the head of the queue of its mint.
LockInv ==
    \A p \in Payers : pc[p] \in Inside => queue # <<>> /\ Head(queue) = p

\* Only the head of the queue goes on, and it leaves when it is done.
LEMMA LockStep == TypeOK /\ LockInv /\ [Next]_vars => LockInv'
<1> SUFFICES ASSUME TypeOK, LockInv, [Next]_vars PROVE LockInv'
  OBVIOUS
<1> USE DEF LockInv, Inside
<1>t. pc \in [Payers -> PayStates] /\ queue \in Seq(Payers)
  BY DEF TypeOK
\* Who leaves the lock was alone in it.
<1>l. ASSUME NEW p \in Payers, NEW s \in {"ok", "failed"}, pc[p] \in Inside \cup {"waiting"},
             queue # <<>>, Head(queue) = p, Leave(p, s)
      PROVE  LockInv'
  BY <1>t, <1>l DEF Leave, Goto
\* Who moves on inside the lock keeps it.
<1>g. ASSUME NEW p \in Payers, NEW s \in PayStates, queue # <<>>, Head(queue) = p,
             Goto(p, s), UNCHANGED queue
      PROVE  LockInv'
  BY <1>t, <1>g DEF Goto
<1>u. ASSUME UNCHANGED <<pc, queue>> PROVE LockInv'
  BY <1>u
<1>1. ASSUME NEW p \in Payers, Request(p) PROVE LockInv'
  <2>1. \A q \in Payers : pc'[q] \in Inside => pc[q] \in Inside
    BY <1>1, <1>t DEF Request, Goto
  <2>2. queue # <<>> => Head(Append(queue, p)) = Head(queue)
    BY <1>t, HeadTailAppend
  <2>3. Append(queue, p) # <<>>
    BY <1>t, AppendProperties
  <2>4. QED
    BY <1>1, <2>1, <2>2, <2>3 DEF Request
<1>2. ASSUME NEW p \in Payers, PayStep(p) PROVE LockInv'
  <2>1. CASE Quote(p)
    BY <2>1, <1>l, <1>g DEF Quote, Locked, PayStates
  <2>2. CASE ReadProofs(p)
    BY <2>2, <1>l, <1>g DEF ReadProofs, Locked, PayStates
  <2>3. CASE SendExact(p) \/ SendSwapped(p)
    BY <2>3, <1>g DEF SendExact, SendSwapped, Locked, PayStates
  <2>4. CASE SendFails(p)
    BY <2>4, <1>l DEF SendFails, Locked
  <2>5. CASE Swap(p)
    BY <2>5, <1>l, <1>g DEF Swap, Locked, PayStates
  <2>6. CASE MeltPaid(p) \/ MeltUnpaid(p) \/ MeltUnknown(p)
    BY <2>6, <1>g DEF MeltPaid, MeltUnpaid, MeltUnknown, Locked, PayStates
  <2>7. CASE StoreChange(p)
    BY <2>7, <1>l, <1>g DEF StoreChange, Locked, PayStates
  <2>8. CASE RestoreProofs(p)
    BY <2>8, <1>l DEF RestoreProofs, Locked
  <2>9. QED
    BY <1>2, <2>1, <2>2, <2>3, <2>4, <2>5, <2>6, <2>7, <2>8 DEF PayStep
<1>3. ASSUME Crash PROVE LockInv'
  BY <1>3, <1>t DEF Crash
<1>4. ASSUME NEW p \in Payers, PendingSettles(p) PROVE LockInv'
  BY <1>4, <1>u DEF PendingSettles, payVars
<1>5. ASSUME NEW m \in Minters, MintTokens(m) \/ StoreTokens(m) PROVE LockInv'
  BY <1>5, <1>u DEF MintTokens, StoreTokens, payVars
<1>6. CASE RestoreQuery \/ RestoreStore \/ SaveAll \/ Boot
  BY <1>6, <1>u DEF RestoreQuery, RestoreStore, SaveAll, Boot, payVars
<1>7. CASE UNCHANGED vars
  BY <1>7, <1>u DEF vars, payVars
<1>8. QED
  BY <1>1, <1>2, <1>3, <1>4, <1>5, <1>6, <1>7 DEF Next

\* Whoever is inside payInvoice is the head of the queue.
LEMMA LockInvariant == Spec => []LockInv
<1>1. Init => LockInv
  BY DEF Init, LockInv, Inside
<1>2. QED
  BY <1>1, TypeCorrect, LockStep, PTL DEF Spec

\* Two payments of one mint never have the same proof in hand, whatever is
\* minted, restored, lost or refused meanwhile.
THEOREM NoDoubleSelectionTheorem == Spec => []NoDoubleSelection
<1>1. LockInv => NoDoubleSelection
  BY DEF LockInv, NoDoubleSelection, Inside, Holding
<1>2. QED
  BY <1>1, LockInvariant, PTL

-----------------------------------------------------------------------------
(* No silent loss *)

\* The proofs NUTbits knows of have been signed by the mint; a proof the mint
\* has signed stays signed.
Signed ==
    /\ vault \subseteq Issued /\ disk \subseteq Issued /\ found \subseteq Issued
    /\ \A p \in Payers : /\ active[p] \subseteq Issued
                         /\ keep[p] \subseteq Issued
                         /\ hold[p] \subseteq Issued
                         /\ change[p] \subseteq Issued
    /\ \A m \in Minters : got[m] \subseteq Issued

\* What a payment is about to remove and the mint still honours, it keeps or
\* hands over; a stopped process has no store in memory.
SwapReady ==
    /\ \A p \in Payers :
          pc[p] = "sent" => active[p] \cap Live \subseteq keep[p] \cup hold[p]
    /\ \A p \in Payers : pc[p] = "sending" => hold[p] \subseteq active[p]
    /\ ~up => vault = {}

LossInv == Signed /\ SwapReady /\ NoSilentLoss

\* The proofs of the initial store are signed.
LEMMA SignedInit == Init => Signed
BY ConstantsAssumption DEF Init, Signed, Issued, Fresh

\* The mint does not take back a signature.
LEMMA IssuedGrows == TypeOK /\ [Next]_vars => Issued \subseteq Issued'
<1> SUFFICES ASSUME TypeOK, [Next]_vars, NEW x \in Proofs, mint[x] # "none"
             PROVE  mint'[x] # "none"
  BY DEF Issued, Fresh
<1>t. mint \in [Proofs -> {"none", "unspent", "pending", "spent"}]
  BY DEF TypeOK
<1>1. ASSUME NEW p \in Payers, PayStep(p) PROVE mint'[x] # "none"
  <2>1. CASE SendSwapped(p)
    BY <2>1, <1>t DEF SendSwapped, SwapSign
  <2>2. CASE SendFails(p)
    BY <2>2, <1>t DEF SendFails, SwapSign
  <2>3. CASE MeltPaid(p)
    BY <2>3, <1>t DEF MeltPaid, SwapSign
  <2>4. CASE MeltUnknown(p)
    BY <2>4, <1>t DEF MeltUnknown, SwapSign, Mark
  <2>5. CASE UNCHANGED mint
    BY <2>5
  <2>6. QED
    BY <1>1, <2>1, <2>2, <2>3, <2>4, <2>5
       DEF PayStep, Quote, ReadProofs, SendExact, Swap, MeltUnpaid, StoreChange,
           RestoreProofs, mintVars
<1>2. ASSUME NEW p \in Payers, Request(p) \/ PendingSettles(p) PROVE mint'[x] # "none"
  BY <1>2, <1>t DEF Request, PendingSettles, Mark, mintVars
<1>3. ASSUME NEW m \in Minters, MintTokens(m) \/ StoreTokens(m) PROVE mint'[x] # "none"
  BY <1>3, <1>t DEF MintTokens, StoreTokens, Mark, mintVars
<1>4. CASE RestoreQuery \/ RestoreStore \/ SaveAll \/ Crash \/ Boot
  BY <1>4 DEF RestoreQuery, RestoreStore, SaveAll, Crash, Boot, mintVars
<1>5. CASE UNCHANGED vars
  BY <1>5 DEF vars, mintVars
<1>6. QED
  BY <1>1, <1>2, <1>3, <1>4, <1>5 DEF Next

\* Proofs come into a variable from the store or from the mint.
LEMMA SignedStep == TypeOK /\ Signed /\ [Next]_vars => Signed'
<1> SUFFICES ASSUME TypeOK, Signed, [Next]_vars PROVE Signed'
  OBVIOUS
<1>t. /\ mint \in [Proofs -> {"none", "unspent", "pending", "spent"}]
      /\ active \in [Payers -> SUBSET Proofs] /\ keep \in [Payers -> SUBSET Proofs]
      /\ hold \in [Payers -> SUBSET Proofs] /\ change \in [Payers -> SUBSET Proofs]
      /\ got \in [Minters -> SUBSET Proofs]
  BY DEF TypeOK
<1>g. Issued \subseteq Issued'
  BY IssuedGrows
\* What the mint signs in a step is signed after it.
<1>s. \A T, S \in SUBSET Proofs : mint' \in {[x \in Proofs |-> IF x \in T THEN "spent"
                ELSE IF x \in S THEN "unspent" ELSE mint[x]]} => S \subseteq Issued'
  BY DEF Issued, Fresh
<1> USE DEF Signed
<1>1. ASSUME NEW p \in Payers, Request(p) PROVE Signed'
  BY <1>1, <1>g DEF Request, storeVars, restoreVars, mintingVars
<1>2. ASSUME NEW p \in Payers, PayStep(p) PROVE Signed'
  <2>1. CASE Quote(p) \/ MeltUnpaid(p)
    BY <2>1, <1>g DEF Quote, MeltUnpaid, storeVars, restoreVars, mintingVars
  <2>2. CASE ReadProofs(p)
    BY <2>2, <1>g, <1>t DEF ReadProofs, storeVars, restoreVars, mintingVars
  <2>3. CASE SendExact(p)
    BY <2>3, <1>g, <1>t DEF SendExact, storeVars, restoreVars, mintingVars
  <2>4. CASE SendSwapped(p)
    <3>1. PICK T \in SwappedInputs(p), S \in SUBSET Fresh, K \in SUBSET Fresh :
            /\ SwapSign(T, S \cup K)
            /\ keep' = [keep EXCEPT ![p] = (active[p] \ T) \cup K]
            /\ hold' = [hold EXCEPT ![p] = S]
      BY <2>4 DEF SendSwapped
    <3>2. S \cup K \subseteq Issued'
      BY <3>1, <1>s, <1>t DEF SwapSign, SwappedInputs, Fresh
    <3>3. QED
      BY <2>4, <3>1, <3>2, <1>g, <1>t DEF SendSwapped, storeVars, restoreVars, mintingVars
  <2>5. CASE SendFails(p)
    BY <2>5, <1>g DEF SendFails, storeVars, restoreVars, mintingVars
  <2>6. CASE Swap(p)
    BY <2>6, <1>g DEF Swap, SwapProofs, SwapProofsThrows, restoreVars, mintingVars
  <2>7. CASE MeltPaid(p)
    <3>1. PICK C \in SUBSET Fresh : /\ SwapSign(hold[p], C)
                                    /\ change' = [change EXCEPT ![p] = C]
      BY <2>7 DEF MeltPaid
    <3>2. C \subseteq Issued'
      BY <3>1, <1>s, <1>t DEF SwapSign, Fresh
    <3>3. QED
      BY <2>7, <3>1, <3>2, <1>g, <1>t DEF MeltPaid, storeVars, restoreVars, mintingVars
  <2>8. CASE MeltUnknown(p)
    BY <2>8, <1>g DEF MeltUnknown, storeVars, restoreVars, mintingVars
  <2>9. CASE StoreChange(p)
    BY <2>9, <1>g DEF StoreChange, AddProofs, AddProofsThrows, restoreVars, mintingVars
  <2>10. CASE RestoreProofs(p)
    BY <2>10, <1>g DEF RestoreProofs, AddProofs, AddProofsThrows, restoreVars, mintingVars
  <2>11. QED
    BY <1>2, <2>1, <2>2, <2>3, <2>4, <2>5, <2>6, <2>7, <2>8, <2>9, <2>10 DEF PayStep
<1>3. ASSUME NEW p \in Payers, PendingSettles(p) PROVE Signed'
  BY <1>3, <1>g DEF PendingSettles, storeVars, payVars, restoreVars, mintingVars
<1>4. ASSUME NEW m \in Minters, MintTokens(m) PROVE Signed'
  <2>1. PICK F \in SUBSET Fresh : /\ mint' = Mark(F, "unspent")
                                  /\ got' = [got EXCEPT ![m] = F] \/ UNCHANGED got
    BY <1>4 DEF MintTokens
  <2>2. F \subseteq Issued'
    BY <2>1 DEF Mark, Issued, Fresh
  <2>3. QED
    BY <1>4, <2>1, <2>2, <1>g, <1>t DEF MintTokens, storeVars, payVars, restoreVars
<1>5. ASSUME NEW m \in Minters, StoreTokens(m) PROVE Signed'
  BY <1>5, <1>g DEF StoreTokens, AddProofs, AddProofsThrows, payVars, restoreVars
<1>6. CASE RestoreQuery
  BY <1>6, <1>g DEF RestoreQuery, storeVars, payVars, mintingVars, Live, Issued, Fresh
<1>7. CASE RestoreStore
  BY <1>7, <1>g DEF RestoreStore, AddProofs, AddProofsThrows, payVars, mintingVars
<1>8. CASE SaveAll
  BY <1>8, <1>g DEF SaveAll, payVars, mintingVars, restoreVars
<1>9. CASE Crash
  BY <1>9, <1>g DEF Crash
<1>10. CASE Boot
  <2>1. Live \subseteq Issued
    BY DEF Live, Issued, Fresh
  <2>2. QED
    BY <1>10, <1>g, <2>1 DEF Boot, payVars, mintingVars
<1>11. CASE UNCHANGED vars
  BY <1>11, <1>g DEF vars, storeVars, payVars, mintingVars, restoreVars
<1>12. QED
  BY <1>1, <1>2, <1>3, <1>4, <1>5, <1>6, <1>7, <1>8, <1>9, <1>10, <1>11 DEF Next

\* A spent proof never becomes good again: what the mint honours after a step
\* and had signed before it, it honoured before it.
LEMMA NoRevival == TypeOK /\ [Next]_vars => Issued \cap Live' \subseteq Live
<1> SUFFICES ASSUME TypeOK, [Next]_vars, NEW x \in Proofs, mint[x] = "spent"
             PROVE  mint'[x] = "spent"
  BY DEF Issued, Fresh, Live, TypeOK
<1>t. mint \in [Proofs -> {"none", "unspent", "pending", "spent"}]
  BY DEF TypeOK
<1>1. ASSUME NEW p \in Payers, PayStep(p) PROVE mint'[x] = "spent"
  <2>1. CASE SendSwapped(p)
    BY <2>1, <1>t DEF SendSwapped, SwapSign, Fresh
  <2>2. CASE SendFails(p)
    BY <2>2, <1>t DEF SendFails, SwapSign, Fresh
  <2>3. CASE MeltPaid(p)
    BY <2>3, <1>t DEF MeltPaid, SwapSign, Fresh
  <2>4. CASE MeltUnknown(p)
    BY <2>4, <1>t DEF MeltUnknown, SwapSign, Mark, Fresh
  <2>5. CASE UNCHANGED mint
    BY <2>5
  <2>6. QED
    BY <1>1, <2>1, <2>2, <2>3, <2>4, <2>5
       DEF PayStep, Quote, ReadProofs, SendExact, Swap, MeltUnpaid, StoreChange,
           RestoreProofs, mintVars
<1>2. ASSUME NEW p \in Payers, Request(p) \/ PendingSettles(p) PROVE mint'[x] = "spent"
  BY <1>2, <1>t DEF Request, PendingSettles, Mark, mintVars
<1>3. ASSUME NEW m \in Minters, MintTokens(m) \/ StoreTokens(m) PROVE mint'[x] = "spent"
  BY <1>3, <1>t DEF MintTokens, StoreTokens, Mark, mintVars, Fresh
<1>4. CASE RestoreQuery \/ RestoreStore \/ SaveAll \/ Crash \/ Boot
  BY <1>4 DEF RestoreQuery, RestoreStore, SaveAll, Crash, Boot, mintVars
<1>5. CASE UNCHANGED vars
  BY <1>5 DEF vars, mintVars
<1>6. QED
  BY <1>1, <1>2, <1>3, <1>4, <1>5 DEF Next

\* Whatever others do meanwhile, what a payment removes is kept, handed over or spent.
LEMMA SwapReadyStep ==
    TypeOK /\ Signed /\ SwapReady /\ [Next]_vars => SwapReady'
<1> SUFFICES ASSUME TypeOK, Signed, SwapReady, [Next]_vars PROVE SwapReady'
  OBVIOUS
<1>t. /\ mint \in [Proofs -> {"none", "unspent", "pending", "spent"}]
      /\ pc \in [Payers -> PayStates]
      /\ active \in [Payers -> SUBSET Proofs] /\ keep \in [Payers -> SUBSET Proofs]
      /\ hold \in [Payers -> SUBSET Proofs]
  BY DEF TypeOK
\* A payment whose own variables do not change stays ready.
<1>q. ASSUME NEW q \in Payers, UNCHANGED <<pc[q], active[q], keep[q], hold[q]>>
      PROVE  /\ pc'[q] = "sent" => active'[q] \cap Live' \subseteq keep'[q] \cup hold'[q]
             /\ pc'[q] = "sending" => hold'[q] \subseteq active'[q]
  BY <1>q, NoRevival DEF SwapReady, Signed
<1>u. ASSUME UNCHANGED payVars, ~up' => vault' = {} PROVE SwapReady'
  BY <1>u, <1>q DEF payVars, SwapReady
<1>1. ASSUME NEW p \in Payers, Request(p) \/ PayStep(p) PROVE SwapReady'
  <2>1. \A q \in Payers \ {p} : UNCHANGED <<pc[q], active[q], keep[q], hold[q]>>
    BY <1>1, <1>t DEF Request, PayStep, Quote, ReadProofs, SendExact, SendSwapped,
       SendFails, Swap, MeltPaid, MeltUnpaid, MeltUnknown, StoreChange, RestoreProofs,
       Goto, Leave
  <2>2. up /\ up'
    BY <1>1 DEF Request, PayStep, Quote, ReadProofs, SendExact, SendSwapped,
       SendFails, Swap, MeltPaid, MeltUnpaid, MeltUnknown, StoreChange, RestoreProofs,
       Locked, procVars
  <2>3. /\ pc'[p] = "sent" => active'[p] \cap Live' \subseteq keep'[p] \cup hold'[p]
        /\ pc'[p] = "sending" => hold'[p] \subseteq active'[p]
    <3>1. CASE ReadProofs(p)
      BY <3>1, <1>t DEF ReadProofs, Leave, Goto
    <3>2. CASE SendExact(p)
      BY <3>2, <1>t DEF SendExact, Goto
    <3>3. CASE SendSwapped(p)
      <4>1. PICK T \in SwappedInputs(p), S \in SUBSET Fresh, K \in SUBSET Fresh :
              /\ SwapSign(T, S \cup K)
              /\ keep' = [keep EXCEPT ![p] = (active[p] \ T) \cup K]
              /\ hold' = [hold EXCEPT ![p] = S]
        BY <3>3 DEF SendSwapped
      <4>2. \A x \in T : x \notin Live'
        BY <4>1, <1>t DEF SwapSign, SwappedInputs, Live
      <4>3. QED
        BY <3>3, <4>1, <4>2, <1>t DEF SendSwapped, Goto
    <3>4. CASE Request(p)
      BY <3>4, <1>t DEF Request, Goto
    <3>5. CASE Quote(p) \/ SendFails(p) \/ Swap(p) \/ MeltPaid(p) \/ MeltUnpaid(p)
               \/ MeltUnknown(p) \/ StoreChange(p) \/ RestoreProofs(p)
      BY <3>5, <1>t DEF Quote, SendFails, Swap, MeltPaid, MeltUnpaid, MeltUnknown,
         StoreChange, RestoreProofs, Goto, Leave
    <3>6. QED
      BY <1>1, <3>1, <3>2, <3>3, <3>4, <3>5 DEF PayStep
  <2>4. QED
    BY <2>1, <2>2, <2>3, <1>q DEF SwapReady
<1>2. ASSUME NEW p \in Payers, PendingSettles(p) PROVE SwapReady'
  BY <1>2, <1>u DEF PendingSettles, storeVars, procVars, SwapReady
<1>3. ASSUME NEW m \in Minters, MintTokens(m) \/ StoreTokens(m) PROVE SwapReady'
  BY <1>3, <1>u DEF MintTokens, StoreTokens, procVars
<1>4. CASE RestoreQuery \/ RestoreStore \/ SaveAll \/ Boot
  BY <1>4, <1>u DEF RestoreQuery, RestoreStore, SaveAll, Boot, procVars
<1>5. CASE Crash
  BY <1>5, <1>t DEF Crash, SwapReady, Inside
<1>6. CASE UNCHANGED vars
  BY <1>6, <1>u DEF vars, storeVars, procVars, SwapReady
<1>7. QED
  BY <1>1, <1>2, <1>3, <1>4, <1>5, <1>6 DEF Next

\* Where a proof may be.
Whereabouts ==
    vault \cup InHand \cup recovery \cup stranded \cup (IF up THEN {} ELSE disk)

\* A payment that read the store's own array removes nothing but what it read.
SharedInv ==
    LiveArray => \A p \in Payers : pc[p] \in {"sending", "sent"} => vault \subseteq active[p]

\* Tokens arrive in the array that a payment has read and is about to remove.
ArrivesUnderPayment ==
    LiveArray /\ \E p \in Payers : /\ pc[p] \in {"sending", "sent"} /\ pc'[p] = pc[p]
                                  /\ ~(vault' \subseteq vault)

\* While nothing arrives under a payment it has read all that it removes.
LEMMA SharedStep ==
    TypeOK /\ SharedInv /\ [Next]_vars /\ ~ArrivesUnderPayment => SharedInv'
<1> SUFFICES ASSUME TypeOK, SharedInv, [Next]_vars, ~ArrivesUnderPayment, LiveArray,
                    NEW p \in Payers, pc'[p] \in {"sending", "sent"}
             PROVE  vault' \subseteq active'[p]
  BY DEF SharedInv
<1>t. pc \in [Payers -> PayStates] /\ active \in [Payers -> SUBSET Proofs]
  BY DEF TypeOK
<1>1. CASE pc'[p] = pc[p] /\ active'[p] = active[p]
  BY <1>1 DEF SharedInv, ArrivesUnderPayment
<1>2. CASE ReadProofs(p)
  BY <1>2, <1>t DEF ReadProofs, Leave, Goto, storeVars
<1>3. CASE SendExact(p) \/ SendSwapped(p)
  BY <1>3, <1>t DEF SendExact, SendSwapped, Locked, Goto, storeVars, SharedInv
<1>4. ASSUME NEW q \in Payers, Request(q) \/ PayStep(q) \/ PendingSettles(q)
      PROVE  \/ pc'[p] = pc[p] /\ active'[p] = active[p]
             \/ ReadProofs(p) \/ SendExact(p) \/ SendSwapped(p)
  BY <1>4, <1>t DEF Request, PayStep, Quote, ReadProofs, SendExact, SendSwapped,
     SendFails, Swap, MeltPaid, MeltUnpaid, MeltUnknown, StoreChange, RestoreProofs,
     PendingSettles, Goto, Leave, payVars
<1>5. ASSUME NEW m \in Minters, MintTokens(m) \/ StoreTokens(m)
      PROVE  pc'[p] = pc[p] /\ active'[p] = active[p]
  BY <1>5 DEF MintTokens, StoreTokens, payVars
<1>6. CASE RestoreQuery \/ RestoreStore \/ SaveAll \/ Boot
  BY <1>1, <1>6 DEF RestoreQuery, RestoreStore, SaveAll, Boot, payVars
<1>7. CASE Crash
  BY <1>7, <1>t DEF Crash, Inside
<1>8. CASE UNCHANGED vars
  BY <1>1, <1>8 DEF vars, payVars
<1>9. QED
  BY <1>1, <1>2, <1>3, <1>4, <1>5, <1>6, <1>7, <1>8 DEF Next

\* A step loses a live proof only by removing what it has not read.
LEMMA NoSilentLossStep == TypeOK /\ LossInv /\ SharedInv /\ [Next]_vars => NoSilentLoss'
<1> SUFFICES ASSUME TypeOK, LossInv, SharedInv, [Next]_vars,
                    NEW x \in Proofs, x \in Live'
             PROVE  x \in Whereabouts'
  BY DEF NoSilentLoss, Whereabouts, Live
<1>t. /\ mint \in [Proofs -> {"none", "unspent", "pending", "spent"}]
      /\ pc \in [Payers -> PayStates] /\ job \in [Minters -> {"idle", "issued", "done", "lost"}]
      /\ active \in [Payers -> SUBSET Proofs] /\ keep \in [Payers -> SUBSET Proofs]
      /\ hold \in [Payers -> SUBSET Proofs] /\ change \in [Payers -> SUBSET Proofs]
      /\ got \in [Minters -> SUBSET Proofs]
  BY DEF TypeOK
\* Either the mint honoured it before, and then it was somewhere ...
<1>o. x \in Live => x \in Whereabouts
  BY DEF LossInv, NoSilentLoss, Whereabouts
\* ... or the mint has signed it in this step.
<1>n. x \notin Live => x \in Fresh
  BY NoRevival DEF Issued
<1>1. ASSUME NEW p \in Payers, Request(p) PROVE x \in Whereabouts'
  BY <1>1, <1>o, <1>t DEF Request, Whereabouts, InHand, Goto, Holding, mintVars,
     storeVars, mintingVars, procVars, Live
<1>2. ASSUME NEW p \in Payers, PayStep(p) PROVE x \in Whereabouts'
  <2>a. up /\ up'
    BY <1>2 DEF PayStep, Quote, ReadProofs, SendExact, SendSwapped, SendFails, Swap,
       MeltPaid, MeltUnpaid, MeltUnknown, StoreChange, RestoreProofs, Locked, procVars
  <2>h. \A q \in Payers \ {p} : UNCHANGED <<pc[q], keep[q], hold[q], change[q]>>
    BY <1>2, <1>t DEF PayStep, Quote, ReadProofs, SendExact, SendSwapped, SendFails,
       Swap, MeltPaid, MeltUnpaid, MeltUnknown, StoreChange, RestoreProofs, Goto, Leave
  <2>j. UNCHANGED mintingVars
    BY <1>2 DEF PayStep, Quote, ReadProofs, SendExact, SendSwapped, SendFails, Swap,
       MeltPaid, MeltUnpaid, MeltUnknown, StoreChange, RestoreProofs
  \* What another handler has in hand stays there.
  <2>i. \/ x \in InHand /\ x \in InHand'
        \/ x \notin InHand
        \/ /\ x \in InHand
           /\ \/ pc[p] \in Holding /\ x \in hold[p]
              \/ pc[p] = "sent" /\ x \in keep[p]
              \/ pc[p] = "paid" /\ x \in change[p]
    BY <2>h, <2>j DEF InHand, mintingVars
  <2>1. CASE Quote(p) \/ ReadProofs(p) \/ SendExact(p)
    <3>1. x \in Live /\ UNCHANGED <<vault, recovery, stranded>> /\ pc[p] \notin Holding \cup {"paid"}
      BY <2>1 DEF Quote, ReadProofs, SendExact, Live, mintVars, storeVars, Locked, Holding
    <3>2. QED
      BY <3>1, <1>o, <2>a, <2>i DEF Whereabouts, Holding
  <2>2. CASE SendSwapped(p)
    <3>1. PICK T \in SwappedInputs(p), S \in SUBSET Fresh, K \in SUBSET Fresh :
            /\ SwapSign(T, S \cup K)
            /\ keep' = [keep EXCEPT ![p] = (active[p] \ T) \cup K]
            /\ hold' = [hold EXCEPT ![p] = S]
      BY <2>2 DEF SendSwapped
    <3>2. pc[p] = "sending" /\ pc' = [pc EXCEPT ![p] = "sent"]
      BY <2>2 DEF SendSwapped, Locked, Goto
    <3>3. CASE x \in S \cup K
      BY <3>1, <3>2, <3>3, <1>t DEF Whereabouts, InHand, Holding
    <3>4. CASE x \notin S \cup K
      <4>1. x \in Live
        BY <3>1, <3>4, <1>t DEF SwapSign, Live, SwappedInputs
      <4>2. QED
        BY <2>2, <3>2, <4>1, <1>o, <2>a, <2>i DEF SendSwapped, Whereabouts, storeVars, Holding
    <3>5. QED
      BY <3>3, <3>4
  <2>3. CASE SendFails(p)
    <3>1. pc[p] \notin Holding \cup {"paid"} /\ UNCHANGED <<vault, recovery>>
            /\ stranded \subseteq stranded'
      BY <2>3 DEF SendFails, Locked, Holding, storeVars
    <3>2. CASE x \in Live
      BY <3>1, <3>2, <1>o, <2>a, <2>i DEF Whereabouts, Holding
    <3>3. CASE x \notin Live
      BY <2>3, <3>3, <1>n, <1>t DEF SendFails, SwapSign, Whereabouts, Live, SwappedInputs
    <3>4. QED
      BY <3>2, <3>3
  <2>4. CASE Swap(p)
    <3>1. pc[p] = "sent" /\ x \in Live
      BY <2>4 DEF Swap, Locked, mintVars, Live
    <3>2. x \in active[p] => x \in keep[p] \cup hold[p]
      BY <3>1 DEF LossInv, SwapReady
    <3>r. ActiveProofs(p) \subseteq active[p]
      BY <3>1 DEF ActiveProofs, SharedInv
    <3>3. CASE /\ SwapProofs(ActiveProofs(p), keep[p]) /\ pc' = [pc EXCEPT ![p] = "melting"]
               /\ UNCHANGED stranded
      <4>1. x \in hold[p] => x \in InHand'
        BY <2>4, <3>3, <1>t DEF Swap, InHand, Holding
      <4>2. QED
        BY <2>4, <3>r, <3>1, <3>2, <3>3, <4>1, <1>o, <2>a, <2>i
           DEF Swap, SwapProofs, Whereabouts, Holding
    <3>4. CASE /\ vault \ ActiveProofs(p) \subseteq vault'
               /\ stranded' = stranded \cup hold[p] \cup keep[p]
      BY <2>4, <3>r, <3>1, <3>2, <3>4, <1>o, <2>a, <2>i DEF Swap, Whereabouts
    <3>5. QED
      BY <2>4, <3>3, <3>4 DEF Swap, SwapProofsThrows, Goto
  <2>5. CASE MeltPaid(p)
    <3>1. PICK C \in SUBSET Fresh : /\ SwapSign(hold[p], C)
                                    /\ change' = [change EXCEPT ![p] = C]
      BY <2>5 DEF MeltPaid
    <3>2. pc[p] = "melting" /\ pc' = [pc EXCEPT ![p] = "paid"]
      BY <2>5 DEF MeltPaid, Locked, Goto
    <3>3. CASE x \in C
      BY <3>1, <3>2, <3>3, <1>t DEF Whereabouts, InHand
    <3>4. CASE x \notin C
      <4>1. x \in Live /\ x \notin hold[p]
        BY <3>1, <3>4, <1>t DEF SwapSign, Live
      <4>2. QED
        BY <2>5, <3>2, <4>1, <1>o, <2>a, <2>i DEF MeltPaid, Whereabouts, storeVars
    <3>5. QED
      BY <3>3, <3>4
  <2>6. CASE MeltUnpaid(p)
    <3>1. x \in Live /\ UNCHANGED <<vault, recovery, stranded, hold, change, keep>>
            /\ pc[p] = "melting" /\ pc' = [pc EXCEPT ![p] = "restoring"]
      BY <2>6 DEF MeltUnpaid, Live, mintVars, storeVars, Locked, Goto
    <3>2. pc[p] \in Holding /\ x \in hold[p] => x \in InHand'
      BY <3>1, <1>t DEF InHand, Holding
    <3>3. QED
      BY <3>1, <3>2, <1>o, <2>a, <2>i DEF Whereabouts
  <2>7. CASE MeltUnknown(p)
    <3>1. UNCHANGED <<vault, recovery, hold, change, keep>> /\ stranded \subseteq stranded'
            /\ pc[p] = "melting" /\ pc' = [pc EXCEPT ![p] = "restoring"]
      BY <2>7 DEF MeltUnknown, storeVars, Locked, Goto
    <3>2. x \in hold[p] => x \in InHand'
      BY <3>1, <1>t DEF InHand, Holding
    <3>3. CASE x \in Live
      BY <3>1, <3>2, <3>3, <1>o, <2>a, <2>i DEF Whereabouts
    <3>4. CASE x \notin Live
      BY <2>7, <3>2, <3>4, <1>n, <1>t DEF MeltUnknown, SwapSign, Mark, Whereabouts, Live
    <3>5. QED
      BY <3>3, <3>4
  <2>8. CASE StoreChange(p)
    <3>1. x \in Live /\ pc[p] = "paid" /\ UNCHANGED <<recovery, hold, keep, change>>
      BY <2>8 DEF StoreChange, Live, mintVars, Locked
    <3>2. vault \subseteq vault' /\ stranded \subseteq stranded'
            /\ change[p] \subseteq vault' \cup stranded'
      BY <2>8 DEF StoreChange, AddProofs, AddProofsThrows
    <3>3. QED
      BY <3>1, <3>2, <1>o, <2>a, <2>i DEF Whereabouts, Holding
  <2>9. CASE RestoreProofs(p)
    <3>1. x \in Live /\ pc[p] = "restoring"
      BY <2>9 DEF RestoreProofs, Live, mintVars, Locked
    <3>2. /\ vault \subseteq vault' /\ stranded \subseteq stranded' /\ recovery \subseteq recovery'
          /\ hold[p] \subseteq vault' \cup stranded' \cup recovery'
      BY <2>9 DEF RestoreProofs, AddProofs, AddProofsThrows
    <3>3. QED
      BY <3>1, <3>2, <1>o, <2>a, <2>i DEF Whereabouts
  <2>10. QED
    BY <1>2, <2>1, <2>2, <2>3, <2>4, <2>5, <2>6, <2>7, <2>8, <2>9 DEF PayStep
<1>3. ASSUME NEW p \in Payers, PendingSettles(p) PROVE x \in Whereabouts'
  <2>1. x \in Live
    BY <1>3, <1>t DEF PendingSettles, Mark, Live
  <2>2. QED
    BY <1>3, <2>1, <1>o DEF PendingSettles, Whereabouts, InHand, storeVars, payVars,
       mintingVars, procVars
<1>4. ASSUME NEW m \in Minters, MintTokens(m) PROVE x \in Whereabouts'
  <2>1. PICK F \in SUBSET Fresh :
          /\ mint' = Mark(F, "unspent")
          /\ \/ got' = [got EXCEPT ![m] = F] /\ job' = [job EXCEPT ![m] = "issued"]
                  /\ UNCHANGED stranded
             \/ /\ stranded' = stranded \cup F
                /\ job' = [job EXCEPT ![m] = "lost"]
                /\ UNCHANGED got
    BY <1>4 DEF MintTokens
  <2>2. CASE x \in F
    BY <2>1, <2>2, <1>t DEF Whereabouts, InHand
  <2>3. CASE x \notin F
    <3>1. x \in Live
      BY <2>1, <2>3, <1>t DEF Mark, Live
    <3>2. x \in InHand => x \in InHand'
      BY <1>4, <2>1, <1>t DEF MintTokens, InHand, payVars
    <3>3. QED
      BY <1>4, <2>1, <3>1, <3>2, <1>o DEF MintTokens, Whereabouts, storeVars, procVars
  <2>4. QED
    BY <2>2, <2>3
<1>5. ASSUME NEW m \in Minters, StoreTokens(m) PROVE x \in Whereabouts'
  <2>1. x \in Live /\ up /\ job[m] = "issued"
    BY <1>5 DEF StoreTokens, Live, mintVars
  <2>2. /\ vault \subseteq vault' /\ stranded \subseteq stranded'
        /\ got[m] \subseteq vault' \cup stranded' /\ UNCHANGED recovery
    BY <1>5 DEF StoreTokens, AddProofs, AddProofsThrows
  <2>3. x \in InHand => x \in InHand' \cup got[m]
    BY <1>5, <1>t DEF StoreTokens, InHand, payVars
  <2>4. QED
    BY <2>1, <2>2, <2>3, <1>o DEF Whereabouts
<1>6. CASE RestoreQuery \/ SaveAll
  BY <1>6, <1>o DEF RestoreQuery, SaveAll, Whereabouts, InHand, Live, mintVars, storeVars,
     payVars, mintingVars, procVars
<1>7. CASE RestoreStore
  BY <1>7, <1>o DEF RestoreStore, AddProofs, AddProofsThrows, Whereabouts, InHand, Live,
     mintVars, payVars, mintingVars, procVars
<1>8. CASE Crash
  BY <1>8, <1>o DEF Crash, Whereabouts, Live, mintVars
<1>9. CASE Boot
  <2>1. x \in Live /\ x \in InHand' \cup recovery' \cup stranded \cup disk
    BY <1>9, <1>o DEF Boot, Whereabouts, InHand, Live, mintVars, payVars, mintingVars,
       LossInv, SwapReady
  <2>2. QED
    BY <1>9, <2>1 DEF Boot, Whereabouts
<1>10. CASE UNCHANGED vars
  BY <1>10, <1>o DEF vars, Whereabouts, InHand, Live, mintVars, storeVars, payVars,
     mintingVars, procVars
<1>11. QED
  BY <1>1, <1>2, <1>3, <1>4, <1>5, <1>6, <1>7, <1>8, <1>9, <1>10 DEF Next

\* What a handler or the store had, it still has, or a named fault took it.
LossWithShared == LossInv /\ SharedInv

\* A step keeps the invariant unless tokens arrive under a payment.
LEMMA LossStep ==
    TypeOK /\ LossWithShared /\ [Next]_vars /\ [~ArrivesUnderPayment]_vars => LossWithShared'
<1> SUFFICES ASSUME TypeOK, LossInv, SharedInv, [Next]_vars, [~ArrivesUnderPayment]_vars
             PROVE  LossInv' /\ SharedInv'
  BY DEF LossWithShared
<1>1. ~ArrivesUnderPayment
  BY DEF ArrivesUnderPayment, vars, storeVars
<1>2. QED
  BY <1>1, SignedStep, SwapReadyStep, NoSilentLossStep, SharedStep DEF LossInv

\* The first state has lost nothing.
LEMMA LossInit == Init => LossWithShared
BY SignedInit DEF Init, LossWithShared, LossInv, SharedInv, SwapReady, NoSilentLoss, Live

\* On either kind of store, under any of the faults, a proof the mint would
\* still honour is silently lost in one way only: tokens are minted or restored
\* into the file store's array between a payment's read and its swap.
THEOREM NoSilentLossUndisturbed ==
    Spec /\ [][~ArrivesUnderPayment]_vars => []NoSilentLoss
<1>1. LossWithShared => NoSilentLoss
  BY DEF LossWithShared, LossInv
<1>2. QED
  BY <1>1, LossInit, LossStep, TypeCorrect, PTL DEF Spec

\* With a store that hands out copies (SQLite, MySQL) no interleaving of
\* payments, mintings, restores, crashes and boots, under any of the faults,
\* silently drops a proof the mint would still honour.
THEOREM NoSilentLossTheorem ==
    ASSUME ~LiveArray
    PROVE  Spec => []NoSilentLoss
<1>1. [Next]_vars => [~ArrivesUnderPayment]_vars
  BY DEF ArrivesUnderPayment
<1>2. Spec => [][~ArrivesUnderPayment]_vars
  BY <1>1, PTL DEF Spec
<1>3. QED
  BY <1>2, NoSilentLossUndisturbed, PTL

-----------------------------------------------------------------------------
(* A payment keeps the promise of Payment *)

\* Where the mint stands with an invoice, by where its payment stands.
PaymentInv ==
    \A p \in Payers :
        /\ pc[p] \in {"idle", "waiting", "quoted", "sending", "sent", "melting"} =>
             melt[p] = "UNPAID"
        /\ pc[p] \in {"paid", "ok"} => melt[p] = "PAID"
        /\ Definite => melt[p] # "PENDING"
        /\ Definite /\ pc[p] \in {"restoring", "failed"} => melt[p] = "UNPAID"

\* Without faults every write of the store succeeds and every answer is final.
LEMMA NoFault == ASSUME Definite, NEW f \in {"lostAnswer", "pendingMelt", "storeWrite"}
                 PROVE  f \notin Faults
BY DEF Definite

\* The mint's state of a quote moves with its payment only.
LEMMA PaymentStep == TypeOK /\ PaymentInv /\ [Next]_vars => PaymentInv'
<1> SUFFICES ASSUME TypeOK, PaymentInv, [Next]_vars PROVE PaymentInv'
  OBVIOUS
<1>t. /\ pc \in [Payers -> PayStates]
      /\ melt \in [Payers -> {"UNPAID", "PENDING", "PAID"}]
  BY DEF TypeOK
<1> DEFINE Fits(q) ==
        /\ pc[q] \in {"idle", "waiting", "quoted", "sending", "sent", "melting"} =>
             melt[q] = "UNPAID"
        /\ pc[q] \in {"paid", "ok"} => melt[q] = "PAID"
        /\ Definite => melt[q] # "PENDING"
        /\ Definite /\ pc[q] \in {"restoring", "failed"} => melt[q] = "UNPAID"
<1>f. \A q \in Payers : Fits(q)
  BY DEF PaymentInv
\* Only the payment that moves has to be looked at.
<1>m. ASSUME NEW p \in Payers, \A q \in Payers \ {p} : UNCHANGED <<pc[q], melt[q]>>,
             Fits(p)'
      PROVE  PaymentInv'
  BY <1>m, <1>f DEF PaymentInv
<1>u. ASSUME UNCHANGED <<pc, melt>> PROVE PaymentInv'
  BY <1>u, <1>f DEF PaymentInv
<1>1. ASSUME NEW p \in Payers, Request(p) PROVE PaymentInv'
  <2>1. \A q \in Payers \ {p} : UNCHANGED <<pc[q], melt[q]>>
    BY <1>1, <1>t DEF Request, Goto, mintVars
  <2>2. Fits(p)'
    BY <1>1, <1>t, <1>f DEF Request, Goto, mintVars
  <2>3. QED
    BY <1>m, <2>1, <2>2
<1>2. ASSUME NEW p \in Payers, PayStep(p) PROVE PaymentInv'
  <2>1. \A q \in Payers \ {p} : UNCHANGED <<pc[q], melt[q]>>
    BY <1>2, <1>t DEF PayStep, Quote, ReadProofs, SendExact, SendSwapped, SendFails, Swap,
       MeltPaid, MeltUnpaid, MeltUnknown, StoreChange, RestoreProofs, Goto, Leave, mintVars
  <2>2. CASE Quote(p) \/ ReadProofs(p) \/ SendExact(p) \/ SendSwapped(p) \/ SendFails(p)
             \/ Swap(p) \/ MeltUnpaid(p)
    <3>1. melt[p] = "UNPAID" /\ melt'[p] = "UNPAID"
      BY <2>2, <1>t, <1>f DEF Quote, ReadProofs, SendExact, SendSwapped, SendFails, Swap,
         MeltUnpaid, Locked, mintVars
    <3>2. pc'[p] \notin {"paid", "ok"}
      BY <2>2, <1>t DEF Quote, ReadProofs, SendExact, SendSwapped, SendFails, Swap,
         MeltUnpaid, Goto, Leave
    <3>3. Fits(p)'
      BY <3>1, <3>2
    <3>4. QED
      BY <1>m, <2>1, <3>3
  <2>3. CASE MeltPaid(p)
    <3>1. melt'[p] = "PAID" /\ pc'[p] = "paid"
      BY <2>3, <1>t DEF MeltPaid, Goto
    <3>2. QED
      BY <1>m, <2>1, <3>1
  <2>4. CASE MeltUnknown(p)
    <3>1. ~Definite /\ pc'[p] = "restoring"
      BY <2>4, <1>t, NoFault DEF MeltUnknown, Goto
    <3>2. QED
      BY <1>m, <2>1, <3>1 DEF Definite
  <2>5. CASE StoreChange(p)
    <3>1. melt[p] = "PAID" /\ melt'[p] = "PAID"
      BY <2>5, <1>t, <1>f DEF StoreChange, Locked, mintVars
    <3>2. pc'[p] = "ok" \/ (pc'[p] = "restoring" /\ ~Definite)
      BY <2>5, <1>t, NoFault DEF StoreChange, Goto, Leave, AddProofsThrows
    <3>3. Fits(p)'
      BY <3>1, <3>2 DEF Definite
    <3>4. QED
      BY <1>m, <2>1, <3>3
  <2>6. CASE RestoreProofs(p)
    <3>1. pc[p] = "restoring" /\ pc'[p] = "failed" /\ melt'[p] = melt[p]
      BY <2>6, <1>t DEF RestoreProofs, Locked, Goto, Leave, mintVars
    <3>2. Fits(p)'
      BY <3>1, <1>f DEF Definite
    <3>3. QED
      BY <1>m, <2>1, <3>2
  <2>7. QED
    BY <1>2, <2>2, <2>3, <2>4, <2>5, <2>6 DEF PayStep
<1>3. ASSUME NEW p \in Payers, PendingSettles(p) PROVE PaymentInv'
  <2>1. ~Definite /\ melt[p] = "PENDING"
    BY <1>3, <1>f DEF PendingSettles
  <2>2. \A q \in Payers \ {p} : UNCHANGED <<pc[q], melt[q]>>
    BY <1>3, <1>t DEF PendingSettles, payVars
  <2>3. pc'[p] = pc[p] /\ pc[p] \in PayStates
    BY <1>3, <1>t DEF PendingSettles, payVars
  <2>4. pc[p] \in {"restoring", "failed", "crashed"}
    BY <2>1, <2>3, <1>f DEF PayStates
  <2>5. QED
    BY <1>m, <2>1, <2>2, <2>3, <2>4 DEF Definite
<1>4. ASSUME NEW m \in Minters, MintTokens(m) \/ StoreTokens(m) PROVE PaymentInv'
  BY <1>4, <1>u DEF MintTokens, StoreTokens, mintVars, payVars
<1>5. CASE RestoreQuery \/ RestoreStore \/ SaveAll \/ Boot
  BY <1>5, <1>u DEF RestoreQuery, RestoreStore, SaveAll, Boot, mintVars, payVars
<1>6. CASE Crash
  <2>1. \A q \in Payers : (pc'[q] = "crashed" \/ pc'[q] = pc[q]) /\ melt'[q] = melt[q]
    BY <1>6, <1>t DEF Crash, mintVars
  <2>2. QED
    BY <2>1, <1>f DEF PaymentInv, Definite
<1>7. CASE UNCHANGED vars
  BY <1>7, <1>u DEF vars, mintVars, payVars
<1>8. QED
  BY <1>1, <1>2, <1>3, <1>4, <1>5, <1>6, <1>7 DEF Next

\* In every reachable state the mint stands where PaymentInv says.
LEMMA PaymentInvariant == Spec => []PaymentInv
<1>1. Init => PaymentInv
  BY DEF Init, PaymentInv
<1>2. QED
  BY <1>1, TypeCorrect, PaymentStep, PTL DEF Spec

\* Without faults a client that is told of a failure may pay again: the mint
\* neither has paid the invoice nor has it under way.  With any fault success
\* still means paid.
THEOREM FailureMeansUnpaidTheorem ==
    /\ Spec => []SuccessMeansPaid
    /\ Definite => (Spec => []FailureMeansUnpaid)
<1>1. PaymentInv => SuccessMeansPaid
  BY DEF PaymentInv, SuccessMeansPaid
<1>2. ASSUME Definite PROVE PaymentInv => FailureMeansUnpaid
  BY <1>2 DEF PaymentInv, FailureMeansUnpaid
<1>3. Spec => []SuccessMeansPaid
  BY <1>1, PaymentInvariant, PTL
<1>4. ASSUME Definite PROVE Spec => []FailureMeansUnpaid
  <2>1. PaymentInv => FailureMeansUnpaid
    BY <1>2, <1>4
  <2>2. QED
    BY <2>1, PaymentInvariant, PTL
<1>5. QED
  BY <1>3, <1>4

\* The calls as the caller sees them.
Statuses == [p \in Payers |-> Status(p)]

\* When one payment moves on, its caller sees it move on, or nothing.
LEMMA StatusMoves ==
    ASSUME TypeOK, NEW p \in Payers, NEW s, Goto(p, s)
    PROVE  Statuses' = [Statuses EXCEPT ![p] = IF s \in Inside \cup {"waiting"} THEN "asked" ELSE s]
BY DEF TypeOK, Statuses, Status, Goto

\* Every step of the proofs' model is one step of a payment, or none.
LEMMA PromiseStep == TypeOK /\ PaymentInv /\ [Next]_vars => [Promise!Next]_(Promise!vars)
<1> SUFFICES ASSUME TypeOK, PaymentInv, [Next]_vars
             PROVE  Promise!Next \/ UNCHANGED <<Statuses, melt>>
  BY DEF Promise!vars, Statuses
<1>t. /\ pc \in [Payers -> PayStates]
      /\ melt \in [Payers -> {"UNPAID", "PENDING", "PAID"}]
  BY DEF TypeOK
<1>a. ASSUME NEW p \in Payers, pc[p] \in Inside \cup {"waiting"} PROVE Statuses[p] = "asked"
  BY <1>a DEF Statuses, Status
\* It moves on inside payInvoice: the caller still waits.
<1>i. ASSUME NEW p \in Payers, pc[p] \in Inside \cup {"waiting"}, NEW s \in Inside, Goto(p, s)
      PROVE  Statuses' = Statuses
  <2>1. Statuses' = [Statuses EXCEPT ![p] = "asked"]
    BY <1>i, StatusMoves
  <2>2. QED
    BY <2>1, <1>i, <1>a DEF Statuses
\* It fails, and the promise of a failure is kept.
<1>f. ASSUME NEW p \in Payers, pc[p] \in Inside \cup {"waiting"}, Goto(p, "failed"),
             UNCHANGED melt, Definite => melt[p] = "UNPAID"
      PROVE  Promise!Next
  <2>1. Statuses' = [Statuses EXCEPT ![p] = "failed"]
    BY <1>f, StatusMoves DEF Inside
  <2>2. Promise!Fail(p)
    BY <2>1, <1>f, <1>a DEF Promise!Fail, Promise!Turn, Statuses
  <2>3. QED
    BY <2>2 DEF Promise!Next
<1>u. ASSUME UNCHANGED <<pc, melt>> PROVE UNCHANGED <<Statuses, melt>>
  BY <1>u DEF Statuses, Status
<1>1. ASSUME NEW p \in Payers, Request(p) PROVE Promise!Next
  <2>1. Statuses[p] = "idle" /\ Statuses' = [Statuses EXCEPT ![p] = "asked"]
    BY <1>1, StatusMoves DEF Request, Statuses, Status, Inside
  <2>2. Promise!Ask(p)
    BY <1>1, <2>1 DEF Promise!Ask, Promise!Turn, Statuses, Request, mintVars
  <2>3. QED
    BY <2>2 DEF Promise!Next
<1>2. ASSUME NEW p \in Payers, PayStep(p) PROVE Promise!Next \/ UNCHANGED <<Statuses, melt>>
  <2>l. pc[p] \in Inside \cup {"waiting"}
    BY <1>2 DEF PayStep, Quote, ReadProofs, SendExact, SendSwapped, SendFails, Swap,
       MeltPaid, MeltUnpaid, MeltUnknown, StoreChange, RestoreProofs, Locked, Inside
  <2>1. CASE Quote(p) \/ ReadProofs(p) \/ SendExact(p) \/ SendSwapped(p) \/ SendFails(p)
             \/ Swap(p) \/ MeltUnpaid(p)
    <3>1. melt[p] = "UNPAID" /\ UNCHANGED melt
      BY <2>1, <1>t DEF PaymentInv, Quote, ReadProofs, SendExact, SendSwapped, SendFails,
         Swap, MeltUnpaid, Locked, mintVars
    <3>2. Goto(p, "failed") \/ \E s \in Inside : Goto(p, s)
      BY <2>1 DEF Quote, ReadProofs, SendExact, SendSwapped, SendFails, Swap, MeltUnpaid,
         Leave, Inside
    <3>3. QED
      BY <2>l, <3>1, <3>2, <1>f, <1>i
  <2>2. CASE MeltPaid(p) \/ MeltUnknown(p)
    <3>1. Statuses' = Statuses
      BY <2>2, <2>l, <1>i DEF MeltPaid, MeltUnknown, Inside
    <3>2. melt[p] = "UNPAID"
      BY <2>2, <1>t DEF PaymentInv, MeltPaid, MeltUnknown, Locked
    <3>3. \/ melt' = [melt EXCEPT ![p] = "PAID"]
          \/ ~Definite /\ melt' = [melt EXCEPT ![p] = "PENDING"]
      BY <2>2, NoFault DEF MeltPaid, MeltUnknown
    <3>4. Promise!Pay(p)
      BY <2>l, <3>1, <3>2, <3>3, <1>a DEF Promise!Pay, Promise!Becomes, Statuses
    <3>5. QED
      BY <3>4 DEF Promise!Next
  <2>3. CASE StoreChange(p)
    <3>1. melt[p] = "PAID" /\ UNCHANGED melt
      BY <2>3 DEF PaymentInv, StoreChange, Locked, mintVars
    <3>2. CASE Goto(p, "restoring")
      BY <2>l, <3>1, <3>2, <1>i DEF Inside
    <3>3. CASE Goto(p, "ok")
      <4>1. Statuses' = [Statuses EXCEPT ![p] = "ok"]
        BY <3>3, StatusMoves DEF Inside
      <4>2. Promise!Succeed(p)
        BY <2>l, <3>1, <4>1, <1>a DEF Promise!Succeed, Promise!Turn, Statuses
      <4>3. QED
        BY <4>2 DEF Promise!Next
    <3>4. QED
      BY <2>3, <3>2, <3>3 DEF StoreChange, Leave
  <2>4. CASE RestoreProofs(p)
    <3>1. UNCHANGED melt /\ Goto(p, "failed") /\ pc[p] = "restoring"
      BY <2>4 DEF RestoreProofs, Leave, Locked, mintVars
    <3>2. Definite => melt[p] = "UNPAID"
      BY <3>1 DEF PaymentInv
    <3>3. QED
      BY <2>l, <3>1, <3>2, <1>f
  <2>5. QED
    BY <1>2, <2>1, <2>2, <2>3, <2>4 DEF PayStep
<1>3. ASSUME NEW p \in Payers, PendingSettles(p) PROVE Promise!Next
  <2>1. Statuses' = Statuses
    BY <1>3 DEF PendingSettles, payVars, Statuses, Status
  <2>2. Promise!Resolve(p)
    BY <1>3, <2>1 DEF Promise!Resolve, Promise!Becomes, PendingSettles, Statuses
  <2>3. QED
    BY <2>2 DEF Promise!Next
<1>4. ASSUME NEW m \in Minters, MintTokens(m) \/ StoreTokens(m)
      PROVE  UNCHANGED <<Statuses, melt>>
  BY <1>4, <1>u DEF MintTokens, StoreTokens, mintVars, payVars
<1>5. CASE RestoreQuery \/ RestoreStore \/ SaveAll \/ Boot
  BY <1>5, <1>u DEF RestoreQuery, RestoreStore, SaveAll, Boot, mintVars, payVars
<1>6. ASSUME Crash PROVE Promise!Next
  <2>1. ASSUME NEW p \in Payers
        PROVE  Status(p)' = IF Status(p) = "asked" THEN "crashed" ELSE Status(p)
    <3>1. pc'[p] = IF pc[p] \in Inside \cup {"waiting"} THEN "crashed" ELSE pc[p]
      BY <1>6 DEF Crash
    <3>2. pc[p] # "asked" /\ "crashed" \notin Inside \cup {"waiting"}
      BY <1>t DEF PayStates, Inside
    <3>3. QED
      BY <3>1, <3>2 DEF Status
  <2>2. Statuses' = [p \in Payers |-> IF Statuses[p] = "asked" THEN "crashed" ELSE Statuses[p]]
    BY <2>1 DEF Statuses
  <2>3. Promise!Crash
    BY <1>6, <2>2 DEF Promise!Crash, Statuses, Crash, mintVars
  <2>4. QED
    BY <2>3 DEF Promise!Next
<1>7. CASE UNCHANGED vars
  BY <1>7, <1>u DEF vars, mintVars, payVars
<1>8. QED
  BY <1>1, <1>2, <1>3, <1>4, <1>5, <1>6, <1>7 DEF Next

\* payInvoice keeps the promise its callers rely on: each call is answered once,
\* its invoice paid at most once and only while it is asked for or settles what
\* was under way, success means paid; and without faults a failure is final.
THEOREM ImplementsPaymentTheorem == Spec => ImplementsPayment
<1>1. Init => Promise!Init
  BY DEF Init, Promise!Init, Status, Inside
<1>2. QED
  BY <1>1, TypeCorrect, PaymentInvariant, PromiseStep, PTL
     DEF Spec, ImplementsPayment, Promise!Spec

-----------------------------------------------------------------------------
(* A failed payment gives back what it took *)

\* While a payment runs, what it read is in the store; once it has removed it,
\* what it keeps is, and the rest it hands over or has spent.
BackInv ==
    \A p \in Payers :
        /\ ~up => pc[p] \notin Inside
        /\ pc[p] \in {"idle", "waiting", "quoted"} => active[p] = {} /\ hold[p] = {}
        /\ pc[p] \in {"sending", "sent"} => active[p] \subseteq vault
        /\ pc[p] \in {"melting", "paid", "restoring"} =>
             /\ keep[p] \subseteq vault
             /\ active[p] \cap Live \subseteq keep[p] \cup hold[p]

\* Nobody but the payment at the head of the queue takes proofs out of a store
\* of a running process.
LEMMA VaultGrows ==
    ASSUME TypeOK, LockInv, [Next]_vars, up, up', NEW p \in Payers, pc[p] \in Inside, ~Swap(p)
    PROVE  vault \subseteq vault'
<1>1. ASSUME NEW q \in Payers, Swap(q) PROVE FALSE
  BY <1>1 DEF Swap, Locked, LockInv
<1>2. ASSUME NEW q \in Payers, Request(q) \/ PayStep(q) \/ PendingSettles(q)
      PROVE  vault \subseteq vault'
  BY <1>1, <1>2 DEF Request, PayStep, Quote, ReadProofs, SendExact, SendSwapped, SendFails,
     MeltPaid, MeltUnpaid, MeltUnknown, StoreChange, RestoreProofs, PendingSettles,
     AddProofs, AddProofsThrows, storeVars
<1>3. ASSUME NEW m \in Minters, MintTokens(m) \/ StoreTokens(m) PROVE vault \subseteq vault'
  BY <1>3 DEF MintTokens, StoreTokens, AddProofs, AddProofsThrows, storeVars
<1>4. CASE RestoreQuery \/ RestoreStore \/ SaveAll \/ Crash \/ Boot
  BY <1>4 DEF RestoreQuery, RestoreStore, SaveAll, Crash, Boot, AddProofs, AddProofsThrows,
     storeVars
<1>5. CASE UNCHANGED vars
  BY <1>5 DEF vars, storeVars
<1>6. QED
  BY <1>2, <1>3, <1>4, <1>5 DEF Next

\* Whatever is minted, restored, lost or refused meanwhile.
LEMMA BackStep ==
    TypeOK /\ LockInv /\ Signed /\ SwapReady /\ BackInv /\ [Next]_vars => BackInv'
<1> SUFFICES ASSUME TypeOK, LockInv, Signed, SwapReady, BackInv, [Next]_vars,
                    NEW p \in Payers
             PROVE  /\ ~up' => pc'[p] \notin Inside
                    /\ pc'[p] \in {"idle", "waiting", "quoted"} => active'[p] = {} /\ hold'[p] = {}
                    /\ pc'[p] \in {"sending", "sent"} => active'[p] \subseteq vault'
                    /\ pc'[p] \in {"melting", "paid", "restoring"} =>
                         /\ keep'[p] \subseteq vault'
                         /\ active'[p] \cap Live' \subseteq keep'[p] \cup hold'[p]
  BY DEF BackInv
<1> DEFINE Goal == /\ ~up' => pc'[p] \notin Inside
                   /\ pc'[p] \in {"idle", "waiting", "quoted"} => active'[p] = {} /\ hold'[p] = {}
                   /\ pc'[p] \in {"sending", "sent"} => active'[p] \subseteq vault'
                   /\ pc'[p] \in {"melting", "paid", "restoring"} =>
                        /\ keep'[p] \subseteq vault'
                        /\ active'[p] \cap Live' \subseteq keep'[p] \cup hold'[p]
<1> SUFFICES Goal
  OBVIOUS
<1>t. /\ pc \in [Payers -> PayStates]
      /\ active \in [Payers -> SUBSET Proofs] /\ keep \in [Payers -> SUBSET Proofs]
      /\ hold \in [Payers -> SUBSET Proofs]
  BY DEF TypeOK
<1>b. /\ ~up => pc[p] \notin Inside
      /\ pc[p] \in {"idle", "waiting", "quoted"} => active[p] = {} /\ hold[p] = {}
      /\ pc[p] \in {"sending", "sent"} => active[p] \subseteq vault
      /\ pc[p] \in {"melting", "paid", "restoring"} =>
           /\ keep[p] \subseteq vault
           /\ active[p] \cap Live \subseteq keep[p] \cup hold[p]
  BY DEF BackInv
<1>n. active[p] \cap Live' \subseteq active[p] \cap Live
  BY NoRevival DEF Signed
<1>i. {"sending", "sent", "melting", "paid", "restoring"} \subseteq Inside
  BY DEF Inside
\* A step of others leaves it where it was.
<1>o. ASSUME UNCHANGED <<pc[p], active[p], keep[p], hold[p]>>, up', up \/ pc[p] \notin Inside,
             ~Swap(p)
      PROVE  Goal
  <2>1. pc[p] \in Inside => vault \subseteq vault'
    BY <1>o, VaultGrows
  <2>2. QED
    BY <1>o, <1>b, <1>n, <1>i, <2>1
<1>1. ASSUME NEW q \in Payers \ {p}, Request(q) \/ PayStep(q) PROVE Goal
  <2>1. UNCHANGED <<pc[p], active[p], keep[p], hold[p]>>
    BY <1>1, <1>t DEF Request, PayStep, Quote, ReadProofs, SendExact, SendSwapped,
       SendFails, Swap, MeltPaid, MeltUnpaid, MeltUnknown, StoreChange, RestoreProofs,
       Goto, Leave
  <2>2. up /\ up'
    BY <1>1 DEF Request, PayStep, Quote, ReadProofs, SendExact, SendSwapped,
       SendFails, Swap, MeltPaid, MeltUnpaid, MeltUnknown, StoreChange, RestoreProofs,
       Locked, procVars
  <2>3. ~Swap(p)
    BY <2>1, <1>t DEF Swap, Goto, Leave, Locked
  <2>4. QED
    BY <2>1, <2>2, <2>3, <1>o
<1>2. ASSUME Request(p) PROVE Goal
  BY <1>2, <1>t, <1>b DEF Request, Goto, procVars, Inside
<1>3. ASSUME PayStep(p) PROVE Goal
  <2>u. up /\ up'
    BY <1>3 DEF PayStep, Quote, ReadProofs, SendExact, SendSwapped, SendFails, Swap, MeltPaid,
       MeltUnpaid, MeltUnknown, StoreChange, RestoreProofs, Locked, procVars
  <2>1. CASE Quote(p)
    BY <2>1, <2>u, <1>t, <1>b DEF Quote, Goto, Leave, Locked
  <2>2. CASE ReadProofs(p)
    BY <2>2, <2>u, <1>t, <1>b DEF ReadProofs, Goto, Leave, Locked, storeVars
  <2>3. CASE SendExact(p) \/ SendSwapped(p)
    BY <2>3, <2>u, <1>t, <1>b DEF SendExact, SendSwapped, Goto, Locked, storeVars
  <2>4. CASE SendFails(p) \/ RestoreProofs(p)
    <3>1. pc'[p] = "failed"
      BY <2>4, <1>t DEF SendFails, RestoreProofs, Leave, Goto
    <3>2. QED
      BY <3>1, <2>u
  <2>5. CASE Swap(p)
    <3>1. CASE pc'[p] = "failed"
      BY <3>1, <2>u
    <3>2. CASE pc'[p] # "failed"
      <4>1. /\ SwapProofs(ActiveProofs(p), keep[p]) /\ pc'[p] = "melting" /\ pc[p] = "sent"
            /\ UNCHANGED <<mint, active, keep, hold>>
        BY <2>5, <3>2, <1>t DEF Swap, Goto, Leave, Locked, mintVars
      <4>2. keep'[p] \subseteq vault'
        BY <4>1 DEF SwapProofs
      <4>3. active'[p] \cap Live' \subseteq keep'[p] \cup hold'[p]
        BY <4>1 DEF SwapReady, Live
      <4>4. QED
        BY <4>1, <4>2, <4>3, <2>u
    <3>3. QED
      BY <3>1, <3>2
  <2>6. CASE MeltPaid(p) \/ MeltUnpaid(p) \/ MeltUnknown(p) \/ StoreChange(p)
    <3>1. /\ pc[p] \in {"melting", "paid"} /\ UNCHANGED <<active, keep, hold>>
          /\ vault \subseteq vault'
          /\ pc'[p] \in {"paid", "restoring", "ok"}
      BY <2>6, <1>t DEF MeltPaid, MeltUnpaid, MeltUnknown, StoreChange, Locked, Goto, Leave,
         AddProofs, AddProofsThrows, storeVars
    <3>2. QED
      BY <3>1, <1>b, <1>n, <2>u
  <2>7. QED
    BY <1>3, <2>1, <2>2, <2>3, <2>4, <2>5, <2>6 DEF PayStep
<1>4. ASSUME NEW q \in Payers, PendingSettles(q) PROVE Goal
  <2>1. UNCHANGED <<pc[p], active[p], keep[p], hold[p], up, vault>>
    BY <1>4 DEF PendingSettles, payVars, procVars, storeVars
  <2>2. QED
    BY <2>1, <1>b, <1>n
<1>5. ASSUME NEW m \in Minters, MintTokens(m) \/ StoreTokens(m) PROVE Goal
  <2>1. UNCHANGED <<pc[p], active[p], keep[p], hold[p]>> /\ up /\ up'
    BY <1>5 DEF MintTokens, StoreTokens, payVars, procVars
  <2>2. vault \subseteq vault'
    BY <1>5 DEF MintTokens, StoreTokens, AddProofs, AddProofsThrows, storeVars
  <2>3. QED
    BY <2>1, <2>2, <1>b, <1>n
<1>6. CASE RestoreQuery \/ RestoreStore \/ SaveAll
  <2>1. UNCHANGED <<pc[p], active[p], keep[p], hold[p]>> /\ up /\ up'
    BY <1>6 DEF RestoreQuery, RestoreStore, SaveAll, payVars, procVars
  <2>2. vault \subseteq vault'
    BY <1>6 DEF RestoreQuery, RestoreStore, SaveAll, AddProofs, AddProofsThrows, storeVars
  <2>3. QED
    BY <2>1, <2>2, <1>b, <1>n
<1>7. CASE Crash
  <2>1. /\ UNCHANGED <<active[p], hold[p]>>
        /\ pc'[p] \notin Inside
        /\ pc'[p] \in {"idle", "waiting", "quoted"} => pc'[p] = pc[p]
    BY <1>7, <1>t DEF Crash, Inside
  <2>2. QED
    BY <2>1, <1>b, <1>i
<1>8. CASE Boot
  <2>1. UNCHANGED <<pc[p], active[p], keep[p], hold[p]>> /\ ~up
    BY <1>8 DEF Boot, payVars
  <2>2. QED
    BY <2>1, <1>b, <1>i
<1>9. CASE UNCHANGED vars
  <2>1. UNCHANGED <<pc[p], active[p], keep[p], hold[p], up, vault, Live>>
    BY <1>9 DEF vars, payVars, procVars, storeVars, mintVars, Live
  <2>2. QED
    BY <2>1, <1>b
<1>10. QED
  BY <1>1, <1>2, <1>3, <1>4, <1>5, <1>6, <1>7, <1>8, <1>9 DEF Next

\* What the argument about failures rests on, in every reachable state.
LEMMA BackInvariant == Spec => [](TypeOK /\ LockInv /\ Signed /\ SwapReady /\ BackInv)
<1>1. Init => Signed /\ SwapReady /\ BackInv
  BY SignedInit DEF Init, SwapReady, BackInv, Inside
<1>2. QED
  BY <1>1, TypeCorrect, LockInvariant, SignedStep, SwapReadyStep, BackStep, PTL DEF Spec

\* Where the store can be written, a payment that fails leaves in it every proof
\* that it had read or been given and that the mint would still honour: whatever
\* the mint loses or leaves pending, and whatever is minted, restored or crashes
\* meanwhile, on either kind of store.
THEOREM FailedPaymentGivesBackTheorem ==
    ASSUME "storeWrite" \notin Faults
    PROVE  Spec => FailedPaymentGivesBack
<1>1. ASSUME TypeOK, SwapReady, BackInv, [Next]_vars, NEW p \in Payers,
             pc[p] \in Inside, pc'[p] = "failed"
      PROVE  (active[p] \cup hold[p]) \cap Live' \subseteq vault'
  <2>t. pc \in [Payers -> PayStates] /\ pc[p] # "failed"
    BY <1>1 DEF TypeOK, Inside
  <2>o. pc'[p] # pc[p]
    BY <1>1, <2>t
  <2>1. ASSUME NEW q \in Payers, Request(q) \/ PayStep(q) \/ PendingSettles(q)
        PROVE  ReadProofs(p) \/ SendFails(p) \/ Swap(p) \/ RestoreProofs(p)
    BY <1>1, <2>1, <2>t, <2>o DEF Request, PayStep, Quote, ReadProofs, SendExact, SendSwapped,
       SendFails, Swap, MeltPaid, MeltUnpaid, MeltUnknown, StoreChange, RestoreProofs,
       PendingSettles, Goto, Leave, Locked, payVars, Inside
  <2>2. CASE ReadProofs(p)
    BY <1>1, <2>2 DEF ReadProofs, Locked, BackInv
  <2>3. CASE SendFails(p)
    BY <1>1, <2>3 DEF SendFails, Locked, BackInv, SwapReady, storeVars
  <2>4. CASE Swap(p)
    BY <1>1, <2>4, <2>t DEF Swap, SwapProofsThrows, Goto, Leave
  <2>5. CASE RestoreProofs(p)
    <3>1. /\ vault' = vault \cup hold[p] /\ pc[p] = "restoring" /\ Live' = Live
      BY <1>1, <2>5 DEF RestoreProofs, AddProofs, AddProofsThrows, Locked, mintVars, Live
    <3>2. keep[p] \subseteq vault /\ active[p] \cap Live \subseteq keep[p] \cup hold[p]
      BY <1>1, <3>1 DEF BackInv
    <3>3. QED
      BY <3>1, <3>2
  <2>6. ASSUME NEW m \in Minters, MintTokens(m) \/ StoreTokens(m) PROVE FALSE
    BY <2>6, <2>o DEF MintTokens, StoreTokens, payVars
  <2>7. ~(RestoreQuery \/ RestoreStore \/ SaveAll \/ Boot \/ UNCHANGED vars)
    BY <2>o DEF RestoreQuery, RestoreStore, SaveAll, Boot, vars, payVars
  <2>8. ~Crash
    BY <1>1, <2>t DEF Crash
  <2>9. QED
    BY <1>1, <2>1, <2>2, <2>3, <2>4, <2>5, <2>6, <2>7, <2>8 DEF Next
<1>2. TypeOK /\ SwapReady /\ BackInv /\ [Next]_vars =>
        [\A p \in Payers : (pc[p] \in Inside /\ pc'[p] = "failed")
            => (active[p] \cup hold[p]) \cap Live' \subseteq vault']_vars
  BY <1>1
<1>3. QED
  BY <1>2, BackInvariant, PTL DEF Spec, FailedPaymentGivesBack

-----------------------------------------------------------------------------
(* The balance is honest *)

\* No named fault, no crash and no restore: each of them does bring spent
\* proofs into the store, or leaves them there.
Undisturbed == Definite /\ MaxRestores = 0 /\ MaxCrashes = 0

Good == {x \in Proofs : mint[x] # "spent"}

\* The proofs a payment has read or has in hand.
Touched(p) ==
    {x \in Proofs :
        \/ pc[p] \in {"sending", "sent"} /\ x \in active[p]
        \/ pc[p] \in Holding /\ x \in hold[p]
        \/ pc[p] = "sent" /\ x \in keep[p]
        \/ pc[p] = "paid" /\ x \in change[p]}

\* What a payment will put into the store is good, and what it will spend is
\* not in the store by then.
PayerHonest(p) ==
    /\ pc[p] = "sending" => active[p] \subseteq Good
    /\ pc[p] = "sent" => /\ keep[p] \subseteq Good
                         /\ hold[p] \cap (keep[p] \cup (vault \ active[p])) = {}
    /\ pc[p] \in Holding => hold[p] \subseteq Good
    /\ pc[p] \in {"melting", "restoring"} => hold[p] \cap vault = {}
    /\ pc[p] = "paid" => change[p] \subseteq Good

\* Tokens on their way to the store are good and in nobody else's hands.
MinterHonest(m) ==
    job[m] = "issued" =>
        /\ got[m] \subseteq Good
        /\ got[m] \cap vault = {}
        /\ \A p \in Payers : got[m] \cap Touched(p) = {}
        /\ \A n \in Minters \ {m} : job[n] = "issued" => got[m] \cap got[n] = {}

HonestInv ==
    /\ up /\ restore = "idle"
    /\ NoPhantomBalance
    /\ \A p \in Payers : PayerHonest(p)
    /\ \A m \in Minters : MinterHonest(m)

\* A step of a payment keeps the balance honest.
LEMMA HonestPayStep ==
    ASSUME Undisturbed, TypeOK, LockInv, Signed, SwapReady, HonestInv,
           NEW p \in Payers, PayStep(p)
    PROVE  HonestInv'
<1>t. /\ mint \in [Proofs -> {"none", "unspent", "pending", "spent"}]
      /\ pc \in [Payers -> PayStates]
      /\ vault \in SUBSET Proofs
      /\ active \in [Payers -> SUBSET Proofs] /\ keep \in [Payers -> SUBSET Proofs]
      /\ hold \in [Payers -> SUBSET Proofs] /\ change \in [Payers -> SUBSET Proofs]
  BY DEF TypeOK
<1>d. Definite /\ {"lostAnswer", "pendingMelt", "storeWrite"} \cap Faults = {}
  BY NoFault DEF Undisturbed
<1>u. up' /\ restore' = "idle" /\ UNCHANGED <<job, got>>
  BY DEF HonestInv, PayStep, Quote, ReadProofs, SendExact, SendSwapped, SendFails, Swap,
     MeltPaid, MeltUnpaid, MeltUnknown, StoreChange, RestoreProofs, procVars, restoreVars,
     mintingVars
\* The others wait, or are done.
<1>q. ASSUME NEW q \in Payers \ {p}
      PROVE  pc[q] \notin Inside /\ pc'[q] \notin Inside
  <2>1. queue # <<>> /\ Head(queue) = p
    BY DEF PayStep, Quote, ReadProofs, SendExact, SendSwapped, SendFails, Swap,
       MeltPaid, MeltUnpaid, MeltUnknown, StoreChange, RestoreProofs, Locked
  <2>2. pc'[q] = pc[q]
    BY <1>t DEF PayStep, Quote, ReadProofs, SendExact, SendSwapped, SendFails, Swap,
       MeltPaid, MeltUnpaid, MeltUnknown, StoreChange, RestoreProofs, Goto, Leave
  <2>3. QED
    BY <2>1, <2>2 DEF LockInv
<1>i. Holding \cup {"sending", "sent", "melting", "restoring", "paid"} \subseteq Inside
  BY DEF Inside, Holding
<1>s. /\ vault \subseteq Issued /\ active[p] \subseteq Issued
      /\ \A m \in Minters : got[m] \subseteq Issued
  BY DEF Signed
\* Only a payment that has just swapped has spent proofs in the store.
<1>v. pc[p] # "sent" => vault \subseteq Good
  BY <1>q, <1>i, <1>t DEF HonestInv, NoPhantomBalance, Good
<1>p. PayerHonest(p)
  BY DEF HonestInv
\* Thus it is enough to look at the payment that moves.
<1>h. ASSUME PayerHonest(p)', NoPhantomBalance',
             vault' \cup Touched(p)' \subseteq vault \cup Touched(p) \cup Fresh,
             Good \ Good' \subseteq Touched(p)
      PROVE  HonestInv'
  <2>1. ASSUME NEW q \in Payers PROVE PayerHonest(q)'
    <3>1. CASE q = p
      BY <3>1, <1>h
    <3>2. CASE q # p
      BY <3>2, <1>q, <1>i DEF PayerHonest
    <3>3. QED
      BY <3>1, <3>2
  <2>2. ASSUME NEW m \in Minters PROVE MinterHonest(m)'
    <3>1. SUFFICES ASSUME job[m] = "issued"
                   PROVE  /\ got[m] \subseteq Good'
                          /\ got[m] \cap vault' = {}
                          /\ \A q \in Payers : got[m] \cap Touched(q)' = {}
                          /\ \A n \in Minters \ {m} : job[n] = "issued" => got[m] \cap got[n] = {}
      BY <1>u DEF MinterHonest
    <3>2. MinterHonest(m)
      BY DEF HonestInv
    <3>3. got[m] \cap (vault \cup Touched(p) \cup Fresh) = {} /\ got[m] \subseteq Good
      BY <3>1, <3>2, <1>s DEF MinterHonest, Issued
    <3>4. \A q \in Payers \ {p} : Touched(q)' = {}
      BY <1>q, <1>i DEF Touched
    <3>5. QED
      BY <3>1, <3>2, <3>3, <3>4, <1>h DEF MinterHonest
  <2>3. QED
    BY <2>1, <2>2, <1>h, <1>u DEF HonestInv
\* The store without spent proofs needs no excuse.
<1>g. ASSUME vault' \subseteq Good' PROVE NoPhantomBalance'
  BY <1>g DEF Good, NoPhantomBalance
<1>1. CASE Quote(p)
  <2>1. /\ pc[p] = "waiting" /\ pc'[p] \in {"quoted", "failed"} /\ UNCHANGED <<mint, vault>>
    BY <1>1, <1>t DEF Quote, Locked, Goto, Leave, mintVars, storeVars
  <2>2. Good' = Good /\ Touched(p)' = {}
    BY <2>1 DEF Good, Touched, Holding
  <2>3. PayerHonest(p)'
    BY <2>1 DEF PayerHonest, Holding
  <2>4. QED
    BY <2>1, <2>2, <2>3, <1>h, <1>g, <1>v
<1>2. CASE ReadProofs(p)
  <2>1. /\ pc[p] = "quoted" /\ UNCHANGED <<mint, vault>>
        /\ \/ pc'[p] = "failed"
           \/ pc'[p] = "sending" /\ active'[p] = vault
    BY <1>2, <1>t DEF ReadProofs, Locked, Goto, Leave, mintVars, storeVars
  <2>2. Good' = Good /\ Touched(p)' \subseteq vault
    BY <2>1 DEF Good, Touched, Holding
  <2>3. PayerHonest(p)'
    BY <2>1, <2>2, <1>v DEF PayerHonest, Holding
  <2>4. QED
    BY <2>1, <2>2, <2>3, <1>h, <1>g, <1>v
<1>3. CASE SendExact(p)
  <2>1. /\ pc[p] = "sending" /\ pc'[p] = "sent" /\ UNCHANGED <<mint, vault>>
        /\ keep'[p] = active[p] \ hold[p] /\ active'[p] = active[p] /\ hold'[p] = hold[p]
    BY <1>3, <1>t DEF SendExact, Locked, Goto, mintVars, storeVars
  <2>2. Good' = Good /\ hold[p] \subseteq active[p] /\ active[p] \subseteq Good
    BY <2>1, <1>p DEF Good, SwapReady, PayerHonest
  <2>3. Touched(p)' \subseteq Touched(p)
    BY <2>1, <2>2 DEF Touched, Holding
  <2>4. PayerHonest(p)'
    BY <2>1, <2>2 DEF PayerHonest, Holding
  <2>5. QED
    BY <2>1, <2>2, <2>3, <2>4, <1>h, <1>g, <1>v
<1>4. CASE SendSwapped(p)
  <2>1. PICK T \in SwappedInputs(p), S \in SUBSET Fresh, K \in SUBSET Fresh :
          /\ S \cap K = {}
          /\ SwapSign(T, S \cup K)
          /\ keep' = [keep EXCEPT ![p] = (active[p] \ T) \cup K]
          /\ hold' = [hold EXCEPT ![p] = S]
    BY <1>4 DEF SendSwapped
  <2>2. /\ pc[p] = "sending" /\ pc'[p] = "sent" /\ vault' = vault /\ active'[p] = active[p]
        /\ keep'[p] = (active[p] \ T) \cup K /\ hold'[p] = S
    BY <1>4, <2>1, <1>t DEF SendSwapped, Locked, Goto, storeVars
  <2>3. T \subseteq active[p] /\ T \cap Fresh = {} /\ active[p] \subseteq Good
    BY <2>2, <1>p DEF SwappedInputs, Fresh, PayerHonest
  <2>4. Good' = (Good \ T) \cup S \cup K
    BY <2>1, <2>3, <1>t DEF SwapSign, Good, Fresh
  <2>5. S \cap (active[p] \cup vault) = {}
    BY <1>s DEF Issued
  <2>6. PayerHonest(p)'
    BY <2>1, <2>2, <2>3, <2>4, <2>5 DEF PayerHonest, Holding
  <2>7. Touched(p)' \subseteq Touched(p) \cup Fresh /\ T \subseteq Touched(p)
    <3>1. active[p] \subseteq Touched(p)
      BY <2>2, <1>t DEF Touched, Holding
    <3>2. Touched(p)' \subseteq active'[p] \cup keep'[p] \cup hold'[p]
      BY <2>2 DEF Touched, Holding
    <3>3. active'[p] \cup keep'[p] \cup hold'[p] \subseteq active[p] \cup Fresh
      BY <2>1, <2>2
    <3>4. QED
      BY <3>1, <3>2, <3>3, <2>3
  <2>8. NoPhantomBalance'
    <3>1. \A x \in vault : x \notin Good' => x \in T
      BY <2>2, <2>4, <1>v
    <3>2. \A x \in vault : mint'[x] = "spent" => x \in active'[p]
      BY <3>1, <2>2, <2>3, <1>t DEF Good
    <3>3. QED
      BY <3>2, <2>2 DEF NoPhantomBalance
  <2>9. QED
    BY <2>2, <2>4, <2>6, <2>7, <2>8, <1>h
<1>5. CASE SendFails(p)
  <2>1. /\ pc[p] = "sending" /\ pc'[p] = "failed" /\ UNCHANGED <<mint, vault>>
    BY <1>5, <1>t, <1>d DEF SendFails, Locked, Goto, Leave, storeVars
  <2>2. Good' = Good /\ Touched(p)' = {}
    BY <2>1 DEF Good, Touched, Holding
  <2>3. PayerHonest(p)'
    BY <2>1 DEF PayerHonest, Holding
  <2>4. QED
    BY <2>1, <2>2, <2>3, <1>h, <1>g, <1>v
<1>6. CASE Swap(p)
  <2>1. /\ pc[p] = "sent" /\ pc'[p] = "melting" /\ mint' = mint /\ hold'[p] = hold[p]
        /\ vault' = (vault \ ActiveProofs(p)) \cup keep[p]
    BY <1>6, <1>t, <1>d DEF Swap, SwapProofs, SwapProofsThrows, Locked, Goto, Leave, mintVars
  <2>2. ActiveProofs(p) \in {vault, active[p]}
    BY DEF ActiveProofs
  <2>3. /\ Good' = Good /\ keep[p] \subseteq Good /\ hold[p] \subseteq Good
        /\ hold[p] \cap (keep[p] \cup (vault \ active[p])) = {}
    BY <2>1, <1>p DEF Good, PayerHonest, Holding
  <2>4. vault \ active[p] \subseteq Good
    BY <2>1, <1>q, <1>i, <1>t DEF HonestInv, NoPhantomBalance, Good
  <2>5. vault' \subseteq Good' /\ hold[p] \cap vault' = {}
    BY <2>1, <2>2, <2>3, <2>4
  <2>6. PayerHonest(p)'
    BY <2>1, <2>3, <2>5 DEF PayerHonest, Holding
  <2>7. Touched(p)' \subseteq Touched(p) /\ keep[p] \subseteq Touched(p)
    BY <2>1, <1>t DEF Touched, Holding
  <2>8. QED
    BY <2>1, <2>3, <2>5, <2>6, <2>7, <1>h, <1>g
<1>7. CASE MeltPaid(p)
  <2>1. PICK C \in SUBSET Fresh : /\ SwapSign(hold[p], C)
                                  /\ change' = [change EXCEPT ![p] = C]
    BY <1>7 DEF MeltPaid
  <2>2. /\ pc[p] = "melting" /\ pc'[p] = "paid" /\ vault' = vault
        /\ hold[p] \cap vault = {} /\ change'[p] = C
        /\ \A x \in hold[p] : mint[x] = "unspent"
    BY <1>7, <2>1, <1>t, <1>p DEF MeltPaid, Locked, Goto, storeVars, PayerHonest
  <2>3. Good' = (Good \ hold[p]) \cup C
    BY <2>1, <2>2, <1>t DEF SwapSign, Good, Fresh
  <2>4. PayerHonest(p)'
    BY <2>2, <2>3 DEF PayerHonest, Holding
  <2>5. Touched(p)' \subseteq Fresh /\ hold[p] \subseteq Touched(p)
    BY <2>1, <2>2, <1>t DEF Touched, Holding
  <2>6. vault' \subseteq Good'
    BY <2>2, <2>3, <1>v
  <2>7. QED
    BY <2>2, <2>3, <2>4, <2>5, <2>6, <1>h, <1>g
<1>8. CASE MeltUnpaid(p)
  <2>1. /\ pc[p] = "melting" /\ pc'[p] = "restoring" /\ UNCHANGED <<mint, vault, hold>>
    BY <1>8, <1>t DEF MeltUnpaid, Locked, Goto, mintVars, storeVars
  <2>2. Good' = Good /\ Touched(p)' \subseteq Touched(p)
    BY <2>1 DEF Good, Touched, Holding
  <2>3. PayerHonest(p)'
    BY <2>1, <2>2, <1>p DEF PayerHonest, Holding
  <2>4. QED
    BY <2>1, <2>2, <2>3, <1>h, <1>g, <1>v
<1>9. CASE MeltUnknown(p)
  BY <1>9, <1>d DEF MeltUnknown
<1>10. CASE StoreChange(p)
  <2>1. /\ pc[p] = "paid" /\ pc'[p] = "ok" /\ mint' = mint
        /\ vault' = vault \cup change[p]
    BY <1>10, <1>t, <1>d DEF StoreChange, AddProofs, AddProofsThrows, Locked, Goto, Leave, mintVars
  <2>2. Good' = Good /\ Touched(p)' = {} /\ change[p] \subseteq Touched(p)
    BY <2>1, <1>t DEF Good, Touched, Holding
  <2>3. PayerHonest(p)'
    BY <2>1 DEF PayerHonest, Holding
  <2>4. vault' \subseteq Good'
    BY <2>1, <2>2, <1>p, <1>v DEF PayerHonest
  <2>5. QED
    BY <2>1, <2>2, <2>3, <2>4, <1>h, <1>g
<1>11. CASE RestoreProofs(p)
  <2>1. /\ pc[p] = "restoring" /\ pc'[p] = "failed" /\ mint' = mint
        /\ vault' = vault \cup hold[p]
    BY <1>11, <1>t, <1>d DEF RestoreProofs, AddProofs, AddProofsThrows, Locked, Goto, Leave, mintVars
  <2>2. Good' = Good /\ Touched(p)' = {} /\ hold[p] \subseteq Touched(p)
    BY <2>1, <1>t DEF Good, Touched, Holding
  <2>3. PayerHonest(p)'
    BY <2>1 DEF PayerHonest, Holding
  <2>4. vault' \subseteq Good'
    BY <2>1, <2>2, <1>p, <1>v DEF PayerHonest, Holding
  <2>5. QED
    BY <2>1, <2>2, <2>3, <2>4, <1>h, <1>g
<1>12. QED
  BY <1>1, <1>2, <1>3, <1>4, <1>5, <1>6, <1>7, <1>8, <1>9, <1>10, <1>11 DEF PayStep

\* So does a minting.
LEMMA HonestMinting ==
    ASSUME Undisturbed, TypeOK, Signed, HonestInv,
           NEW m \in Minters, MintTokens(m) \/ StoreTokens(m)
    PROVE  HonestInv'
<1>t. /\ mint \in [Proofs -> {"none", "unspent", "pending", "spent"}]
      /\ job \in [Minters -> {"idle", "issued", "done", "lost"}]
      /\ vault \in SUBSET Proofs /\ got \in [Minters -> SUBSET Proofs]
  BY DEF TypeOK
<1>d. {"lostAnswer", "pendingMelt", "storeWrite"} \cap Faults = {}
  BY NoFault DEF Undisturbed
<1>u. up' /\ restore' = "idle" /\ UNCHANGED <<pc, active, keep, hold, change>>
  BY DEF HonestInv, MintTokens, StoreTokens, procVars, restoreVars, payVars
<1>s. \A p \in Payers : Touched(p) \subseteq Issued /\ Touched(p)' = Touched(p)
  BY <1>u DEF Touched, Signed
<1>h. \A p \in Payers : PayerHonest(p)
  BY DEF HonestInv
<1>j. \A n \in Minters : MinterHonest(n)
  BY DEF HonestInv
<1>1. CASE MintTokens(m)
  <2>1. PICK F \in SUBSET Fresh : mint' = Mark(F, "unspent") /\ got' = [got EXCEPT ![m] = F]
    BY <1>1, <1>d DEF MintTokens
  <2>2. vault' = vault /\ job' = [job EXCEPT ![m] = "issued"] /\ job[m] = "idle"
    BY <1>1, <1>d DEF MintTokens, storeVars
  <2>3. Good' = Good
    BY <2>1, <1>t DEF Mark, Good, Fresh
  <2>4. NoPhantomBalance'
    <3>1. \A x \in vault : mint'[x] = "spent" => mint[x] = "spent"
      BY <2>1, <1>t DEF Mark
    <3>2. QED
      BY <3>1, <2>2, <1>u DEF HonestInv, NoPhantomBalance
  <2>5. \A p \in Payers : PayerHonest(p)'
    BY <2>2, <2>3, <1>u, <1>h DEF PayerHonest
  <2>6. /\ F \cap vault = {} /\ F \subseteq Good
        /\ \A p \in Payers : F \cap Touched(p) = {}
        /\ \A n \in Minters : F \cap got[n] = {}
    BY <1>s DEF Signed, Issued, Fresh, Good
  <2>7. ASSUME NEW n \in Minters PROVE MinterHonest(n)'
    <3>1. CASE n = m
      BY <3>1, <2>1, <2>2, <2>3, <2>6, <1>t, <1>s DEF MinterHonest
    <3>2. CASE n # m
      <4>1. MinterHonest(n) /\ got'[n] = got[n] /\ job'[n] = job[n]
        BY <3>2, <2>1, <2>2, <1>t, <1>j
      <4>2. \A k \in Minters \ {n} : job[n] = "issued" /\ job'[k] = "issued" =>
                got[n] \cap got'[k] = {}
        BY <2>1, <2>2, <2>6, <1>t, <1>j DEF MinterHonest
      <4>3. QED
        BY <4>1, <4>2, <2>2, <2>3, <1>s DEF MinterHonest
    <3>3. QED
      BY <3>1, <3>2
  <2>8. QED
    BY <2>4, <2>5, <2>7, <1>u DEF HonestInv
<1>2. CASE StoreTokens(m)
  <2>1. /\ vault' = vault \cup got[m] /\ job[m] = "issued" /\ job' = [job EXCEPT ![m] = "done"]
        /\ UNCHANGED <<mint, got>>
    BY <1>2, <1>d DEF StoreTokens, AddProofs, AddProofsThrows, mintVars
  <2>2. /\ Good' = Good /\ got[m] \subseteq Good
        /\ \A p \in Payers : got[m] \cap Touched(p) = {}
    BY <2>1, <1>j DEF Good, MinterHonest
  <2>3. NoPhantomBalance'
    BY <2>1, <2>2, <1>u DEF HonestInv, NoPhantomBalance, Good
  <2>4. ASSUME NEW p \in Payers PROVE PayerHonest(p)'
    <3>1. pc[p] \in Holding => got[m] \cap hold[p] = {}
      BY <2>2, <1>t DEF Touched
    <3>2. QED
      BY <2>1, <2>2, <3>1, <1>u, <1>h DEF PayerHonest, Holding
  <2>5. ASSUME NEW n \in Minters PROVE MinterHonest(n)'
    BY <2>1, <2>2, <1>t, <1>s, <1>j DEF MinterHonest
  <2>6. QED
    BY <2>3, <2>4, <2>5, <1>u DEF HonestInv
<1>3. QED
  BY <1>1, <1>2

\* The two are all that happens when nothing disturbs.
LEMMA HonestStep ==
    ASSUME Undisturbed
    PROVE  TypeOK /\ LockInv /\ Signed /\ SwapReady /\ PaymentInv /\ HonestInv /\ [Next]_vars
             => HonestInv'
<1> SUFFICES ASSUME TypeOK, LockInv, Signed, SwapReady, PaymentInv, HonestInv, [Next]_vars
             PROVE  HonestInv'
  OBVIOUS
\* A step that touches none of what the invariant speaks of.
<1>u. ASSUME UNCHANGED <<mint, vault, pc, active, keep, hold, change, job, got, restore, up>>
      PROVE  HonestInv'
  <2>1. Good' = Good
    BY <1>u DEF Good
  <2>2. \A p \in Payers : Touched(p)' = Touched(p)
    BY <1>u DEF Touched
  <2>3. NoPhantomBalance'
    BY <1>u DEF HonestInv, NoPhantomBalance
  <2>4. \A p \in Payers : PayerHonest(p)'
    BY <1>u, <2>1 DEF HonestInv, PayerHonest
  <2>5. \A m \in Minters : MinterHonest(m)'
    BY <1>u, <2>1, <2>2 DEF HonestInv, MinterHonest
  <2>6. QED
    BY <1>u, <2>3, <2>4, <2>5 DEF HonestInv
<1>1. ASSUME NEW p \in Payers, Request(p) PROVE HonestInv'
  <2>t. pc \in [Payers -> PayStates]
    BY DEF TypeOK
  <2>1. /\ \A q \in Payers : pc'[q] = pc[q] \/ (pc[q] = "idle" /\ pc'[q] = "waiting")
        /\ UNCHANGED <<mint, vault, active, keep, hold, change, job, got, restore, up>>
    BY <1>1, <2>t DEF Request, Goto, mintVars, storeVars, mintingVars, restoreVars, procVars
  <2>2. Good' = Good
    BY <2>1 DEF Good
  <2>3. \A q \in Payers : Touched(q)' = Touched(q)
    BY <2>1 DEF Touched, Holding
  <2>4. NoPhantomBalance'
    BY <2>1 DEF HonestInv, NoPhantomBalance
  <2>5. \A q \in Payers : PayerHonest(q)'
    BY <2>1, <2>2 DEF HonestInv, PayerHonest, Holding
  <2>6. \A m \in Minters : MinterHonest(m)'
    BY <2>1, <2>2, <2>3 DEF HonestInv, MinterHonest
  <2>7. QED
    BY <2>1, <2>4, <2>5, <2>6 DEF HonestInv
<1>2. ASSUME NEW p \in Payers, PayStep(p) PROVE HonestInv'
  BY <1>2, HonestPayStep
<1>3. ASSUME NEW p \in Payers, PendingSettles(p) PROVE FALSE
  BY <1>3 DEF PendingSettles, PaymentInv, Undisturbed
<1>4. ASSUME NEW m \in Minters, MintTokens(m) \/ StoreTokens(m) PROVE HonestInv'
  BY <1>4, HonestMinting
<1>5. CASE SaveAll
  BY <1>5, <1>u DEF SaveAll, mintVars, payVars, mintingVars, restoreVars, procVars
<1>6. ~(RestoreQuery \/ RestoreStore \/ Crash \/ Boot)
  BY DEF RestoreQuery, RestoreStore, Crash, Boot, Undisturbed, HonestInv, TypeOK
<1>7. CASE UNCHANGED vars
  BY <1>7, <1>u DEF vars, mintVars, storeVars, payVars, mintingVars, restoreVars, procVars
<1>8. QED
  BY <1>1, <1>2, <1>3, <1>4, <1>5, <1>6, <1>7 DEF Next

\* Undisturbed, on either kind of store, the balance counts no proof the mint
\* has taken, but those a payment has just swapped and is about to remove:
\* whatever other payments, failures and mintings run meanwhile.
THEOREM NoPhantomBalanceTheorem ==
    ASSUME Undisturbed
    PROVE  Spec => []NoPhantomBalance
<1>1. Init => HonestInv
  <2>1. Init => NoPhantomBalance /\ up /\ restore = "idle"
    BY ConstantsAssumption DEF Init, NoPhantomBalance
  <2>2. Init => \A p \in Payers : PayerHonest(p)
    BY DEF Init, PayerHonest, Holding
  <2>3. Init => \A m \in Minters : MinterHonest(m)
    BY DEF Init, MinterHonest
  <2>4. QED
    BY <2>1, <2>2, <2>3 DEF HonestInv
<1>2. HonestInv => NoPhantomBalance
  BY DEF HonestInv
<1>3. QED
  BY <1>1, <1>2, HonestStep, BackInvariant, PaymentInvariant, PTL DEF Spec
=============================================================================
