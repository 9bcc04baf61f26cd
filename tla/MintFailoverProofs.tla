-------------------------- MODULE MintFailoverProofs --------------------------
(***************************************************************************)
(* Theorems about MintFailover, for any number of mints, callers, health   *)
(* loops and operators.                                                    *)
(***************************************************************************)
EXTENDS MintFailover, WellFoundedInduction, TLAPS

\* Every path that moves activeMintUrl has loaded the new wallet before.
WalletInv == ActiveWalletLoaded

-----------------------------------------------------------------------------
(* The active mint's wallet is loaded *)

\* A step of a call keeps the active wallet loaded: only FailoverLoads moves
\* the active mint, to the candidate it has just loaded.
LEMMA WalletCallStep ==
    ASSUME WalletInv, NEW o \in Calls, Call(o) \/ CallStep(o)
    PROVE  WalletInv'
<1> USE DEF WalletInv, ActiveWalletLoaded, procVars, managerVars
<1>1. CASE Call(o)
  BY <1>1 DEF Call
<1>2. CASE CallAnswers(o)
  BY <1>2 DEF CallAnswers
<1>3. CASE CallFails(o)
  BY <1>3 DEF CallFails
<1>4. CASE FailoverLoads(o)
  BY <1>4 DEF FailoverLoads
<1>5. CASE FailoverMisses(o)
  BY <1>5 DEF FailoverMisses
<1>6. CASE Retry(o)
  BY <1>6 DEF Retry
<1>7. CASE RetryFails(o)
  BY <1>7 DEF RetryFails
<1>8. CASE SwitchUnstored(o)
  BY <1>8 DEF SwitchUnstored
<1>9. QED
  BY <1>1, <1>2, <1>3, <1>4, <1>5, <1>6, <1>7, <1>8 DEF CallStep

\* So does a step of the health loop.
LEMMA WalletCheckStep ==
    ASSUME WalletInv, NEW k \in Checkers, CheckStep(k)
    PROVE  WalletInv'
<1> USE DEF WalletInv, ActiveWalletLoaded, procVars, managerVars
<1>1. CASE StartCheck(k)
  BY <1>1 DEF StartCheck
<1>2. CASE Probe(k)
  BY <1>2 DEF Probe
<1>3. CASE CheckerLoads(k)
  BY <1>3 DEF CheckerLoads
<1>4. CASE CheckerMisses(k)
  BY <1>4 DEF CheckerMisses
<1>5. QED
  BY <1>1, <1>2, <1>3, <1>4 DEF CheckStep

\* In every reachable state the active mint's wallet is loaded: initWallet,
\* failoverToNextMint, the health loop and the operator's switch all await
\* loadMint before they assign activeMintUrl.
THEOREM ActiveWalletLoadedTheorem == Spec => []ActiveWalletLoaded
<1>1. Init => WalletInv
  BY DEF Init, WalletInv, ActiveWalletLoaded
<1>2. WalletInv /\ [Next]_vars => WalletInv'
  <2> SUFFICES ASSUME WalletInv, [Next]_vars PROVE WalletInv'
    OBVIOUS
  <2>1. CASE UNCHANGED vars
    BY <2>1 DEF WalletInv, ActiveWalletLoaded, vars, procVars, managerVars
  <2>2. ASSUME NEW m \in Mints, Flip(m) \/ CooldownEnds(m) PROVE WalletInv'
    <3>1. CASE Flip(m)
      BY <3>1 DEF Flip, WalletInv, ActiveWalletLoaded, procVars, managerVars
    <3>2. CASE CooldownEnds(m)
      BY <3>2 DEF CooldownEnds, WalletInv, ActiveWalletLoaded, procVars
    <3>3. QED
      BY <2>2, <3>1, <3>2
  <2>3. CASE Boot
    BY <2>3 DEF Boot, WalletInv, ActiveWalletLoaded
  <2>4. CASE Crash
    BY <2>4 DEF Crash, WalletInv, ActiveWalletLoaded
  <2>5. ASSUME NEW o \in Calls, Call(o) \/ CallStep(o) PROVE WalletInv'
    BY <2>5, WalletCallStep
  <2>6. ASSUME NEW k \in Checkers, CheckStep(k) PROVE WalletInv'
    BY <2>6, WalletCheckStep
  <2>7. ASSUME NEW a \in Admins, AdminAsks(a) \/ AdminLoads(a) PROVE WalletInv'
    <3>1. CASE AdminAsks(a)
      BY <3>1 DEF AdminAsks, WalletInv, ActiveWalletLoaded, procVars, managerVars
    <3>2. CASE AdminLoads(a)
      BY <3>2 DEF AdminLoads, WalletInv, ActiveWalletLoaded, procVars
    <3>3. QED
      BY <2>7, <3>1, <3>2
  <2>8. QED
    BY <2>1, <2>2, <2>3, <2>4, <2>5, <2>6, <2>7 DEF Next
<1>3. WalletInv => ActiveWalletLoaded
  BY DEF WalletInv
<1>4. QED
  BY <1>1, <1>2, <1>3, PTL DEF Spec

-----------------------------------------------------------------------------
(* Which mints are marked down *)

\* The health map has an entry for each mint and nothing else.
HealthInv == health \in [Mints -> HealthStates]

\* The health map keeps its shape.
LEMMA HealthTyped == Spec => []HealthInv
<1>1. Init => HealthInv
  BY DEF Init, HealthInv, HealthStates
<1>2. HealthInv /\ [Next]_vars => HealthInv'
  <2> SUFFICES ASSUME HealthInv, [Next]_vars PROVE HealthInv'
    OBVIOUS
  <2> USE DEF HealthInv, HealthStates, managerVars
  <2>1. CASE UNCHANGED vars
    BY <2>1 DEF vars
  <2>2. ASSUME NEW m \in Mints, Flip(m) \/ CooldownEnds(m) PROVE HealthInv'
    BY <2>2 DEF Flip, CooldownEnds
  <2>3. CASE Boot
    BY <2>3 DEF Boot
  <2>4. CASE Crash
    BY <2>4 DEF Crash
  <2>5. ASSUME NEW o \in Calls, Call(o) \/ CallStep(o) PROVE HealthInv'
    BY <2>5 DEF Call, CallStep, CallAnswers, CallFails, FailoverLoads, FailoverMisses,
                Retry, SwitchUnstored, RetryFails
  <2>6. ASSUME NEW k \in Checkers, CheckStep(k) PROVE HealthInv'
    BY <2>6 DEF CheckStep, StartCheck, Probe, CheckerLoads, CheckerMisses
  <2>7. ASSUME NEW a \in Admins, AdminAsks(a) \/ AdminLoads(a) PROVE HealthInv'
    BY <2>7 DEF AdminAsks, AdminLoads
  <2>8. QED
    BY <2>1, <2>2, <2>3, <2>4, <2>5, <2>6, <2>7 DEF Next
<1>3. QED
  BY <1>1, <1>2, PTL DEF Spec

\* What NoFalseBlame says of one step.
BlameStep ==
    \A m \in Mints : (health'[m] = "cooling" /\ health[m] # "cooling") =>
          \/ ~reach[m]
          \/ \E o \in Invoices : /\ pc[o] = "calling" /\ ~reach[target[o]]
                                /\ active = m /\ target[o] # m
          \/ \E o \in Calls : pc[o] = "switched" /\ cand[o] = m /\ StoreFails

\* An invoice whose mint did not answer blames the mint active now: the one it
\* asked, or another.
LEMMA InvoiceBlames ==
    ASSUME HealthInv, NEW o \in Invoices, CallFails(o)
    PROVE  BlameStep
<1> USE DEF BlameStep, HealthInv
<1>1. FailedMint(o) = active
  BY DEF FailedMint
<1>2. health' = health \/ health' = [health EXCEPT ![active] = "cooling"]
  BY <1>1 DEF CallFails
<1>3. pc[o] = "calling" /\ ~reach[target[o]]
  BY DEF CallFails
<1>4. ASSUME NEW m \in Mints, health'[m] = "cooling", health[m] # "cooling"
      PROVE  m = active
  BY <1>2, <1>4
<1>5. QED
  BY <1>3, <1>4

\* A payment blames the mint it asked, which did not answer.
LEMMA PaymentBlames ==
    ASSUME HealthInv, NEW o \in Payments, CallFails(o)
    PROVE  BlameStep
<1> USE DEF BlameStep, HealthInv
<1>1. FailedMint(o) = target[o]
  BY FailoverAssumption DEF FailedMint
<1>2. health' = health \/ health' = [health EXCEPT ![target[o]] = "cooling"]
  BY <1>1 DEF CallFails
<1>3. ~reach[target[o]]
  BY DEF CallFails
<1>4. QED
  BY <1>2, <1>3

\* A step of a call marks down a mint that did not answer it, or is an invoice's,
\* or belongs to a failover whose switch is not stored.
LEMMA CallBlames ==
    ASSUME HealthInv, NEW o \in Calls, Call(o) \/ CallStep(o)
    PROVE  BlameStep
<1> USE DEF BlameStep, HealthInv, managerVars
<1>1. CASE CallFails(o)
  <2>1. CASE o \in Invoices
    BY <1>1, <2>1, InvoiceBlames
  <2>2. CASE o \in Payments
    BY <1>1, <2>2, PaymentBlames
  <2>3. QED
    BY <2>1, <2>2 DEF Calls
<1>2. CASE FailoverMisses(o)
  BY <1>2 DEF FailoverMisses
<1>3. CASE FailoverLoads(o)
  BY <1>3 DEF FailoverLoads
<1>4. CASE Call(o) \/ CallAnswers(o) \/ Retry(o) \/ RetryFails(o)
  BY <1>4 DEF Call, CallAnswers, Retry, RetryFails
<1>5. CASE SwitchUnstored(o)
  <2>1. /\ StoreFails /\ pc[o] = "switched"
        /\ health' = [health EXCEPT ![cand[o]] = "cooling"]
    BY <1>5 DEF SwitchUnstored
  <2>2. ASSUME NEW m \in Mints, health'[m] = "cooling", health[m] # "cooling"
        PROVE  m = cand[o]
    BY <2>1, <2>2
  <2>3. QED
    BY <2>1, <2>2
<1>6. QED
  BY <1>1, <1>2, <1>3, <1>4, <1>5 DEF CallStep

\* A mint that answers is marked down in two cases only, however payments, health
\* loops, operators, mint answers and restarts interleave: an invoice asked another
\* mint, which did not answer, and names the one that has become active since; or
\* a failover has just switched to it and the store refuses the new active mint.
THEOREM NoFalseBlameTheorem == Spec => NoFalseBlame
<1>1. ASSUME HealthInv, [Next]_vars PROVE [BlameStep]_vars
  <2> USE <1>1 DEF HealthInv, managerVars
  <2>1. CASE UNCHANGED vars
    BY <2>1
  <2>2. ASSUME NEW m \in Mints, Flip(m) \/ CooldownEnds(m) PROVE BlameStep
    BY <2>2 DEF Flip, CooldownEnds, BlameStep
  <2>3. CASE Boot
    BY <2>3 DEF Boot, BlameStep, Mints
  <2>4. CASE Crash
    BY <2>4 DEF Crash, BlameStep
  <2>5. ASSUME NEW o \in Calls, Call(o) \/ CallStep(o) PROVE BlameStep
    BY <2>5, CallBlames
  <2>6. ASSUME NEW k \in Checkers, CheckStep(k) PROVE BlameStep
    BY <2>6 DEF CheckStep, StartCheck, Probe, CheckerLoads, CheckerMisses, BlameStep
  <2>7. ASSUME NEW a \in Admins, AdminAsks(a) \/ AdminLoads(a) PROVE BlameStep
    BY <2>7 DEF AdminAsks, AdminLoads, BlameStep
  <2>8. QED
    BY <2>1, <2>2, <2>3, <2>4, <2>5, <2>6, <2>7 DEF Next
<1>2. QED
  BY <1>1, HealthTyped, PTL DEF Spec, NoFalseBlame, BlameStep

-----------------------------------------------------------------------------
(* Types *)

\* The first mint of a set that has one is in the set: orderedMints.find.
LEMMA FirstFound ==
    ASSUME NEW S \in SUBSET Mints, S # {}
    PROVE  First(S) \in S /\ First(S) # NoMint
<1>1. S \in SUBSET Nat
  BY FailoverAssumption DEF Mints
<1>2. \E m \in S : \A n \in S : <<n, m>> \notin OpToRel(<, Nat)
  BY <1>1, NatLessThanWellFounded, WFMin
<1>3. PICK m \in S : \A n \in S : <<n, m>> \notin OpToRel(<, Nat)
  BY <1>2
<1>4. \A n \in S : ~(n < m)
  BY <1>1, <1>3 DEF OpToRel
<1>5. \A n \in S : m <= n
  BY <1>1, <1>4
<1>6. First(S) \in S
  BY <1>5 DEF First
<1> QED
  BY <1>6 DEF Mints, NoMint

\* First answers a mint of the set, or that there is none.
LEMMA FirstTyped ==
    ASSUME NEW S \in SUBSET Mints
    PROVE  First(S) \in Mints \cup {NoMint} /\ (First(S) = NoMint => S = {})
<1>1. CASE S = {}
  BY <1>1 DEF First
<1>2. CASE S # {}
  BY <1>2, FirstFound
<1> QED
  BY <1>1, <1>2

\* What a call or a health loop is about to load is a mint, and the health loop
\* probes mints only.
Aimed ==
    /\ \A o \in Calls : pc[o] \in {"loading", "switched"} => cand[o] \in Mints
    /\ \A k \in Checkers : stage[k] # "idle" => probe[k] \in Mints

TypeInv == TypeOK /\ Aimed

\* TryNext leaves a candidate that is a mint, or no candidate and a failed call.
LEMMA NextTyped ==
    ASSUME TypeInv, NEW o \in Calls, NEW failed \in Mints \cup {NoMint}, NEW from,
           TryNext(o, health', failed, from)
    PROVE  /\ cand' \in [Calls -> Mints \cup {NoMint}]
           /\ pc' \in [Calls -> {"idle", "calling", "loading", "switched", "retrying"} \cup Answered]
           /\ \A p \in Calls : pc'[p] \in {"loading", "switched"} => cand'[p] \in Mints
<1> DEFINE S == {m \in Mints : m >= from /\ m # failed /\ health'[m] # "cooling"}
           next == First(S)
<1>1. next \in Mints \cup {NoMint}
  <2>1. S \in SUBSET Mints
    OBVIOUS
  <2> HIDE DEF S
  <2> QED
    BY <2>1, FirstTyped
<1>2. /\ cand' = [cand EXCEPT ![o] = next]
      /\ pc' = [pc EXCEPT ![o] = IF next = NoMint THEN "failed" ELSE "loading"]
  BY DEF TryNext, Candidate
<1> HIDE DEF next, S
<1> QED
  BY <1>1, <1>2 DEF TypeInv, TypeOK, Aimed, Answered

\* MoveUp leaves a mint to load, or an idle loop.
LEMMA MoveTyped ==
    ASSUME TypeInv, NEW k \in Checkers, NEW h, NEW from, NEW below,
           MoveUp(k, h, from, below)
    PROVE  /\ probe' \in [Checkers -> Mints \cup {NoMint}]
           /\ stage' \in [Checkers -> {"idle", "probing", "loading"}]
           /\ \A l \in Checkers : stage'[l] # "idle" => probe'[l] \in Mints
<1> DEFINE S == {m \in Mints : m >= from /\ m < below /\ h[m] = "healthy"}
           next == First(S)
<1>1. next \in Mints \cup {NoMint}
  <2>1. S \in SUBSET Mints
    OBVIOUS
  <2> HIDE DEF S
  <2> QED
    BY <2>1, FirstTyped
<1>2. /\ probe' = [probe EXCEPT ![k] = next]
      /\ stage' = [stage EXCEPT ![k] = IF next = NoMint THEN "idle" ELSE "loading"]
  BY DEF MoveUp
<1> HIDE DEF next, S
<1> QED
  BY <1>1, <1>2 DEF TypeInv, TypeOK, Aimed

\* The mint a failover names as failed is the active one or the one asked.
LEMMA FailedMintTyped ==
    ASSUME TypeInv, NEW o \in Calls
    PROVE  FailedMint(o) \in Mints \cup {NoMint}
BY DEF TypeInv, TypeOK, FailedMint

\* The steps of the mints, of the clock and of the process keep the types.
LEMMA TypedAround ==
    ASSUME TypeInv,
           (\E m \in Mints : Flip(m) \/ CooldownEnds(m)) \/ Boot \/ Crash
    PROVE  TypeInv'
<1> USE DEF TypeInv, TypeOK, Aimed, Answered, HealthStates,
            mintVars, procVars, managerVars, callVars, checkerVars
<1>1. ASSUME NEW m \in Mints, Flip(m) PROVE TypeInv'
  BY <1>1 DEF Flip
<1>2. ASSUME NEW m \in Mints, CooldownEnds(m) PROVE TypeInv'
  BY <1>2 DEF CooldownEnds
<1>3. CASE Boot
  BY <1>3 DEF Boot
<1>4. CASE Crash
  <2>1. pc' \in [Calls -> {"idle", "calling", "loading", "switched", "retrying"} \cup Answered]
    BY <1>4 DEF Crash
  <2>2. /\ stage' \in [Checkers -> {"idle", "probing", "loading"}]
        /\ wanted' \in [Admins -> Mints \cup {NoMint}]
        /\ running' \in BOOLEAN /\ crashes' \in Nat
    <3>1. stage' \in [Checkers -> {"idle", "probing", "loading"}]
      BY <1>4 DEF Crash
    <3>2. wanted' \in [Admins -> Mints \cup {NoMint}]
      BY <1>4 DEF Crash
    <3>3. running' \in BOOLEAN
      BY <1>4 DEF Crash
    <3>4. crashes' \in Nat
      BY <1>4 DEF Crash
    <3> QED
      BY <3>1, <3>2, <3>3, <3>4
  <2>3. /\ \A o \in Calls : pc'[o] \notin {"loading", "switched"}
        /\ \A k \in Checkers : stage'[k] = "idle"
    BY <1>4 DEF Crash
  <2> QED
    BY <1>4, <2>1, <2>2, <2>3 DEF Crash
<1> QED
  BY <1>1, <1>2, <1>3, <1>4

\* A step of a call keeps the types.
LEMMA TypedCallStep ==
    ASSUME TypeInv, NEW o \in Calls, Call(o) \/ CallStep(o)
    PROVE  TypeInv'
<1> USE DEF mintVars, procVars, managerVars, callVars, checkerVars
<1>1. CASE Call(o)
  BY <1>1 DEF Call, TypeInv, TypeOK, Aimed
<1>2. CASE CallAnswers(o)
  BY <1>2 DEF CallAnswers, QuoteTag, TypeInv, TypeOK, Aimed, Answered
<1>3. CASE CallFails(o)
  <2>1. CASE NumMints = 1
    BY <1>3, <2>1 DEF CallFails, TypeInv, TypeOK, Aimed, Answered
  <2>2. CASE NumMints # 1
    <3>1. TryNext(o, health', FailedMint(o), 1)
      BY <1>3, <2>2 DEF CallFails
    <3>2. FailedMint(o) \in Mints \cup {NoMint}
      BY FailedMintTyped
    <3>3. /\ health' = [health EXCEPT ![FailedMint(o)] = "cooling"]
          /\ blamed' = [blamed EXCEPT ![o] = FailedMint(o)]
          /\ UNCHANGED <<mintVars, procVars, active, loaded, caps, target, issuer, tag,
                         checkerVars, wanted>>
      BY <1>3, <2>2 DEF CallFails
    <3>4. /\ cand' \in [Calls -> Mints \cup {NoMint}]
          /\ pc' \in [Calls -> {"idle", "calling", "loading", "switched", "retrying"} \cup Answered]
          /\ \A p \in Calls : pc'[p] \in {"loading", "switched"} => cand'[p] \in Mints
      BY <3>1, <3>2, NextTyped
    <3>5. /\ health' \in [Mints -> HealthStates]
          /\ blamed' \in [Calls -> Mints \cup {NoMint}]
      BY <3>2, <3>3 DEF TypeInv, TypeOK, HealthStates
    <3> QED
      BY <3>3, <3>4, <3>5 DEF TypeInv, TypeOK, Aimed
  <2> QED
    BY <2>1, <2>2
<1>4. CASE FailoverLoads(o)
  BY <1>4 DEF FailoverLoads, TypeInv, TypeOK, Aimed, HealthStates
<1>5. CASE FailoverMisses(o)
  <2>1. TryNext(o, health', blamed[o], cand[o] + 1)
    BY <1>5 DEF FailoverMisses
  <2>2. blamed[o] \in Mints \cup {NoMint}
    BY DEF TypeInv, TypeOK
  <2>3. /\ health' = [health EXCEPT ![cand[o]] = "cooling"]
        /\ UNCHANGED <<mintVars, procVars, active, loaded, caps, target, blamed, issuer,
                       tag, checkerVars, wanted>>
    BY <1>5 DEF FailoverMisses
  <2>4. /\ cand' \in [Calls -> Mints \cup {NoMint}]
        /\ pc' \in [Calls -> {"idle", "calling", "loading", "switched", "retrying"} \cup Answered]
        /\ \A p \in Calls : pc'[p] \in {"loading", "switched"} => cand'[p] \in Mints
    BY <2>1, <2>2, NextTyped
  <2>5. health' \in [Mints -> HealthStates]
    BY <2>3 DEF TypeInv, TypeOK, HealthStates
  <2> QED
    BY <2>3, <2>4, <2>5 DEF TypeInv, TypeOK, Aimed
<1>6. CASE Retry(o)
  BY <1>6 DEF Retry, TypeInv, TypeOK, Aimed, Answered
<1>7. CASE RetryFails(o)
  BY <1>7 DEF RetryFails, TypeInv, TypeOK, Aimed, Answered
<1>8. CASE SwitchUnstored(o)
  <2>1. TryNext(o, health', blamed[o], cand[o] + 1)
    BY <1>8 DEF SwitchUnstored
  <2>2. blamed[o] \in Mints \cup {NoMint}
    BY DEF TypeInv, TypeOK
  <2>3. /\ health' = [health EXCEPT ![cand[o]] = "cooling"]
        /\ UNCHANGED <<mintVars, procVars, active, loaded, caps, target, blamed, issuer,
                       tag, checkerVars, wanted>>
    BY <1>8 DEF SwitchUnstored
  <2>4. /\ cand' \in [Calls -> Mints \cup {NoMint}]
        /\ pc' \in [Calls -> {"idle", "calling", "loading", "switched", "retrying"} \cup Answered]
        /\ \A p \in Calls : pc'[p] \in {"loading", "switched"} => cand'[p] \in Mints
    BY <2>1, <2>2, NextTyped
  <2>5. health' \in [Mints -> HealthStates]
    BY <2>3 DEF TypeInv, TypeOK, HealthStates
  <2> QED
    BY <2>3, <2>4, <2>5 DEF TypeInv, TypeOK, Aimed
<1> QED
  BY <1>1, <1>2, <1>3, <1>4, <1>5, <1>6, <1>7, <1>8 DEF CallStep

\* So does a step of a health loop, whose last probe picks a mint to move up to.
LEMMA TypedCheckStep ==
    ASSUME TypeInv, NEW k \in Checkers, CheckStep(k)
    PROVE  TypeInv'
<1> USE DEF mintVars, procVars, managerVars, callVars, checkerVars
<1>1. CASE StartCheck(k)
  BY <1>1, FailoverAssumption DEF StartCheck, TypeInv, TypeOK, Aimed, Mints
<1>2. CASE Probe(k)
  <2>1. /\ health' = [health EXCEPT ![probe[k]] = IF reach[probe[k]] THEN "healthy" ELSE "cooling"]
        /\ UNCHANGED <<mintVars, procVars, active, loaded, caps, callVars, wanted>>
        /\ stage[k] = "probing"
    BY <1>2 DEF Probe
  <2>2. health' \in [Mints -> HealthStates]
    BY <2>1 DEF TypeInv, TypeOK, HealthStates
  <2>3. CASE /\ probe[k] < NumMints
             /\ probe' = [probe EXCEPT ![k] = @ + 1]
             /\ UNCHANGED <<stage, limit>>
    <3>1. probe[k] \in Mints
      BY <2>1 DEF TypeInv, Aimed
    <3>2. probe[k] + 1 \in Mints
      BY <2>3, <3>1, FailoverAssumption DEF Mints
    <3> QED
      BY <2>1, <2>2, <2>3, <3>2 DEF TypeInv, TypeOK, Aimed
  <2>4. CASE /\ probe[k] = NumMints
             /\ limit' = [limit EXCEPT ![k] = active]
             /\ MoveUp(k, health', 1, active)
    <3>1. /\ probe' \in [Checkers -> Mints \cup {NoMint}]
          /\ stage' \in [Checkers -> {"idle", "probing", "loading"}]
          /\ \A l \in Checkers : stage'[l] # "idle" => probe'[l] \in Mints
      BY <2>4, MoveTyped
    <3>2. limit' \in [Checkers -> Mints \cup {NoMint}]
      BY <2>4 DEF TypeInv, TypeOK
    <3> QED
      BY <2>1, <2>2, <3>1, <3>2 DEF TypeInv, TypeOK, Aimed
  <2> QED
    BY <1>2, <2>3, <2>4 DEF Probe
<1>3. CASE CheckerLoads(k)
  BY <1>3 DEF CheckerLoads, TypeInv, TypeOK, Aimed
<1>4. CASE CheckerMisses(k)
  <2>1. /\ MoveUp(k, health, probe[k] + 1, limit[k])
        /\ UNCHANGED <<mintVars, procVars, managerVars, callVars, limit, wanted>>
    BY <1>4 DEF CheckerMisses
  <2>2. /\ probe' \in [Checkers -> Mints \cup {NoMint}]
        /\ stage' \in [Checkers -> {"idle", "probing", "loading"}]
        /\ \A l \in Checkers : stage'[l] # "idle" => probe'[l] \in Mints
    BY <2>1, MoveTyped
  <2> QED
    BY <2>1, <2>2 DEF TypeInv, TypeOK, Aimed
<1> QED
  BY <1>1, <1>2, <1>3, <1>4 DEF CheckStep

\* In every reachable state the variables are well typed, whatever a failover
\* or a health loop loads is one of the configured mints, and the health loop
\* never probes past the last one.
THEOREM FailoverTypeCorrect == Spec => []TypeInv
<1>1. Init => TypeInv
  <2> SUFFICES ASSUME Init PROVE TypeInv
    OBVIOUS
  <2>1. /\ reach \in [Mints -> BOOLEAN] /\ running \in BOOLEAN /\ crashes \in Nat
        /\ health \in [Mints -> HealthStates]
        /\ loaded \in SUBSET Mints /\ caps \in SUBSET Mints
    BY DEF Init, HealthStates
  <2>2. /\ target \in [Calls -> Mints \cup {NoMint}]
        /\ blamed \in [Calls -> Mints \cup {NoMint}]
        /\ cand \in [Calls -> Mints \cup {NoMint}]
        /\ issuer \in [Calls -> Mints \cup {NoMint}]
        /\ tag \in [Calls -> Mints \cup {NoMint}]
    BY DEF Init
  <2>3. /\ pc \in [Calls -> {"idle", "calling", "loading", "switched", "retrying"} \cup Answered]
        /\ stage \in [Checkers -> {"idle", "probing", "loading"}]
        /\ probe \in [Checkers -> Mints \cup {NoMint}]
        /\ limit \in [Checkers -> Mints \cup {NoMint}]
        /\ wanted \in [Admins -> Mints \cup {NoMint}]
    BY DEF Init
  <2>4. Aimed
    BY DEF Init, Aimed
  <2> QED
    BY <2>1, <2>2, <2>3, <2>4 DEF Init, TypeInv, TypeOK
<1>2. TypeInv /\ [Next]_vars => TypeInv'
  <2> SUFFICES ASSUME TypeInv, [Next]_vars PROVE TypeInv'
    OBVIOUS
  <2>1. CASE UNCHANGED vars
    BY <2>1 DEF vars, TypeInv, TypeOK, Aimed, mintVars, procVars, managerVars,
                callVars, checkerVars
  <2>2. CASE (\E m \in Mints : Flip(m) \/ CooldownEnds(m)) \/ Boot \/ Crash
    BY <2>2, TypedAround
  <2>3. ASSUME NEW o \in Calls, Call(o) \/ CallStep(o) PROVE TypeInv'
    BY <2>3, TypedCallStep
  <2>4. ASSUME NEW k \in Checkers, CheckStep(k) PROVE TypeInv'
    BY <2>4, TypedCheckStep
  <2>5. ASSUME NEW a \in Admins, AdminAsks(a) PROVE TypeInv'
    BY <2>5 DEF AdminAsks, TypeInv, TypeOK, Aimed, mintVars, procVars, managerVars,
                callVars, checkerVars
  <2>6. ASSUME NEW a \in Admins, AdminLoads(a) PROVE TypeInv'
    BY <2>6 DEF AdminLoads, TypeInv, TypeOK, Aimed, HealthStates, mintVars, procVars,
                managerVars, callVars, checkerVars
  <2> QED
    BY <2>1, <2>2, <2>3, <2>4, <2>5, <2>6 DEF Next
<1> QED
  BY <1>1, <1>2, PTL DEF Spec

-----------------------------------------------------------------------------
(* A failover tries every mint it may *)

\* A call that has not failed yet has no mint to blame.
Unblamed == \A o \in Calls : pc[o] \in {"idle", "calling"} => blamed[o] = NoMint

\* Only the failure of the call's first attempt names a mint.
LEMMA StaysUnblamed == Spec => []Unblamed
<1>1. Init => Unblamed
  BY DEF Init, Unblamed
<1>2. TypeInv /\ Unblamed /\ [Next]_vars => Unblamed'
  <2> SUFFICES ASSUME TypeInv, Unblamed, [Next]_vars PROVE Unblamed'
    OBVIOUS
  <2>0. /\ pc \in [Calls -> {"idle", "calling", "loading", "switched", "retrying"} \cup Answered]
        /\ blamed \in [Calls -> Mints \cup {NoMint}]
    BY DEF TypeInv, TypeOK
  <2> USE <2>0 DEF Unblamed, callVars
  <2>1. CASE UNCHANGED vars
    BY <2>1 DEF vars
  <2>2. CASE (\E m \in Mints : Flip(m) \/ CooldownEnds(m)) \/ Boot \/ Crash
    BY <2>2 DEF Flip, CooldownEnds, Boot, Crash
  <2>3. ASSUME NEW o \in Calls, Call(o) \/ CallStep(o) PROVE Unblamed'
    <3>1. CASE Call(o)
      BY <3>1 DEF Call
    <3>2. CASE CallAnswers(o) \/ FailoverLoads(o) \/ Retry(o) \/ RetryFails(o)
      BY <3>2 DEF CallAnswers, FailoverLoads, Retry, RetryFails
    <3>3. CASE CallFails(o)
      <4>1. \A p \in Calls \ {o} : pc'[p] = pc[p] /\ blamed'[p] = blamed[p]
        BY <3>3 DEF CallFails, TryNext
      <4>2. pc'[o] \in {"failed", "loading"}
        BY <3>3 DEF CallFails, TryNext
      <4> QED
        BY <4>1, <4>2
    <3>4. CASE FailoverMisses(o)
      <4>1. blamed' = blamed /\ \A p \in Calls \ {o} : pc'[p] = pc[p]
        BY <3>4 DEF FailoverMisses, TryNext
      <4>2. pc'[o] \in {"failed", "loading"}
        BY <3>4 DEF FailoverMisses, TryNext
      <4> QED
        BY <4>1, <4>2
    <3>5. CASE SwitchUnstored(o)
      <4>1. blamed' = blamed /\ \A p \in Calls \ {o} : pc'[p] = pc[p]
        BY <3>5 DEF SwitchUnstored, TryNext
      <4>2. pc'[o] \in {"failed", "loading"}
        BY <3>5 DEF SwitchUnstored, TryNext
      <4> QED
        BY <4>1, <4>2
    <3> QED
      BY <2>3, <3>1, <3>2, <3>3, <3>4, <3>5 DEF CallStep
  <2>4. ASSUME NEW k \in Checkers, CheckStep(k) PROVE Unblamed'
    BY <2>4 DEF CheckStep, StartCheck, Probe, CheckerLoads, CheckerMisses
  <2>5. ASSUME NEW a \in Admins, AdminAsks(a) \/ AdminLoads(a) PROVE Unblamed'
    BY <2>5 DEF AdminAsks, AdminLoads
  <2> QED
    BY <2>1, <2>2, <2>3, <2>4, <2>5 DEF Next
<1> QED
  BY <1>1, <1>2, FailoverTypeCorrect, PTL DEF Spec

\* What FailoverExhaustive says of one step and one call.
Exhausted(o) ==
          (/\ pc[o] \in {"calling", "loading", "switched"} /\ pc'[o] = "failed"
           /\ blamed'[o] # NoMint /\ cand'[o] = NoMint /\ running')
          => \A m \in Mints \ {blamed'[o]} :
                (pc[o] = "calling" \/ m >= cand[o]) => health'[m] = "cooling"

\* When no candidate is left, each mint of the rest of the list but the blamed
\* one is within its cooldown.
LEMMA NoneLeft ==
    ASSUME TypeInv, NEW o \in Calls, NEW failed, NEW from,
           TryNext(o, health', failed, from), pc'[o] = "failed"
    PROVE  \A m \in Mints : m >= from /\ m # failed => health'[m] = "cooling"
<1> DEFINE S == {m \in Mints : m >= from /\ m # failed /\ health'[m] # "cooling"}
           next == First(S)
<1>1. S \in SUBSET Mints
  OBVIOUS
<1>2. pc' = [pc EXCEPT ![o] = IF next = NoMint THEN "failed" ELSE "loading"]
  BY DEF TryNext, Candidate
<1>3. next = NoMint
  <2> HIDE DEF next
  <2> QED
    BY <1>2 DEF TypeInv, TypeOK
<1>4. S = {}
  <2> HIDE DEF S
  <2> QED
    BY <1>1, <1>3, FirstTyped
<1> QED
  BY <1>4

\* A call's own step that ends its failover has run out of mints.
LEMMA StepExhausts ==
    ASSUME TypeInv, Unblamed, NEW o \in Calls, Call(o) \/ CallStep(o)
    PROVE  Exhausted(o)
<1> SUFFICES ASSUME pc[o] \in {"calling", "loading", "switched"}, pc'[o] = "failed",
                    blamed'[o] # NoMint, cand'[o] = NoMint,
                    NEW m \in Mints \ {blamed'[o]}, pc[o] = "calling" \/ m >= cand[o]
             PROVE  health'[m] = "cooling"
  BY DEF Exhausted
<1>0. /\ o \in DOMAIN pc /\ o \in DOMAIN blamed /\ m \in DOMAIN health
      /\ pc[o] = "calling" => blamed[o] = NoMint
      /\ pc[o] \in {"loading", "switched"} => cand[o] \in Mints
  BY DEF TypeInv, TypeOK, Aimed, Unblamed
<1>1. CASE Call(o) \/ RetryFails(o)
  BY <1>1 DEF Call, RetryFails, Answered
<1>6. CASE Retry(o)
  BY <1>0, <1>6 DEF Retry, Mints, NoMint
<1>2. CASE CallAnswers(o)
  BY <1>0, <1>2 DEF CallAnswers
<1>3. CASE FailoverLoads(o)
  BY <1>0, <1>3 DEF FailoverLoads
<1>4. CASE CallFails(o)
  <2>1. pc[o] = "calling"
    BY <1>4 DEF CallFails
  <2>2. NumMints # 1
    BY <1>0, <1>4, <2>1 DEF CallFails
  <2>3. /\ blamed' = [blamed EXCEPT ![o] = FailedMint(o)]
        /\ TryNext(o, health', FailedMint(o), 1)
    BY <1>4, <2>2 DEF CallFails
  <2>4. blamed'[o] = FailedMint(o)
    BY <1>0, <2>3
  <2>5. \A n \in Mints : n >= 1 /\ n # FailedMint(o) => health'[n] = "cooling"
    BY <2>3, NoneLeft
  <2> QED
    BY <2>4, <2>5 DEF Mints
<1>5. CASE FailoverMisses(o)
  <2>1. /\ pc[o] = "loading" /\ blamed' = blamed
        /\ health' = [health EXCEPT ![cand[o]] = "cooling"]
        /\ TryNext(o, health', blamed[o], cand[o] + 1)
    BY <1>5 DEF FailoverMisses
  <2>2. \A n \in Mints : n >= cand[o] + 1 /\ n # blamed[o] => health'[n] = "cooling"
    BY <2>1, NoneLeft
  <2>3. CASE m = cand[o]
    BY <1>0, <2>1, <2>3
  <2>4. CASE m # cand[o]
    <3>1. m \in Nat /\ cand[o] \in Nat /\ m >= cand[o]
      BY <1>0, <2>1 DEF Mints
    <3>2. m >= cand[o] + 1
      BY <2>4, <3>1
    <3> QED
      BY <2>1, <2>2, <3>2
  <2> QED
    BY <2>3, <2>4
<1>7. CASE SwitchUnstored(o)
  <2>1. /\ pc[o] = "switched" /\ blamed' = blamed
        /\ health' = [health EXCEPT ![cand[o]] = "cooling"]
        /\ TryNext(o, health', blamed[o], cand[o] + 1)
    BY <1>7 DEF SwitchUnstored
  <2>2. \A n \in Mints : n >= cand[o] + 1 /\ n # blamed[o] => health'[n] = "cooling"
    BY <2>1, NoneLeft
  <2>3. CASE m = cand[o]
    BY <1>0, <2>1, <2>3
  <2>4. CASE m # cand[o]
    <3>1. m \in Nat /\ cand[o] \in Nat /\ m >= cand[o]
      BY <1>0, <2>1 DEF Mints
    <3>2. m >= cand[o] + 1
      BY <2>4, <3>1
    <3> QED
      BY <2>1, <2>2, <3>2
  <2> QED
    BY <2>3, <2>4
<1> QED
  BY <1>1, <1>2, <1>3, <1>4, <1>5, <1>6, <1>7 DEF CallStep

\* The steps of the others leave a call where it stands.
LEMMA OthersKeep ==
    ASSUME TypeInv, NEW o \in Calls, NEW p \in Calls, p # o, Call(p) \/ CallStep(p)
    PROVE  pc'[o] = pc[o]
<1>1. pc \in [Calls -> {"idle", "calling", "loading", "switched", "retrying"} \cup Answered]
  BY DEF TypeInv, TypeOK
<1> QED
  BY <1>1 DEF Call, CallStep, CallAnswers, CallFails, FailoverLoads, FailoverMisses, Retry,
              SwitchUnstored, RetryFails, TryNext

\* A failover of createInvoice or payInvoice reports failure only when each mint
\* but the one it blames was found down within the cooldown, has been tried by this
\* failover, or answered it and could not be stored as the active mint, whatever other calls, health loops and operators have done
\* to the health map and to the active mint between its awaits.
THEOREM FailoverExhaustiveTheorem == Spec => FailoverExhaustive
<1>1. ASSUME TypeInv, Unblamed, [Next]_vars PROVE [\A o \in Calls : Exhausted(o)]_vars
  <2> SUFFICES ASSUME NEW o \in Calls, Next PROVE Exhausted(o)
    BY <1>1
  <2> USE <1>1 DEF Exhausted
  <2>1. CASE \E m \in Mints : Flip(m) \/ CooldownEnds(m)
    BY <2>1 DEF Flip, CooldownEnds, callVars
  <2>2. CASE Boot \/ Crash
    BY <2>2 DEF Boot, Crash, callVars
  <2>3. ASSUME NEW p \in Calls, Call(p) \/ CallStep(p) PROVE Exhausted(o)
    <3>1. CASE p = o
      BY <2>3, <3>1, StepExhausts
    <3>2. CASE p # o
      <4>1. pc'[o] = pc[o]
        BY <2>3, <3>2, OthersKeep
      <4> QED
        BY <4>1
    <3> QED
      BY <3>1, <3>2
  <2>4. ASSUME NEW k \in Checkers, CheckStep(k) PROVE Exhausted(o)
    BY <2>4 DEF CheckStep, StartCheck, Probe, CheckerLoads, CheckerMisses, callVars
  <2>5. ASSUME NEW a \in Admins, AdminAsks(a) \/ AdminLoads(a) PROVE Exhausted(o)
    BY <2>5 DEF AdminAsks, AdminLoads, callVars
  <2> QED
    BY <2>1, <2>2, <2>3, <2>4, <2>5 DEF Next
<1>2. QED
  BY <1>1, FailoverTypeCorrect, StaysUnblamed, PTL DEF Spec, FailoverExhaustive, Exhausted
=============================================================================
