----------------------------- MODULE MintFailover -----------------------------
(***************************************************************************)
(* Which mint NUTbits uses.  One variable, mintManager.activeMintUrl, is   *)
(* moved by three parties that share nothing but the event loop: a call    *)
(* that finds its mint down (withFailover, payInvoice), the health loop,   *)
(* and the operator through POST /api/v1/mints/active.  Each of them reads *)
(* it, awaits an answer of some mint, and writes it.                       *)
(*                                                                         *)
(* A mint is its place in orderedMints: 1 is the primary.  The persisted   *)
(* active mint is left out: initWallet replaces it by the first mint that  *)
(* answers, and without one the process ends (wallet.getMintInfo throws on *)
(* a wallet that was never loaded), so no later step depends on it.        *)
(***************************************************************************)
EXTENDS Naturals

CONSTANTS
    NumMints,    \* how many mints are configured
    Invoices,    \* callers of createInvoice, which runs withFailover
    Payments,    \* callers of payInvoice, up to the melt quote
    Checkers,    \* runs of the health loop that may overlap (setInterval)
    Admins,      \* requests of POST /api/v1/mints/active that may overlap
    StoreFails,  \* TRUE: the write of the active mint may throw
    MaxCrashes   \* bound: restarts of the process after the first start

ASSUME FailoverAssumption ==
    /\ NumMints \in Nat \ {0}
    /\ StoreFails \in BOOLEAN
    /\ MaxCrashes \in Nat
    /\ Invoices \cap Payments = {}

Mints == 1..NumMints
Calls == Invoices \cup Payments
NoMint == 0

VARIABLES
    reach,    \* the mint answers when asked
    running,  \* the process runs
    crashes,  \* restarts so far
    active,   \* mintManager.activeMintUrl
    health,   \* mintManager.mintHealth, the cooldown of lastCheck included
    loaded,   \* the wallets on which loadMint has succeeded
    caps,     \* the mints of mintManager.mintCaps
    pc,       \* where each call stands
    target,   \* the mint the call was made to
    blamed,   \* failedMintUrl of the call's failover
    cand,     \* the candidate its failover is trying
    issuer,   \* the mint that answered with the quote
    tag,      \* the mint the quote is tagged with (quote._mintUrl, payMintUrl)
    stage,    \* where each run of the health loop stands
    probe,    \* the mint it is probing or loading
    limit,    \* activeIdx as it read it
    wanted    \* the mint an operator's request is loading

mintVars    == <<reach>>
procVars    == <<running, crashes>>
managerVars == <<active, health, loaded, caps>>
callVars    == <<pc, target, blamed, cand, issuer, tag>>
checkerVars == <<stage, probe, limit>>
vars == <<mintVars, procVars, managerVars, callVars, checkerVars, wanted>>

Answered == {"done", "failed"}

\* "cooling": found down less than failoverCooldown ago.  "none": no entry.
HealthStates == {"none", "healthy", "cooling", "down"}

Init ==
    /\ reach \in [Mints -> BOOLEAN]
    /\ running = FALSE
    /\ crashes = 0
    /\ active = NoMint
    /\ health = [m \in Mints |-> "none"]
    /\ loaded = {}
    /\ caps = {}
    /\ pc = [o \in Calls |-> "idle"]
    /\ target = [o \in Calls |-> NoMint]
    /\ blamed = [o \in Calls |-> NoMint]
    /\ cand = [o \in Calls |-> NoMint]
    /\ issuer = [o \in Calls |-> NoMint]
    /\ tag = [o \in Calls |-> NoMint]
    /\ stage = [k \in Checkers |-> "idle"]
    /\ probe = [k \in Checkers |-> NoMint]
    /\ limit = [k \in Checkers |-> NoMint]
    /\ wanted = [a \in Admins |-> NoMint]

\* The first mint of S in priority order.
First(S) == IF S = {} THEN NoMint ELSE CHOOSE m \in S : \A n \in S : m <= n

-----------------------------------------------------------------------------
(* The mints, the clock and the process *)

Flip(m) ==
    /\ reach' = [reach EXCEPT ![m] = ~@]
    /\ UNCHANGED <<procVars, managerVars, callVars, checkerVars, wanted>>

CooldownEnds(m) ==
    /\ health[m] = "cooling"
    /\ health' = [health EXCEPT ![m] = "down"]
    /\ UNCHANGED <<mintVars, procVars, active, loaded, caps, callVars,
                   checkerVars, wanted>>

\* initWallet: the first mint that answers, whatever mint was active before.
\* Nothing else of NUTbits runs meanwhile.
Boot ==
    /\ ~running
    /\ \E m \in Mints :
         /\ reach[m]
         /\ \A n \in 1..(m - 1) : ~reach[n]
         /\ running' = TRUE
         /\ active' = m
         /\ health' = [n \in Mints |-> IF n = m THEN "healthy"
                                       ELSE IF n < m THEN "cooling" ELSE "none"]
         /\ loaded' = {m}
         /\ caps' = {m}
    /\ UNCHANGED <<mintVars, crashes, callVars, checkerVars, wanted>>

Crash ==
    /\ running
    /\ crashes < MaxCrashes
    /\ running' = FALSE
    /\ crashes' = crashes + 1
    /\ pc' = [o \in Calls |-> IF pc[o] = "idle" THEN "idle" ELSE "failed"]
    /\ stage' = [k \in Checkers |-> "idle"]
    /\ wanted' = [a \in Admins |-> NoMint]
    /\ UNCHANGED <<mintVars, managerVars, target, blamed, cand, issuer, tag,
                   probe, limit>>

-----------------------------------------------------------------------------
(* createInvoice and payInvoice *)

Call(o) ==
    /\ running
    /\ pc[o] \in {"idle"} \cup Answered
    /\ pc' = [pc EXCEPT ![o] = "calling"]
    /\ target' = [target EXCEPT ![o] = active]
    /\ blamed' = [blamed EXCEPT ![o] = NoMint]
    /\ cand' = [cand EXCEPT ![o] = NoMint]
    /\ issuer' = [issuer EXCEPT ![o] = NoMint]
    /\ tag' = [tag EXCEPT ![o] = NoMint]
    /\ UNCHANGED <<mintVars, procVars, managerVars, checkerVars, wanted>>

\* createInvoice tags the quote with the mint that is active when the answer
\* is there; payInvoice snapshots its mint before it asks.
QuoteTag(o) == IF o \in Invoices THEN active ELSE target[o]

CallAnswers(o) ==
    /\ running
    /\ pc[o] \in {"calling", "retrying"}
    /\ reach[target[o]]
    /\ \/ /\ pc' = [pc EXCEPT ![o] = "done"]
          /\ issuer' = [issuer EXCEPT ![o] = target[o]]
          /\ tag' = [tag EXCEPT ![o] = QuoteTag(o)]
       \/ /\ pc' = [pc EXCEPT ![o] = "failed"]  \* MintOperationError: no failover
          /\ UNCHANGED <<issuer, tag>>
    /\ UNCHANGED <<mintVars, procVars, managerVars, target, blamed, cand,
                   checkerVars, wanted>>

\* Mutants: only mints of lower priority are tried; the failed mint is stepped
\* over without looking at the end of the list.
CandidateBelow(h, failed, from) ==
    First({m \in Mints : m >= from /\ m > failed /\ h[m] # "cooling"})

CandidateUnbounded(h, failed, from) == IF from = failed THEN from + 1 ELSE from

\* The next candidate of the loop over orderedMints: not the failed mint, and
\* not one found down within the cooldown.
Candidate(h, failed, from) ==
    First({m \in Mints : m >= from /\ m # failed /\ h[m] # "cooling"})

TryNext(o, h, failed, from) ==
    LET next == Candidate(h, failed, from)
    IN  /\ cand' = [cand EXCEPT ![o] = next]
        /\ pc' = [pc EXCEPT ![o] = IF next = NoMint THEN "failed" ELSE "loading"]

\* Mutant: payInvoice, too, names the mint that is active when the error comes.
FailedMintNow(o) == active

\* withFailover names the mint that is active NOW as the failed one, payInvoice
\* the mint it asked.
FailedMint(o) == IF o \in Invoices THEN active ELSE target[o]

\* Mutant: an error the mint answers with counts as a mint that is down.
CallFailsOnAnyError(o) ==
    /\ running
    /\ pc[o] = "calling"
    /\ health' = [health EXCEPT ![FailedMint(o)] = "cooling"]
    /\ blamed' = [blamed EXCEPT ![o] = FailedMint(o)]
    /\ TryNext(o, health', FailedMint(o), 1)
    /\ UNCHANGED <<mintVars, procVars, active, loaded, caps, target, issuer, tag,
                   checkerVars, wanted>>

CallFails(o) ==
    /\ running
    /\ pc[o] = "calling"
    /\ ~reach[target[o]]
    /\ IF NumMints = 1
       THEN /\ pc' = [pc EXCEPT ![o] = "failed"]
            /\ UNCHANGED <<health, blamed, cand>>
       ELSE /\ health' = [health EXCEPT ![FailedMint(o)] = "cooling"]
            /\ blamed' = [blamed EXCEPT ![o] = FailedMint(o)]
            /\ TryNext(o, health', FailedMint(o), 1)
    /\ UNCHANGED <<mintVars, procVars, active, loaded, caps, target, issuer, tag,
                   checkerVars, wanted>>

\* Mutant: the capabilities of the new mint are not read.
FailoverLoadsOnly(o) ==
    /\ running
    /\ pc[o] = "loading"
    /\ reach[cand[o]]
    /\ active' = cand[o]
    /\ health' = [health EXCEPT ![cand[o]] = "healthy"]
    /\ loaded' = loaded \cup {cand[o]}
    /\ pc' = [pc EXCEPT ![o] = "switched"]
    /\ UNCHANGED <<mintVars, procVars, caps, target, blamed, cand, issuer, tag,
                   checkerVars, wanted>>

\* loadMint of the candidate answers: it becomes the active mint, and the store is
\* told (Retry, SwitchUnstored).
FailoverLoads(o) ==
    /\ running
    /\ pc[o] = "loading"
    /\ reach[cand[o]]
    /\ active' = cand[o]
    /\ health' = [health EXCEPT ![cand[o]] = "healthy"]
    /\ loaded' = loaded \cup {cand[o]}
    /\ caps' = caps \cup {cand[o]}
    /\ pc' = [pc EXCEPT ![o] = "switched"]
    /\ UNCHANGED <<mintVars, procVars, target, blamed, cand, issuer, tag,
                   checkerVars, wanted>>

FailoverMisses(o) ==
    /\ running
    /\ pc[o] = "loading"
    /\ ~reach[cand[o]]
    /\ health' = [health EXCEPT ![cand[o]] = "cooling"]
    /\ TryNext(o, health', blamed[o], cand[o] + 1)
    /\ UNCHANGED <<mintVars, procVars, active, loaded, caps, target, blamed, issuer,
                   tag, checkerVars, wanted>>

\* setActiveMintUrl throws inside the same try as loadMint: a mint that has just
\* answered, and stays the active one, is marked down, and the loop goes on.
SwitchUnstored(o) ==
    /\ StoreFails
    /\ running
    /\ pc[o] = "switched"
    /\ health' = [health EXCEPT ![cand[o]] = "cooling"]
    /\ TryNext(o, health', blamed[o], cand[o] + 1)
    /\ UNCHANGED <<mintVars, procVars, active, loaded, caps, target, blamed, issuer,
                   tag, checkerVars, wanted>>

\* Mutant: the retry goes to the wallet the first attempt used.
RetryOldWallet(o) ==
    /\ running
    /\ pc[o] = "switched"
    /\ pc' = [pc EXCEPT ![o] = IF o \in Invoices THEN "retrying" ELSE "failed"]
    /\ UNCHANGED <<mintVars, procVars, managerVars, target, blamed, cand, issuer,
                   tag, checkerVars, wanted>>

\* Mutant: the retry runs under withFailover again.
RetryCalls(o) ==
    /\ running
    /\ pc[o] = "switched"
    /\ pc' = [pc EXCEPT ![o] = "calling"]
    /\ target' = [target EXCEPT ![o] = active]
    /\ UNCHANGED <<mintVars, procVars, managerVars, blamed, cand, issuer, tag,
                   checkerVars, wanted>>

\* setActiveMintUrl is stored.  withFailover runs the operation once more, on
\* the wallet of the mint active now; payInvoice gives the error to its caller.
Retry(o) ==
    /\ running
    /\ pc[o] = "switched"
    /\ IF o \in Invoices
       THEN /\ pc' = [pc EXCEPT ![o] = "retrying"]
            /\ target' = [target EXCEPT ![o] = active]
       ELSE /\ pc' = [pc EXCEPT ![o] = "failed"]
            /\ UNCHANGED target
    /\ UNCHANGED <<mintVars, procVars, managerVars, blamed, cand, issuer, tag,
                   checkerVars, wanted>>

RetryFails(o) ==
    /\ running
    /\ pc[o] = "retrying"
    /\ ~reach[target[o]]
    /\ pc' = [pc EXCEPT ![o] = "failed"]
    /\ UNCHANGED <<mintVars, procVars, managerVars, target, blamed, cand, issuer,
                   tag, checkerVars, wanted>>

-----------------------------------------------------------------------------
(* The health loop: probe every mint, then move up to the first healthy one *)

StartCheck(k) ==
    /\ running
    /\ NumMints > 1
    /\ stage[k] = "idle"
    /\ stage' = [stage EXCEPT ![k] = "probing"]
    /\ probe' = [probe EXCEPT ![k] = 1]
    /\ UNCHANGED <<mintVars, procVars, managerVars, callVars, limit, wanted>>

\* Mutant: the loop over the mints above the active one starts at the second.
MoveUpFromSecond(k, h, from, below) ==
    LET next == First({m \in Mints : m >= from /\ 1 < m /\ m < below /\ h[m] = "healthy"})
    IN  /\ probe' = [probe EXCEPT ![k] = next]
        /\ stage' = [stage EXCEPT ![k] = IF next = NoMint THEN "idle" ELSE "loading"]

\* The next mint above the active one that is marked healthy, if any.
MoveUp(k, h, from, below) ==
    LET next == First({m \in Mints : m >= from /\ m < below /\ h[m] = "healthy"})
    IN  /\ probe' = [probe EXCEPT ![k] = next]
        /\ stage' = [stage EXCEPT ![k] = IF next = NoMint THEN "idle" ELSE "loading"]

Probe(k) ==
    /\ running
    /\ stage[k] = "probing"
    /\ health' = [health EXCEPT ![probe[k]] = IF reach[probe[k]] THEN "healthy" ELSE "cooling"]
    /\ \/ /\ probe[k] < NumMints
          /\ probe' = [probe EXCEPT ![k] = @ + 1]
          /\ UNCHANGED <<stage, limit>>
       \/ /\ probe[k] = NumMints
          /\ limit' = [limit EXCEPT ![k] = active]
          /\ MoveUp(k, health', 1, active)
    /\ UNCHANGED <<mintVars, procVars, active, loaded, caps, callVars, wanted>>

\* Mutant: the switch does not load the wallet first.
CheckerSwitchesOnly(k) ==
    /\ running
    /\ stage[k] = "loading"
    /\ active' = probe[k]
    /\ stage' = [stage EXCEPT ![k] = "idle"]
    /\ probe' = [probe EXCEPT ![k] = NoMint]
    /\ UNCHANGED <<mintVars, procVars, health, loaded, caps, callVars, limit, wanted>>

\* loadMint answers: switch, and read no capabilities.  The store is told last; when
\* that throws nothing is left to do, and the process goes on or ends (Crash).
CheckerLoads(k) ==
    /\ running
    /\ stage[k] = "loading"
    /\ reach[probe[k]]
    /\ active' = probe[k]
    /\ loaded' = loaded \cup {probe[k]}
    /\ stage' = [stage EXCEPT ![k] = "idle"]
    /\ probe' = [probe EXCEPT ![k] = NoMint]
    /\ UNCHANGED <<mintVars, procVars, health, caps, callVars, limit, wanted>>

CheckerMisses(k) ==
    /\ running
    /\ stage[k] = "loading"
    /\ ~reach[probe[k]]
    /\ MoveUp(k, health, probe[k] + 1, limit[k])
    /\ UNCHANGED <<mintVars, procVars, managerVars, callVars, limit, wanted>>

-----------------------------------------------------------------------------
(* POST /api/v1/mints/active.  Here, too, the store is told last: a write that *)
(* throws changes the answer to the operator only.                            *)

AdminAsks(a) ==
    /\ running
    /\ wanted[a] = NoMint
    /\ \E m \in Mints \ {active} : wanted' = [wanted EXCEPT ![a] = m]
    /\ UNCHANGED <<mintVars, procVars, managerVars, callVars, checkerVars>>

AdminLoads(a) ==
    /\ running
    /\ wanted[a] # NoMint
    /\ \/ /\ reach[wanted[a]]
          /\ active' = wanted[a]
          /\ health' = [health EXCEPT ![wanted[a]] = "healthy"]
          /\ loaded' = loaded \cup {wanted[a]}
          /\ caps' = caps \cup {wanted[a]}
       \/ /\ ~reach[wanted[a]]
          /\ health' = [health EXCEPT ![wanted[a]] = "cooling"]
          /\ UNCHANGED <<active, loaded, caps>>
    /\ wanted' = [wanted EXCEPT ![a] = NoMint]
    /\ UNCHANGED <<mintVars, procVars, callVars, checkerVars>>

-----------------------------------------------------------------------------
CallStep(o) ==
    \/ CallAnswers(o) \/ CallFails(o) \/ FailoverLoads(o) \/ FailoverMisses(o)
    \/ Retry(o) \/ SwitchUnstored(o) \/ RetryFails(o)

CheckStep(k) == StartCheck(k) \/ Probe(k) \/ CheckerLoads(k) \/ CheckerMisses(k)

Next ==
    \/ \E m \in Mints : Flip(m) \/ CooldownEnds(m)
    \/ Boot \/ Crash
    \/ \E o \in Calls : Call(o) \/ CallStep(o)
    \/ \E k \in Checkers : CheckStep(k)
    \/ \E a \in Admins : AdminAsks(a) \/ AdminLoads(a)

Spec == Init /\ [][Next]_vars

\* A call to a mint is answered or times out, setInterval fires again and again,
\* and a stopped process is started again.
Fairness ==
    /\ \A o \in Calls : WF_vars(CallStep(o))
    /\ \A k \in Checkers : WF_vars(CheckStep(k))
    /\ \A a \in Admins : WF_vars(AdminLoads(a))
    /\ WF_vars(Boot)

FairSpec == Spec /\ Fairness

-----------------------------------------------------------------------------
(* Properties *)

\* Every variable holds a value of its kind.
TypeOK ==
    /\ reach \in [Mints -> BOOLEAN]
    /\ running \in BOOLEAN /\ crashes \in Nat
    /\ active \in Mints \cup {NoMint}
    /\ health \in [Mints -> HealthStates]
    /\ loaded \in SUBSET Mints /\ caps \in SUBSET Mints
    /\ pc \in [Calls -> {"idle", "calling", "loading", "switched", "retrying"} \cup Answered]
    /\ target \in [Calls -> Mints \cup {NoMint}]
    /\ blamed \in [Calls -> Mints \cup {NoMint}]
    /\ cand \in [Calls -> Mints \cup {NoMint}]
    /\ issuer \in [Calls -> Mints \cup {NoMint}]
    /\ tag \in [Calls -> Mints \cup {NoMint}]
    /\ stage \in [Checkers -> {"idle", "probing", "loading"}]
    /\ probe \in [Checkers -> Mints \cup {NoMint}]
    /\ limit \in [Checkers -> Mints \cup {NoMint}]
    /\ wanted \in [Admins -> Mints \cup {NoMint}]

\* Whoever moved it last, the active mint's wallet has its keysets: an invoice
\* or a payment never starts on a wallet that was created and not loaded.
ActiveWalletLoaded == running => active \in loaded

\* NUTbits knows what the mint it uses supports (DLEQ proofs, restore,
\* subscriptions): verifyProofsDleq skips a mint it knows nothing of.
ActiveCapsKnown == running => active \in caps

\* A quote is tagged with the mint that issued it: its payment is looked for
\* there and its tokens are stored there.
QuoteTaggedWithIssuer == \A o \in Calls : pc[o] = "done" => tag[o] = issuer[o]

\* A mint that answers is marked down for two reasons only: an invoice whose mint
\* did not answer names the one that became active meanwhile, and a failover cannot
\* store its switch to it.  Payments, health loops, operators and the start mark
\* the mint that did not answer them.
NoFalseBlame ==
    [][\A m \in Mints : (health'[m] = "cooling" /\ health[m] # "cooling") =>
          \/ ~reach[m]
          \/ \E o \in Invoices : /\ pc[o] = "calling" /\ ~reach[target[o]]
                                /\ active = m /\ target[o] # m
          \/ \E o \in Calls : pc[o] = "switched" /\ cand[o] = m /\ StoreFails]_vars

\* A failover gives up only when no mint is left to try: each of the others was
\* found down within the cooldown, by whoever asked it last, or has been tried
\* by this failover, or answered it and could not be stored.
FailoverExhaustive ==
    [][\A o \in Calls :
          (/\ pc[o] \in {"calling", "loading", "switched"} /\ pc'[o] = "failed"
           /\ blamed'[o] # NoMint /\ cand'[o] = NoMint /\ running')
          => \A m \in Mints \ {blamed'[o]} :
                (pc[o] = "calling" \/ m >= cand[o]) => health'[m] = "cooling"]_vars

\* The health loop only ever moves to a mint of higher priority.
RecoveryGoesUp ==
    [][\A k \in Checkers : (stage[k] = "loading" /\ active' # active
                              /\ stage' # stage /\ stage'[k] = "idle") => active' < active]_vars

\* A primary mint that is back for good is the active mint again, whatever
\* calls, operators and restarts do meanwhile.
PrimaryReturns == (<>[]reach[1]) => []<>(running /\ active = 1)

\* createInvoice and payInvoice come back to their caller: no failover loops.
EveryCallAnswered == \A o \in Calls : pc[o] = "calling" ~> pc[o] \in Answered
=============================================================================
