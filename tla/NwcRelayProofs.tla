---------------------------- MODULE NwcRelayProofs ----------------------------
(***************************************************************************)
(* Theorems about NwcRelay, for any number of relays, requests, foreign       *)
(* events, broken sockets and restarts, and any size and age of the map of    *)
(* processed events: a revoked connection stays quiet, and no request is      *)
(* handled again without the excuse that its entry was dropped.               *)
(***************************************************************************)
EXTENDS NwcRelay, WellFoundedInduction, TLAPS

\* The operator is told when memory and store both say revoked; a revoked
\* connection has no pool, nor has a stopped process.
QuietInv ==
    /\ told => revoked = TRUE /\ revokedRow = TRUE
    /\ revoked => pooled = FALSE
    /\ ~up => pooled = FALSE

\* At the start nothing is revoked.
LEMMA QuietInit == Init => QuietInv
BY DEF Init, QuietInv

\* A pool is made only of a running process and a connection that is not revoked.
LEMMA QuietStep ==
    ASSUME QuietInv, [Next]_vars
    PROVE  QuietInv'
<1> USE DEF QuietInv
<1>1. CASE UNCHANGED <<up, told, revoked, revokedRow, pooled>>
  BY <1>1
<1>2. CASE LoopStep
  <2>1. UNCHANGED <<up, told, revoked, revokedRow, pooled>>
    BY <1>2 DEF LoopStep, Dial, Skip, DialFails, DialOpens, Greeted, Wake, procVars,
       connVars, sockVars
  <2> QED
    BY <2>1
<1>3. CASE \E r \in Relays : Drop(r) \/ \E e \in Requests : Deliver(r, e)
  <2>1. UNCHANGED <<up, told, revoked, revokedRow, pooled>>
    BY <1>3 DEF Drop, Deliver, procVars, connVars
  <2> QED
    BY <2>1
<1>4. CASE \E e \in Requests : Publish(e) \/ Respond(e)
  <2>1. UNCHANGED <<up, told, revoked, revokedRow, pooled>>
    BY <1>4 DEF Publish, Respond, procVars, connVars, sockVars
  <2> QED
    BY <2>1
<1>5. CASE DeliverForeign \/ Tick
  <2>1. UNCHANGED <<up, told, revoked, revokedRow, pooled>>
    BY <1>5 DEF DeliverForeign, Tick, procVars, connVars, sockVars
  <2> QED
    BY <2>1
<1>6. CASE Revoke
  BY <1>6 DEF Revoke, procVars
<1>7. CASE RevokeStored
  BY <1>7 DEF RevokeStored, procVars, sockVars
<1>8. CASE Crash
  BY <1>8 DEF Crash, connVars
<1>9. CASE Boot
  BY <1>9 DEF Boot
<1>10. CASE UNCHANGED vars
  BY <1>10 DEF vars, procVars, connVars, sockVars
<1> QED
  BY <1>1, <1>2, <1>3, <1>4, <1>5, <1>6, <1>7, <1>8, <1>9, <1>10 DEF Next

\* After the operator is told, a step handles nothing and answers nothing: the
\* event loop refuses what is revoked, and there is no pool to answer to.
LEMMA ToldIsQuiet ==
    ASSUME QuietInv, [Next]_vars, told
    PROVE  handled' = handled /\ answered' = answered
<1>1. revoked = TRUE /\ pooled = FALSE
  BY DEF QuietInv
<1>2. CASE LoopStep
  BY <1>2 DEF LoopStep, Dial, Skip, DialFails, DialOpens, Greeted, Wake, evtVars
<1>3. ASSUME NEW r \in Relays, NEW e \in Requests, Deliver(r, e)
      PROVE  handled' = handled /\ answered' = answered
  BY <1>1, <1>3 DEF Deliver, Accepts
<1>4. ASSUME NEW r \in Relays, Drop(r)
      PROVE  handled' = handled /\ answered' = answered
  BY <1>4 DEF Drop, evtVars
<1>5. ASSUME NEW e \in Requests, Publish(e)
      PROVE  handled' = handled /\ answered' = answered
  BY <1>5 DEF Publish
<1>6. ASSUME NEW e \in Requests, Respond(e)
      PROVE  handled' = handled /\ answered' = answered
  <2>1. Reachable = {}
    BY <1>1 DEF Reachable
  <2> QED
    BY <1>6, <2>1 DEF Respond
<1>7. CASE DeliverForeign \/ Revoke \/ RevokeStored \/ Tick \/ Crash \/ Boot \/ UNCHANGED vars
  BY <1>7 DEF DeliverForeign, Revoke, RevokeStored, Tick, Crash, Boot, evtVars, vars
<1> QED
  BY <1>2, <1>3, <1>4, <1>5, <1>6, <1>7 DEF Next

\* A connection whose revocation was confirmed never handles or answers a request
\* again, whatever the reconnection loop opens and however often the process
\* restarts.
THEOREM RevokedStaysQuietTheorem == Spec => RevokedStaysQuiet
<1>1. QuietInv /\ [Next]_vars => QuietInv'
  BY QuietStep
<1>2. Spec => []QuietInv
  BY QuietInit, <1>1, PTL DEF Spec
<1>3. QuietInv /\ [Next]_vars => [told => handled' = handled /\ answered' = answered]_vars
  BY ToldIsQuiet
<1> QED
  BY <1>2, <1>3, PTL DEF Spec, RevokedStaysQuiet

-----------------------------------------------------------------------------
(* Types *)

Entries == [id : Events, at : Nat]

\* The types, and that the clock has run for at least the clients' error.
RelayInv == TypeOK /\ clock >= Skew

\* What is assumed of the constants.
LEMMA RelayParams ==
    /\ NumRelays \in Nat /\ NumRelays >= 1 /\ MaxForeign \in Nat
    /\ Skew \in Nat /\ MaxTime \in Nat /\ NotYet \in Nat
    /\ DedupMax \in Nat /\ DedupMax >= 1 /\ DedupTTL \in Nat
    /\ DedupMax \div 2 \in Nat /\ DedupMax \div 2 <= DedupMax
<1>1. \A n \in Nat : n \div 2 \in Nat /\ n \div 2 <= n
  OBVIOUS
<1> QED
  BY <1>1, RelayAssumption DEF NotYet

\* The first index that qualifies is found: the loop that drops entries stops
\* at it.
LEMMA LeastFound ==
    ASSUME NEW I \in SUBSET Nat, I # {}
    PROVE  Min(I) \in I /\ \A i \in I : Min(I) <= i
<1>1. PICK m \in I : \A n \in I : <<n, m>> \notin OpToRel(<, Nat)
  BY NatLessThanWellFounded, WFMin
<1>2. \A n \in I : ~(n < m)
  BY <1>1 DEF OpToRel
<1>3. \A n \in I : m <= n
  BY <1>2
<1> QED
  BY <1>3 DEF Min

\* What is left when the entries before the p-th are dropped.
LEMMA DropFront ==
    ASSUME NEW s \in Seq(Entries), NEW p \in 1..(Len(s) + 1)
    PROVE  LET t == SubSeq(s, p, Len(s))
           IN  /\ t \in Seq(Entries) /\ Len(t) = Len(s) - p + 1
               /\ \A j \in 1..Len(t) : t[j] = s[Len(s) - Len(t) + j]
<1> DEFINE t == SubSeq(s, p, Len(s))
<1>1. t \in Seq(Entries)
  OBVIOUS
<1>2. Len(t) = Len(s) - p + 1
  OBVIOUS
<1>3. \A j \in 1..(Len(s) - p + 1) : t[j] = s[p + j - 1]
  OBVIOUS
<1> HIDE DEF t
<1>4. \A j \in 1..Len(t) : t[j] = s[Len(s) - Len(t) + j]
  <2> SUFFICES ASSUME NEW j \in 1..Len(t) PROVE t[j] = s[Len(s) - Len(t) + j]
    OBVIOUS
  <2>1. p + j - 1 = Len(s) - Len(t) + j
    BY <1>2
  <2> QED
    BY <1>2, <1>3, <2>1
<1> QED
  BY <1>1, <1>2, <1>4 DEF t

\* The entry isDuplicate makes.
Entry(e) == [id |-> e, at |-> clock]

\* What isDuplicate keeps is the end of the map it found and the new entry; what
\* it drops has expired, or more than half the cap was entered after it.
LEMMA Remembered ==
    ASSUME RelayInv, NEW e \in Events, NEW grown, grown = Append(seen, Entry(e))
    PROVE  /\ Remember(e) \in Seq(Entries) /\ Len(Remember(e)) <= Len(grown)
           /\ \A j \in 1..Len(Remember(e)) :
                 Remember(e)[j] = grown[Len(grown) - Len(Remember(e)) + j]
           /\ \A i \in 1..(Len(grown) - Len(Remember(e))) :
                 clock - grown[i].at > DedupTTL \/ Len(grown) - i >= DedupMax \div 2
<1> DEFINE I == {i \in 1..Len(grown) : clock - grown[i].at <= DedupTTL}
           m == Min(I)
           fresh == SubSeq(grown, m, Len(grown))
           half == SubSeq(fresh, Len(fresh) - DedupMax \div 2 + 1, Len(fresh))
<1>1. /\ seen \in Seq(Entries) /\ clock \in Nat /\ Entry(e) \in Entries /\ Entry(e).at = clock
  BY DEF RelayInv, TypeOK, Entries, Entry
<1>2. /\ grown \in Seq(Entries) /\ Len(grown) \in Nat /\ Len(grown) >= 1
      /\ grown[Len(grown)] = Entry(e)
  BY <1>1
<1>3. Len(grown) \in I /\ I \in SUBSET (1..Len(grown)) /\ I \in SUBSET Nat
  <2>1. clock - grown[Len(grown)].at <= DedupTTL
    BY <1>1, <1>2, RelayParams
  <2> QED
    BY <1>2, <2>1
<1>4. m \in I /\ \A i \in I : m <= i
  <2> HIDE DEF I
  <2> QED
    BY <1>3, LeastFound
<1>5. Remember(e) = IF Len(grown) <= DedupMax THEN grown
                    ELSE IF Len(fresh) <= DedupMax THEN fresh ELSE half
  <2>1. SelectInSeq(grown, LAMBDA x : clock - x.at <= DedupTTL) = m
    BY <1>3 DEF SelectInSeq
  <2>2. grown = Append(seen, [id |-> e, at |-> clock])
    BY DEF Entry
  <2> QED
    BY <2>1, <2>2 DEF Remember
<1>6. m \in 1..Len(grown)
  <2> HIDE DEF I, m
  <2> QED
    BY <1>3, <1>4
<1>7. \A i \in 1..Len(grown) : grown[i].at \in Nat
  <2>1. \A i \in 1..Len(grown) : grown[i] \in Entries
    BY <1>2
  <2> QED
    BY <2>1 DEF Entries
<1>8. ASSUME NEW i \in 1..(m - 1) PROVE i \in 1..Len(grown) /\ clock - grown[i].at > DedupTTL
  <2> HIDE DEF m
  <2>1. i \in 1..Len(grown)
    BY <1>2, <1>6, <1>8
  <2>2. ~(m <= i)
    BY <1>2, <1>6, <1>8
  <2>3. i \notin I
    <3> HIDE DEF I
    <3> QED
      BY <1>4, <2>2
  <2>4. ~(clock - grown[i].at <= DedupTTL)
    BY <2>1, <2>3
  <2> QED
    BY <1>1, <1>7, <2>1, <2>4, RelayParams
<1> HIDE DEF I, m
<1>9. /\ fresh \in Seq(Entries) /\ Len(fresh) = Len(grown) - m + 1
      /\ \A j \in 1..Len(fresh) : fresh[j] = grown[Len(grown) - Len(fresh) + j]
  <2>1. m \in 1..(Len(grown) + 1)
    BY <1>2, <1>6
  <2> QED
    BY <1>2, <2>1, DropFront
<1> HIDE DEF fresh
<1>10. Len(fresh) \in Nat /\ Len(fresh) <= Len(grown) /\ DedupMax \div 2 \in Nat
       /\ DedupMax \div 2 <= DedupMax /\ DedupMax \in Nat
  BY <1>2, <1>6, <1>9, RelayParams
<1>11. CASE Len(grown) <= DedupMax
  BY <1>2, <1>5, <1>11
<1>12. CASE Len(grown) > DedupMax /\ Len(fresh) <= DedupMax
  <2>1. Remember(e) = fresh
    BY <1>2, <1>5, <1>10, <1>12
  <2>2. Len(grown) - Len(fresh) = m - 1
    BY <1>2, <1>6, <1>9
  <2> QED
    BY <1>8, <1>9, <1>10, <2>1, <2>2
<1>13. CASE Len(grown) > DedupMax /\ Len(fresh) > DedupMax
  <2>1. Remember(e) = half
    BY <1>2, <1>5, <1>10, <1>13
  <2> DEFINE h == DedupMax \div 2
  <2>0. h \in Nat /\ h <= Len(fresh) /\ h <= Len(grown)
    BY <1>2, <1>10, <1>13
  <2>2. Len(fresh) - h + 1 \in 1..(Len(fresh) + 1)
    <3> HIDE DEF h
    <3> QED
      BY <1>10, <2>0
  <2>3. /\ half \in Seq(Entries)
        /\ Len(half) = Len(fresh) - (Len(fresh) - h + 1) + 1
        /\ \A j \in 1..Len(half) : half[j] = fresh[Len(fresh) - Len(half) + j]
    BY <1>9, <2>2, DropFront
  <2> HIDE DEF half, h
  <2>4. Len(half) = h
    BY <1>10, <2>0, <2>3
  <2>5. \A j \in 1..Len(half) : half[j] = grown[Len(grown) - Len(half) + j]
    <3> SUFFICES ASSUME NEW j \in 1..Len(half) PROVE half[j] = grown[Len(grown) - Len(half) + j]
      OBVIOUS
    <3>1. /\ Len(fresh) - Len(half) + j \in 1..Len(fresh)
          /\ Len(grown) - Len(fresh) + (Len(fresh) - Len(half) + j) = Len(grown) - Len(half) + j
      BY <1>2, <1>10, <2>0, <2>4
    <3> QED
      BY <1>9, <2>3, <3>1
  <2>6. \A i \in 1..(Len(grown) - Len(half)) : Len(grown) - i >= h
    BY <1>2, <2>0, <2>4
  <2> QED
    BY <2>0, <2>1, <2>3, <2>4, <2>5, <2>6 DEF h
<1>14. \/ Len(grown) <= DedupMax
       \/ Len(grown) > DedupMax /\ Len(fresh) <= DedupMax
       \/ Len(grown) > DedupMax /\ Len(fresh) > DedupMax
  BY <1>2, <1>10
<1> QED
  BY <1>11, <1>12, <1>13, <1>14, Zenon

\* The loop's step to the next slot stays within the relays.
LEMMA SlotTyped ==
    ASSUME slot \in Relays, NextSlot, loop \in {"off", "boot", "asleep", "scan"}
    PROVE  slot' \in Relays /\ loop' \in {"off", "boot", "asleep", "scan"}
BY RelayParams DEF NextSlot, Relays

\* Closing sockets keeps the types.
LEMMA CloseTyped ==
    ASSUME NEW S, CloseSockets(S), since \in [Relays -> Nat],
           sock \in [Relays -> {"open", "closed"}], sent \in [Relays -> SUBSET Requests]
    PROVE  /\ sock' \in [Relays -> {"open", "closed"}] /\ since' \in [Relays -> Nat]
           /\ sent' \in [Relays -> SUBSET Requests]
BY DEF CloseSockets

\* The steps of the loop keep the types.
LEMMA TypedLoop ==
    ASSUME RelayInv, LoopStep
    PROVE  RelayInv'
<1> USE DEF RelayInv, procVars, connVars, loopVars, sockVars, evtVars
<1>1. CASE Dial
  BY <1>1 DEF Dial, TypeOK
<1>2. CASE Skip
  BY <1>2, SlotTyped DEF Skip, TypeOK
<1>3. ASSUME Place
      PROVE  /\ dial' \in {"no", "opening", "greeting"} /\ slot' \in Relays
             /\ loop' \in {"off", "boot", "asleep", "scan"} /\ member' \in SUBSET Relays
  BY <1>3, SlotTyped DEF Place, TypeOK
<1>4. CASE DialFails
  <2>1. /\ sock' \in [Relays -> {"open", "closed"}] /\ since' \in [Relays -> Nat]
        /\ sent' \in [Relays -> SUBSET Requests]
    BY <1>4, CloseTyped DEF DialFails, TypeOK
  <2> QED
    BY <1>3, <1>4, <2>1 DEF DialFails, TypeOK
<1>5. CASE DialOpens
  BY <1>5 DEF DialOpens, TypeOK
<1>6. CASE Greeted
  BY <1>3, <1>6 DEF Greeted, TypeOK
<1>7. CASE Wake
  BY <1>7 DEF Wake, TypeOK
<1> QED
  BY <1>1, <1>2, <1>4, <1>5, <1>6, <1>7 DEF LoopStep

\* The events, the operator, the clock and the process keep the types.
LEMMA TypedEvents ==
    ASSUME RelayInv,
           \/ \E r \in Relays : Drop(r) \/ \E e \in Requests : Deliver(r, e)
           \/ \E e \in Requests : Publish(e) \/ Respond(e)
           \/ DeliverForeign \/ Revoke \/ RevokeStored \/ Tick \/ Crash \/ Boot
    PROVE  RelayInv'
<1> USE DEF RelayInv, procVars, connVars, loopVars, sockVars, evtVars
<1>1. ASSUME NEW r \in Relays, Drop(r) PROVE RelayInv'
  <2>1. /\ sock' \in [Relays -> {"open", "closed"}] /\ since' \in [Relays -> Nat]
        /\ sent' \in [Relays -> SUBSET Requests]
    BY <1>1, CloseTyped DEF Drop, TypeOK
  <2> QED
    BY <1>1, <2>1 DEF Drop, TypeOK
<1>2. ASSUME NEW e \in Events
      PROVE  /\ Remember(e) \in Seq([id : Events, at : Nat])
             /\ Append(arrivals, [id |-> e, at |-> clock]) \in Seq([id : Events, at : Nat])
  <2>1. Remember(e) \in Seq(Entries)
    BY <1>2, Remembered
  <2>2. [id |-> e, at |-> clock] \in Entries /\ arrivals \in Seq(Entries)
    BY <1>2 DEF TypeOK, Entries
  <2> QED
    BY <2>1, <2>2 DEF Entries
<1>3. ASSUME NEW r \in Relays, NEW e \in Requests, Deliver(r, e) PROVE RelayInv'
  <2>1. seen' \in Seq([id : Events, at : Nat]) /\ arrivals' \in Seq([id : Events, at : Nat])
    BY <1>2, <1>3 DEF Deliver, TypeOK, Events
  <2>2. /\ sent' \in [Relays -> SUBSET Requests] /\ pending' \in SUBSET Requests
        /\ handled' \in [Requests -> Nat]
    BY <1>3 DEF Deliver, TypeOK
  <2> QED
    BY <1>3, <2>1, <2>2 DEF Deliver, TypeOK
<1>4. ASSUME NEW e \in Requests, Publish(e) PROVE RelayInv'
  <2>1. created' \in [Requests -> Nat]
    BY <1>4, RelayParams DEF Publish, TypeOK
  <2> QED
    BY <1>4, <2>1 DEF Publish, TypeOK
<1>5. ASSUME NEW e \in Requests, Respond(e) PROVE RelayInv'
  BY <1>5 DEF Respond, TypeOK
<1>6. CASE DeliverForeign
  <2>1. foreign' \in Nat /\ foreign' \in Events
    BY <1>6, RelayParams DEF DeliverForeign, TypeOK, Events, Foreign
  <2>2. seen' \in Seq([id : Events, at : Nat]) /\ arrivals' \in Seq([id : Events, at : Nat])
    BY <1>2, <1>6, <2>1 DEF DeliverForeign, TypeOK
  <2> QED
    BY <1>6, <2>1, <2>2 DEF DeliverForeign, TypeOK
<1>7. CASE Revoke
  <2>1. /\ sock' \in [Relays -> {"open", "closed"}] /\ since' \in [Relays -> Nat]
        /\ sent' \in [Relays -> SUBSET Requests]
    BY <1>7, CloseTyped DEF Revoke, TypeOK
  <2> QED
    BY <1>7, <2>1 DEF Revoke, TypeOK
<1>8. CASE RevokeStored
  BY <1>8 DEF RevokeStored, TypeOK
<1>9. CASE Tick
  BY <1>9, RelayParams DEF Tick, TypeOK
<1>10. CASE Crash
  <2>1. /\ sock' \in [Relays -> {"open", "closed"}] /\ since' \in [Relays -> Nat]
        /\ sent' \in [Relays -> SUBSET Requests]
    BY <1>10, CloseTyped DEF Crash, TypeOK
  <2>2. /\ seen' \in Seq([id : Events, at : Nat]) /\ arrivals' \in Seq([id : Events, at : Nat])
        /\ slot' \in Relays
    BY <1>10, RelayParams DEF Crash, Relays
  <2>3. /\ up' \in BOOLEAN /\ crashes' \in Nat /\ pooled' \in BOOLEAN
        /\ loop' \in {"off", "boot", "asleep", "scan"} /\ dial' \in {"no", "opening", "greeting"}
        /\ member' \in SUBSET Relays /\ pending' \in SUBSET Requests
    <3>1. crashes' \in Nat
      BY <1>10 DEF Crash, TypeOK
    <3>2. up' \in BOOLEAN /\ pooled' \in BOOLEAN
      BY <1>10 DEF Crash
    <3>3. /\ loop' \in {"off", "boot", "asleep", "scan"} /\ dial' \in {"no", "opening", "greeting"}
          /\ member' \in SUBSET Relays /\ pending' \in SUBSET Requests
      BY <1>10 DEF Crash
    <3> QED
      BY <3>1, <3>2, <3>3
  <2> QED
    BY <1>10, <2>1, <2>2, <2>3 DEF Crash, TypeOK
<1>11. CASE Boot
  BY <1>11 DEF Boot, TypeOK
<1> QED
  BY <1>1, <1>3, <1>4, <1>5, <1>6, <1>7, <1>8, <1>9, <1>10, <1>11

\* In every reachable state the variables are well typed: the loop never leaves
\* the list of relays, and the map of processed events holds events.
THEOREM RelayTypeCorrect == Spec => []RelayInv
<1>1. Init => RelayInv
  <2> SUFFICES ASSUME Init PROVE RelayInv
    OBVIOUS
  <2>1. /\ clock \in Nat /\ bootAt \in Nat /\ clock >= Skew /\ slot \in Relays
        /\ member \in SUBSET Relays /\ up \in BOOLEAN /\ pooled \in BOOLEAN
    BY RelayParams DEF Init, Relays
  <2>2. /\ sock \in [Relays -> {"open", "closed"}] /\ since \in [Relays -> Nat]
        /\ sent \in [Relays -> SUBSET Requests]
    BY DEF Init
  <2>3. /\ created \in [Requests -> Nat] /\ handled \in [Requests -> Nat]
        /\ pending \in SUBSET Requests /\ answered \in SUBSET Requests
    BY RelayParams DEF Init
  <2>4. /\ seen \in Seq([id : Events, at : Nat]) /\ arrivals \in Seq([id : Events, at : Nat])
    BY DEF Init
  <2> QED
    BY <2>1, <2>2, <2>3, <2>4 DEF Init, RelayInv, TypeOK
<1>2. RelayInv /\ [Next]_vars => RelayInv'
  <2>1. CASE UNCHANGED vars
    BY <2>1 DEF vars, procVars, connVars, loopVars, sockVars, evtVars, RelayInv, TypeOK
  <2> QED
    BY <2>1, TypedLoop, TypedEvents DEF Next
<1> QED
  BY <1>1, <1>2, PTL DEF Spec

-----------------------------------------------------------------------------
(* A request is handled again only when its entry was dropped *)

\* A socket is open in a run of the process, and its subscription asks for
\* nothing from before the run.
SinceInv ==
    /\ bootAt <= clock
    /\ \A r \in Relays : Open(r) => up = TRUE /\ since[r] >= bootAt

\* The map is the end of what has arrived; whatever arrived before has expired,
\* or more than half the cap has arrived since.
SeenInv ==
    /\ Len(seen) <= Len(arrivals)
    /\ \A j \in 1..Len(seen) : seen[j] = arrivals[Len(arrivals) - Len(seen) + j]
    /\ \A i \in 1..(Len(arrivals) - Len(seen)) :
          clock - arrivals[i].at > DedupTTL \/ Len(arrivals) - i >= DedupMax \div 2

\* Sockets open with the clock of the run they belong to and end with it.
LEMMA SinceStep ==
    ASSUME RelayInv, SinceInv, [Next]_vars
    PROVE  SinceInv'
<1>0. /\ sock \in [Relays -> {"open", "closed"}] /\ since \in [Relays -> Nat]
      /\ clock \in Nat /\ bootAt \in Nat
  BY DEF RelayInv, TypeOK
<1> USE DEF SinceInv, Open
<1>1. CASE UNCHANGED <<clock, bootAt, up, sock, since>>
  BY <1>1
<1>2. ASSUME NEW S, CloseSockets(S), UNCHANGED <<clock, bootAt, up>> PROVE SinceInv'
  BY <1>2 DEF CloseSockets
<1>3. CASE DialOpens
  <2>1. /\ sock' = [sock EXCEPT ![slot] = "open"] /\ since' = [since EXCEPT ![slot] = clock]
        /\ up /\ UNCHANGED <<clock, bootAt, up>>
    BY <1>3 DEF DialOpens, procVars
  <2>2. up = TRUE
    BY <2>1 DEF RelayInv, TypeOK
  <2>3. \A r \in Relays \ {slot} : sock'[r] = sock[r] /\ since'[r] = since[r]
    BY <1>0, <2>1
  <2>4. slot \in Relays => since'[slot] = clock
    BY <1>0, <2>1
  <2> QED
    BY <2>1, <2>2, <2>3, <2>4
<1>4. CASE DialFails \/ Revoke \/ \E r \in Relays : Drop(r)
  BY <1>2, <1>4 DEF DialFails, Revoke, Drop, procVars
<1>5. CASE Dial \/ Skip \/ Greeted \/ Wake \/ RevokeStored
  BY <1>1, <1>5 DEF Dial, Skip, Greeted, Wake, RevokeStored, procVars, sockVars
<1>6. CASE \E e \in Requests : Publish(e) \/ Respond(e) \/ \E r \in Relays : Deliver(r, e)
  BY <1>1, <1>6 DEF Publish, Respond, Deliver, procVars, sockVars
<1>7. CASE DeliverForeign \/ UNCHANGED vars
  BY <1>1, <1>7 DEF DeliverForeign, vars, procVars, sockVars
<1>8. CASE Tick
  BY <1>0, <1>8 DEF Tick, sockVars
<1>9. CASE Crash
  <2>1. \A r \in Relays : sock'[r] = "closed"
    BY <1>9 DEF Crash, CloseSockets
  <2> QED
    BY <1>9, <2>1 DEF Crash
<1>10. CASE Boot
  <2>1. ~up /\ UNCHANGED <<clock, sock, since>> /\ bootAt' = clock
    BY <1>10 DEF Boot
  <2> QED
    BY <1>0, <2>1
<1> QED
  BY <1>3, <1>4, <1>5, <1>6, <1>7, <1>8, <1>9, <1>10 DEF Next, LoopStep

\* An event that arrives is entered at the end of both.
LEMMA SeenEnters ==
    ASSUME RelayInv, SeenInv, NEW e \in Events, seen' = Remember(e),
           arrivals' = Append(arrivals, [id |-> e, at |-> clock]), clock' = clock
    PROVE  SeenInv'
<1> DEFINE grown == Append(seen, Entry(e))
           kept == Remember(e)
           n == Len(arrivals)
<1>1. /\ arrivals \in Seq(Entries) /\ seen \in Seq(Entries)
      /\ Entry(e) \in Entries /\ arrivals' = Append(arrivals, Entry(e))
  BY DEF RelayInv, TypeOK, Entries, Entry
<1>2. /\ Len(grown) = Len(seen) + 1 /\ grown[Len(seen) + 1] = Entry(e)
      /\ \A j \in 1..Len(seen) : grown[j] = seen[j]
  BY <1>1
<1>3. /\ Len(arrivals') = n + 1 /\ arrivals'[n + 1] = Entry(e)
      /\ \A i \in 1..n : arrivals'[i] = arrivals[i]
  BY <1>1
<1>4. /\ kept \in Seq(Entries) /\ Len(kept) <= Len(grown)
      /\ \A j \in 1..Len(kept) : kept[j] = grown[Len(grown) - Len(kept) + j]
      /\ \A i \in 1..(Len(grown) - Len(kept)) :
            clock - grown[i].at > DedupTTL \/ Len(grown) - i >= DedupMax \div 2
  BY Remembered
<1>5. /\ n \in Nat /\ Len(seen) \in Nat /\ Len(kept) \in Nat /\ Len(seen) <= n
      /\ \A j \in 1..Len(seen) : seen[j] = arrivals[n - Len(seen) + j]
      /\ \A i \in 1..(n - Len(seen)) :
            clock - arrivals[i].at > DedupTTL \/ n - i >= DedupMax \div 2
      /\ DedupMax \div 2 \in Nat
  BY <1>1, <1>4, RelayParams DEF SeenInv
<1> HIDE DEF grown, kept, n
<1>6. \A j \in 1..Len(grown) : grown[j] = arrivals'[(n + 1) - Len(grown) + j]
  <2> SUFFICES ASSUME NEW j \in 1..Len(grown)
               PROVE  grown[j] = arrivals'[(n + 1) - Len(grown) + j]
    OBVIOUS
  <2>1. CASE j = Len(grown)
    BY <1>2, <1>3, <1>5, <2>1
  <2>2. CASE j # Len(grown)
    <3>1. /\ j \in 1..Len(seen) /\ (n + 1) - Len(grown) + j = n - Len(seen) + j
          /\ n - Len(seen) + j \in 1..n
      BY <1>2, <1>5, <2>2
    <3> QED
      BY <1>2, <1>3, <1>5, <3>1
  <2> QED
    BY <2>1, <2>2
<1>7. Len(kept) <= n + 1
  BY <1>2, <1>4, <1>5
<1>8. \A j \in 1..Len(kept) : kept[j] = arrivals'[(n + 1) - Len(kept) + j]
  <2> SUFFICES ASSUME NEW j \in 1..Len(kept)
               PROVE  kept[j] = arrivals'[(n + 1) - Len(kept) + j]
    OBVIOUS
  <2>1. /\ Len(grown) - Len(kept) + j \in 1..Len(grown)
        /\ (n + 1) - Len(grown) + (Len(grown) - Len(kept) + j) = (n + 1) - Len(kept) + j
    BY <1>2, <1>4, <1>5
  <2> QED
    BY <1>4, <1>6, <2>1
<1>9. \A i \in 1..((n + 1) - Len(kept)) :
         clock - arrivals'[i].at > DedupTTL \/ (n + 1) - i >= DedupMax \div 2
  <2> SUFFICES ASSUME NEW i \in 1..((n + 1) - Len(kept))
               PROVE  clock - arrivals'[i].at > DedupTTL \/ (n + 1) - i >= DedupMax \div 2
    OBVIOUS
  <2>1. CASE i <= n - Len(seen)
    <3>1. i \in 1..(n - Len(seen)) /\ i \in 1..n
      BY <1>5, <2>1
    <3>2. clock - arrivals[i].at > DedupTTL \/ n - i >= DedupMax \div 2
      BY <1>5, <3>1
    <3>3. arrivals'[i] = arrivals[i]
      BY <1>3, <3>1
    <3>4. n - i >= DedupMax \div 2 => (n + 1) - i >= DedupMax \div 2
      BY <1>5
    <3> QED
      BY <3>2, <3>3, <3>4
  <2>2. CASE i > n - Len(seen)
    <3> DEFINE j == i - (n - Len(seen))
    <3>1. /\ j \in 1..(Len(grown) - Len(kept)) /\ j \in 1..Len(grown)
          /\ (n + 1) - Len(grown) + j = i /\ Len(grown) - j = (n + 1) - i
      BY <1>2, <1>4, <1>5, <2>2
    <3> HIDE DEF j
    <3>2. grown[j] = arrivals'[i]
      BY <1>6, <3>1
    <3>3. clock - grown[j].at > DedupTTL \/ Len(grown) - j >= DedupMax \div 2
      BY <1>4, <3>1
    <3> QED
      BY <3>1, <3>2, <3>3
  <2>3. i <= n - Len(seen) \/ i > n - Len(seen)
    BY <1>5
  <2> QED
    BY <2>1, <2>2, <2>3, Zenon
<1> QED
  BY <1>3, <1>7, <1>8, <1>9 DEF SeenInv, kept

\* Time only adds to what has expired.
LEMMA SeenTicks ==
    ASSUME RelayInv, SeenInv, clock' = clock + 1, UNCHANGED <<seen, arrivals>>
    PROVE  SeenInv'
<1>1. clock \in Nat /\ arrivals \in Seq(Entries) /\ seen \in Seq(Entries)
  BY DEF RelayInv, TypeOK, Entries
<1>2. ASSUME NEW i \in 1..(Len(arrivals) - Len(seen)), clock - arrivals[i].at > DedupTTL
      PROVE  (clock + 1) - arrivals[i].at > DedupTTL
  <2>1. arrivals[i].at \in Nat
    <3>1. i \in 1..Len(arrivals)
      BY <1>1
    <3>2. arrivals[i] \in Entries
      BY <1>1, <3>1
    <3> QED
      BY <3>2 DEF Entries
  <2> QED
    BY <1>1, <1>2, <2>1, RelayParams
<1> QED
  BY <1>2 DEF SeenInv

\* Every step keeps the map the end of what has arrived.
LEMMA SeenStep ==
    ASSUME RelayInv, SeenInv, [Next]_vars
    PROVE  SeenInv'
<1>1. CASE UNCHANGED <<clock, seen, arrivals>>
  BY <1>1 DEF SeenInv
<1>2. CASE LoopStep
  BY <1>1, <1>2 DEF LoopStep, Dial, Skip, DialFails, DialOpens, Greeted, Wake, procVars, evtVars
<1>3. CASE Revoke \/ RevokeStored \/ Boot \/ UNCHANGED vars \/ \E r \in Relays : Drop(r)
  BY <1>1, <1>3 DEF Revoke, RevokeStored, Boot, Drop, vars, procVars, evtVars
<1>4. CASE \E e \in Requests : Publish(e) \/ Respond(e)
  BY <1>1, <1>4 DEF Publish, Respond, procVars
<1>5. ASSUME NEW r \in Relays, NEW e \in Requests, Deliver(r, e) PROVE SeenInv'
  <2>1. e \in Events /\ clock' = clock
    BY <1>5 DEF Deliver, procVars, Events
  <2> QED
    BY <1>1, <1>5, <2>1, SeenEnters DEF Deliver
<1>6. CASE DeliverForeign
  <2>1. foreign' \in Events /\ clock' = clock
    BY <1>6, RelayParams DEF DeliverForeign, procVars, Events, Foreign, RelayInv, TypeOK
  <2> QED
    BY <1>6, <2>1, SeenEnters DEF DeliverForeign
<1>7. CASE Tick
  BY <1>7, SeenTicks DEF Tick, evtVars
<1>8. CASE Crash
  <2>1. seen' = <<>> /\ arrivals' = <<>>
    BY <1>8 DEF Crash
  <2>2. Len(seen') = 0 /\ Len(arrivals') = 0
    BY <2>1
  <2> QED
    BY <2>2 DEF SeenInv
<1> QED
  BY <1>2, <1>3, <1>4, <1>5, <1>6, <1>7, <1>8 DEF Next

\* What ReplayIsExcused says of one step.
Excused ==
    \A e \in Requests :
        (handled'[e] > handled[e] /\ handled[e] > 0)
          => /\ created[e] >= bootAt
             /\ \A i \in 1..Len(arrivals) :
                  arrivals[i].id = e => \/ clock - arrivals[i].at > DedupTTL
                                        \/ Len(arrivals) - i >= DedupMax \div 2

\* A request that a relay sends and the map does not know is not among the last
\* that arrived.
LEMMA DeliverExcused ==
    ASSUME RelayInv, SinceInv, SeenInv, NEW r \in Relays, NEW d \in Requests, Deliver(r, d)
    PROVE  Excused
<1> SUFFICES ASSUME NEW e \in Requests, handled'[e] > handled[e]
             PROVE  /\ created[e] >= bootAt
                    /\ \A i \in 1..Len(arrivals) :
                         arrivals[i].id = e => \/ clock - arrivals[i].at > DedupTTL
                                               \/ Len(arrivals) - i >= DedupMax \div 2
  BY DEF Excused
<1>0. /\ handled \in [Requests -> Nat] /\ created \in [Requests -> Nat]
      /\ arrivals \in Seq(Entries) /\ seen \in Seq(Entries)
      /\ since \in [Relays -> Nat] /\ bootAt \in Nat
  BY DEF RelayInv, TypeOK, Entries
<1>1. ~(handled' = handled)
  BY <1>0
<1>2. d \notin Known /\ handled' = [handled EXCEPT ![d] = @ + 1]
  BY <1>1 DEF Deliver
<1>3. e = d
  BY <1>0, <1>2
<1>4. created[e] >= bootAt
  BY <1>0, <1>3 DEF Deliver, SinceInv
<1>5. ASSUME NEW i \in 1..Len(arrivals), arrivals[i].id = e
      PROVE  i \in 1..(Len(arrivals) - Len(seen))
  <2>0. Len(arrivals) \in Nat /\ Len(seen) \in Nat
    BY <1>0
  <2>1. ASSUME i > Len(arrivals) - Len(seen) PROVE FALSE
    <3> DEFINE j == i - (Len(arrivals) - Len(seen))
    <3>1. j \in 1..Len(seen) /\ Len(arrivals) - Len(seen) + j = i
      BY <1>0, <2>1 DEF SeenInv
    <3> HIDE DEF j
    <3>2. seen[j] = arrivals[i]
      BY <3>1 DEF SeenInv
    <3>3. e \in Known
      BY <1>5, <3>1, <3>2 DEF Known
    <3> QED
      BY <1>2, <1>3, <3>3
  <2> QED
    BY <1>5, <2>0, <2>1
<1> QED
  BY <1>4, <1>5 DEF SeenInv

\* However relays repeat, delay and reorder events, whatever floods come and
\* whenever the process restarts: a request is handled a second time only if its
\* entry has expired or half the cap has been entered since, and never one from
\* before the start.
THEOREM ReplayIsExcusedTheorem == Spec => ReplayIsExcused
<1>1. Init => SinceInv /\ SeenInv
  <2> SUFFICES ASSUME Init PROVE SinceInv /\ SeenInv
    OBVIOUS
  <2>1. clock = Skew /\ bootAt = Skew /\ sock = [r \in Relays |-> "closed"]
    BY DEF Init
  <2>2. Len(seen) = 0 /\ Len(arrivals) = 0
    BY DEF Init
  <2> QED
    BY <2>1, <2>2, RelayParams DEF SinceInv, SeenInv, Open
<1>2. Spec => [](RelayInv /\ SinceInv /\ SeenInv)
  <2>1. RelayInv /\ SinceInv /\ SeenInv /\ [Next]_vars => SinceInv' /\ SeenInv'
    BY SinceStep, SeenStep
  <2> QED
    BY <1>1, <2>1, RelayTypeCorrect, PTL DEF Spec
<1>3. ASSUME RelayInv, SinceInv, SeenInv, [Next]_vars PROVE [Excused]_vars
  <2> SUFFICES ASSUME Next PROVE Excused
    BY <1>3
  <2>0. handled \in [Requests -> Nat]
    BY <1>3 DEF RelayInv, TypeOK
  <2>1. CASE handled' = handled
    BY <2>0, <2>1 DEF Excused
  <2>2. CASE LoopStep
    BY <2>1, <2>2 DEF LoopStep, Dial, Skip, DialFails, DialOpens, Greeted, Wake, evtVars
  <2>3. ASSUME NEW r \in Relays, NEW e \in Requests, Deliver(r, e) PROVE Excused
    BY <1>3, <2>3, DeliverExcused
  <2>4. CASE \E r \in Relays : Drop(r)
    BY <2>1, <2>4 DEF Drop, evtVars
  <2>5. CASE \E e \in Requests : Publish(e) \/ Respond(e)
    BY <2>1, <2>5 DEF Publish, Respond
  <2>6. CASE DeliverForeign \/ Revoke \/ RevokeStored \/ Tick \/ Crash \/ Boot
    BY <2>1, <2>6 DEF DeliverForeign, Revoke, RevokeStored, Tick, Crash, Boot, evtVars
  <2> QED
    BY <2>2, <2>3, <2>4, <2>5, <2>6 DEF Next
<1> QED
  BY <1>2, <1>3, PTL DEF Spec, ReplayIsExcused, Excused
=============================================================================
