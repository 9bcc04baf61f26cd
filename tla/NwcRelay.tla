------------------------------- MODULE NwcRelay -------------------------------
(***************************************************************************)
(* One NWC connection of NUTbits and the relays it listens on: the          *)
(* bootstrap and reconnection loop, the subscriptions with their "since",   *)
(* the deduplication of events, the answer through the pool, revocation by  *)
(* the operator, crash and restart.                                        *)
(*                                                                         *)
(* An action is the code between two awaits.  A relay may deliver an event  *)
(* late, out of order, once per subscription of each relay, or never.       *)
(***************************************************************************)
EXTENDS Naturals, Sequences, SequencesExt, FiniteSets

CONSTANTS
    NumRelays,  \* config.relays, tried in this order
    Requests,   \* events of the connection's client
    MaxForeign, \* bound: events of other authors that carry the connection's p tag
    Lifetime,   \* seconds until a request's expiration tag (NIP-40)
    Skew,       \* a client's clock is off by at most this
    DedupMax,   \* DEDUP_MAX
    DedupTTL,   \* DEDUP_TTL_MS, in seconds
    MaxTime,    \* bound: seconds
    MaxDrops,   \* bound: sockets that break
    MaxCrashes  \* bound: crashes of the process

Relays == 1..NumRelays
Foreign == 1..MaxForeign
Events == Requests \cup Foreign

ASSUME RelayAssumption ==
    /\ NumRelays \in Nat \ {0}
    /\ Requests \cap Foreign = {}
    /\ MaxForeign \in Nat
    /\ Lifetime \in Nat /\ Skew \in Nat /\ MaxTime \in Nat
    /\ DedupMax \in Nat \ {0} /\ DedupTTL \in Nat
    /\ MaxDrops \in Nat /\ MaxCrashes \in Nat

VARIABLES
    clock,      \* seconds
    up,         \* the process is running
    bootAt,     \* when it was last started
    crashes, drops,
    \* the connection
    revoked,    \* nwc_info[pubkey].revoked in memory
    revokedRow, \* ... in the store
    told,       \* DELETE /connections/:pubkey has answered
    \* startRelayLoop
    loop,       \* "off", "boot", "asleep", "scan"
    dial,       \* connectRelay: "no", "opening", "greeting"
    slot,       \* the relay the loop is at
    \* the sockets
    pooled,     \* pools[pubkey] exists
    member,     \* the relays whose newest socket is in the loop's array
    sock,       \* the newest socket of each relay
    since,      \* its subscription's "since"
    sent,       \* the requests the relay has sent on it
    \* the events
    created,    \* created_at of each published request, NotYet before
    foreign,    \* foreign events so far; each is a new one
    seen,       \* processedEvents, oldest first
    pending,    \* requests a handler is working on
    handled,    \* ghost: how often a handler started on the event
    answered,   \* ghost: requests whose answer went out to some relay
    arrivals    \* ghost: the events isDuplicate has entered in this run, in order

procVars == <<clock, up, bootAt, crashes, drops>>
connVars == <<revoked, revokedRow, told>>
loopVars == <<loop, dial, slot>>
sockVars == <<pooled, member, sock, since, sent>>
evtVars  == <<created, foreign, seen, pending, handled, answered, arrivals>>
vars == <<procVars, connVars, loopVars, sockVars, evtVars>>

NotYet == MaxTime + Skew + 1

Open(r) == sock[r] = "open"

\* What `relay.connected` says of an entry of the array.
Connected(r) == r \in member /\ Open(r)

\* The relays broadcastEvent publishes to.
Reachable == {r \in Relays : pooled /\ Connected(r)}

\* A subscription ends with its socket.
CloseSockets(S) ==
    /\ sock' = [r \in Relays |-> IF r \in S THEN "closed" ELSE sock[r]]
    /\ since' = [r \in Relays |-> IF r \in S THEN 0 ELSE since[r]]
    /\ sent' = [r \in Relays |-> IF r \in S THEN {} ELSE sent[r]]

Init ==
    /\ clock = Skew /\ bootAt = Skew
    /\ up = TRUE /\ crashes = 0 /\ drops = 0
    /\ revoked = FALSE /\ revokedRow = FALSE /\ told = FALSE
    /\ loop = "boot" /\ dial = "no" /\ slot = 1
    /\ pooled = TRUE
    /\ member = {}
    /\ sock = [r \in Relays |-> "closed"]
    /\ since = [r \in Relays |-> 0]
    /\ sent = [r \in Relays |-> {}]
    /\ created = [e \in Requests |-> NotYet]
    /\ foreign = 0
    /\ seen = <<>>
    /\ pending = {}
    /\ handled = [e \in Requests |-> 0]
    /\ answered = {}
    /\ arrivals = <<>>

-----------------------------------------------------------------------------
(* startRelayLoop and connectRelay *)

\* Mutant: the scan runs past the end of the array.
NextSlotPast ==
    IF slot <= NumRelays
    THEN slot' = slot + 1 /\ UNCHANGED loop
    ELSE slot' = 1 /\ loop' = "asleep"

\* The slot is done: the next one, or a sleep of five seconds.
NextSlot ==
    IF slot < NumRelays
    THEN slot' = slot + 1 /\ UNCHANGED loop
    ELSE slot' = 1 /\ loop' = "asleep"

\* The scan looks at its own array: after a revocation it finds the sockets
\* that revoke closed, and dials them again.
Dial ==
    /\ up
    /\ loop \in {"boot", "scan"} /\ dial = "no"
    /\ loop = "scan" => ~Connected(slot)
    /\ dial' = "opening"
    /\ UNCHANGED <<procVars, connVars, loop, slot, sockVars, evtVars>>

Skip ==
    /\ up
    /\ loop = "scan" /\ dial = "no" /\ Connected(slot)
    /\ NextSlot
    /\ UNCHANGED <<procVars, connVars, dial, sockVars, evtVars>>

\* The array gets the socket, open or not.  push on a deleted pool throws and
\* ends the bootstrap; the reconnection loop keeps writing to the old array.
Place ==
    /\ dial' = "no"
    /\ IF loop = "boot" /\ ~pooled
       THEN loop' = "off" /\ UNCHANGED <<member, slot>>
       ELSE NextSlot /\ member' = member \cup {slot}

\* Mutant: a relay that cannot be reached ends the loop.
DialFailsThrows ==
    /\ up
    /\ dial = "opening"
    /\ CloseSockets({slot})
    /\ dial' = "no" /\ loop' = "off"
    /\ UNCHANGED <<procVars, connVars, slot, pooled, member, evtVars>>

DialFails ==
    /\ up
    /\ dial = "opening"
    /\ CloseSockets({slot})
    /\ Place
    /\ UNCHANGED <<procVars, connVars, pooled, evtVars>>

\* Mutant: the subscription asks for everything the relay has.
DialOpensFromStart ==
    /\ up
    /\ dial = "opening"
    /\ dial' = "greeting"
    /\ member' = member \ {slot}
    /\ sock' = [sock EXCEPT ![slot] = "open"]
    /\ since' = [since EXCEPT ![slot] = 0]
    /\ sent' = [sent EXCEPT ![slot] = {}]
    /\ UNCHANGED <<procVars, connVars, loop, slot, pooled, evtVars>>

\* Connected and subscribed; the info event is being published.  Until then
\* the array does not hold the new socket.
DialOpens ==
    /\ up
    /\ dial = "opening"
    /\ dial' = "greeting"
    /\ member' = member \ {slot}
    /\ sock' = [sock EXCEPT ![slot] = "open"]
    /\ since' = [since EXCEPT ![slot] = clock]
    /\ sent' = [sent EXCEPT ![slot] = {}]
    /\ UNCHANGED <<procVars, connVars, loop, slot, pooled, evtVars>>

Greeted ==
    /\ up
    /\ dial = "greeting"
    /\ Place
    /\ UNCHANGED <<procVars, connVars, pooled, sock, since, sent, evtVars>>

\* Five seconds later: the pool is scanned, or the loop ends with it.
Wake ==
    /\ up
    /\ loop = "asleep"
    /\ loop' = IF pooled THEN "scan" ELSE "off"
    /\ UNCHANGED <<procVars, connVars, dial, slot, sockVars, evtVars>>

\* A socket breaks.
Drop(r) ==
    /\ up
    /\ Open(r)
    /\ drops < MaxDrops
    /\ drops' = drops + 1
    /\ CloseSockets({r})
    /\ UNCHANGED <<clock, up, bootAt, crashes, connVars, loopVars, pooled, member,
                   evtVars>>

-----------------------------------------------------------------------------
(* Events: the client, the relays, handleEvent *)

Publish(e) ==
    /\ created[e] = NotYet
    /\ \E t \in (clock - Skew)..(clock + Skew) : created' = [created EXCEPT ![e] = t]
    /\ UNCHANGED <<procVars, connVars, loopVars, sockVars, foreign, seen, pending,
                   handled, answered, arrivals>>

Known == {seen[i].id : i \in 1..Len(seen)}

\* Mutant: the cap drops the newest entries.
RememberOldest(e) ==
    LET grown == Append(seen, [id |-> e, at |-> clock])
    IN  IF Len(grown) <= DedupMax THEN grown ELSE SubSeq(grown, 1, DedupMax \div 2)

\* isDuplicate enters the event; over the cap it drops what is expired - at the
\* front, as entries are in the order of their times, the new one not among
\* them - and if that is not enough all but the newest half.
Remember(e) ==
    LET grown == Append(seen, [id |-> e, at |-> clock])
        first == SelectInSeq(grown, LAMBDA x : clock - x.at <= DedupTTL)
        fresh == SubSeq(grown, first, Len(grown))
    IN  IF Len(grown) <= DedupMax THEN grown
        ELSE IF Len(fresh) <= DedupMax THEN fresh
        ELSE SubSeq(fresh, Len(fresh) - DedupMax \div 2 + 1, Len(fresh))

\* Mutant: the sockets of a revoked connection are closed, is that not enough?
AcceptsRevoked(e) == created[e] + Lifetime >= clock

\* The early returns of handleEvent after the deduplication.
Accepts(e) ==
    /\ ~revoked
    /\ created[e] + Lifetime >= clock

Deliver(r, e) ==
    /\ up
    /\ Open(r)
    /\ created[e] # NotYet /\ created[e] >= since[r]
    /\ e \notin sent[r]
    /\ sent' = [sent EXCEPT ![r] = @ \cup {e}]
    /\ IF e \in Known
       THEN UNCHANGED <<seen, arrivals, pending, handled>>
       ELSE /\ seen' = Remember(e)
            /\ arrivals' = Append(arrivals, [id |-> e, at |-> clock])
            /\ IF Accepts(e)
               THEN /\ pending' = pending \cup {e}
                    /\ handled' = [handled EXCEPT ![e] = @ + 1]
               ELSE UNCHANGED <<pending, handled>>
    /\ UNCHANGED <<procVars, connVars, loopVars, pooled, member, sock, since,
                   created, foreign, answered>>

\* An event of another author: deduplicated first, then ignored.
DeliverForeign ==
    /\ up
    /\ \E r \in Relays : Open(r)
    /\ foreign < MaxForeign
    /\ foreign' = foreign + 1
    /\ seen' = Remember(foreign')
    /\ arrivals' = Append(arrivals, [id |-> foreign', at |-> clock])
    /\ UNCHANGED <<procVars, connVars, loopVars, sockVars, created, pending, handled,
                   answered>>

\* sendNWCResponse: to every relay of the pool that is connected; to none if
\* the pool is gone or empty, which only a log line tells.
Respond(e) ==
    /\ up
    /\ e \in pending
    /\ pending' = pending \ {e}
    /\ answered' = IF Reachable = {} THEN answered ELSE answered \cup {e}
    /\ UNCHANGED <<procVars, connVars, loopVars, sockVars, created, foreign, seen,
                   handled, arrivals>>

-----------------------------------------------------------------------------
(* DELETE /api/v1/connections/:pubkey; time, crash, boot *)

\* The handler up to its await: sockets of the pool closed, the pool deleted.
Revoke ==
    /\ up
    /\ ~revoked
    /\ pooled' = FALSE
    /\ CloseSockets(IF pooled THEN member ELSE {})
    /\ revoked' = TRUE
    /\ UNCHANGED <<procVars, revokedRow, told, loopVars, member, evtVars>>

RevokeStored ==
    /\ up
    /\ revoked /\ ~told
    /\ revokedRow' = TRUE
    /\ told' = TRUE
    /\ UNCHANGED <<procVars, revoked, loopVars, sockVars, evtVars>>

Tick ==
    /\ clock < MaxTime
    /\ clock' = clock + 1
    /\ UNCHANGED <<up, bootAt, crashes, drops, connVars, loopVars, sockVars, evtVars>>

Crash ==
    /\ up
    /\ crashes < MaxCrashes
    /\ up' = FALSE
    /\ crashes' = crashes + 1
    /\ loop' = "off" /\ dial' = "no" /\ slot' = 1
    /\ pooled' = FALSE
    /\ member' = {}
    /\ CloseSockets(Relays)
    /\ seen' = <<>> /\ pending' = {} /\ arrivals' = <<>>
    /\ UNCHANGED <<clock, bootAt, drops, connVars, created, foreign, handled,
                   answered>>

\* A restart restores the connections whose row is not revoked.
Boot ==
    /\ ~up
    /\ up' = TRUE
    /\ bootAt' = clock
    /\ revoked' = revokedRow
    /\ IF revokedRow THEN UNCHANGED <<loop, pooled>> ELSE loop' = "boot" /\ pooled' = TRUE
    /\ UNCHANGED <<clock, crashes, drops, revokedRow, told, dial, slot, member, sock,
                   since, sent, evtVars>>

-----------------------------------------------------------------------------
LoopStep == Dial \/ Skip \/ DialFails \/ DialOpens \/ Greeted \/ Wake

Next ==
    \/ LoopStep
    \/ \E r \in Relays : Drop(r) \/ \E e \in Requests : Deliver(r, e)
    \/ \E e \in Requests : Publish(e) \/ Respond(e)
    \/ DeliverForeign \/ Revoke \/ RevokeStored \/ Tick \/ Crash \/ Boot

Spec == Init /\ [][Next]_vars

\* The loop is a chain of timers and promises that settle.  A relay that is
\* dialled again and again answers in the end; a restarted process boots.
Fairness ==
    /\ WF_vars(Skip) /\ WF_vars(Dial) /\ WF_vars(Wake) /\ WF_vars(Greeted)
    /\ WF_vars(Boot)
    /\ \A r \in Relays : SF_vars(slot = r /\ DialOpens)

FairSpec == Spec /\ Fairness

-----------------------------------------------------------------------------
(* Properties *)

\* Every variable holds a value of its kind.
TypeOK ==
    /\ clock \in Nat /\ bootAt \in Nat /\ up \in BOOLEAN
    /\ crashes \in Nat /\ drops \in Nat
    /\ revoked \in BOOLEAN /\ revokedRow \in BOOLEAN /\ told \in BOOLEAN
    /\ loop \in {"off", "boot", "asleep", "scan"}
    /\ dial \in {"no", "opening", "greeting"}
    /\ slot \in Relays
    /\ pooled \in BOOLEAN
    /\ member \in SUBSET Relays
    /\ sock \in [Relays -> {"open", "closed"}]
    /\ since \in [Relays -> Nat]
    /\ sent \in [Relays -> SUBSET Requests]
    /\ created \in [Requests -> Nat]
    /\ foreign \in Nat
    /\ seen \in Seq([id : Events, at : Nat])
    /\ arrivals \in Seq([id : Events, at : Nat])
    /\ pending \in SUBSET Requests
    /\ handled \in [Requests -> Nat]
    /\ answered \in SUBSET Requests

\* An event is handled a second time only for a reason.  In one run of the
\* process: it is older than the TTL, or floods, foreign events included, pushed
\* it out of the newest half.  After a restart, which forgets everything: only
\* if its timestamp is not before the start, since subscriptions ask for no more.
ReplayIsExcused ==
    [][\A e \in Requests :
        (handled'[e] > handled[e] /\ handled[e] > 0)
          => /\ created[e] >= bootAt
             /\ \A i \in 1..Len(arrivals) :
                  arrivals[i].id = e => \/ clock - arrivals[i].at > DedupTTL
                                        \/ Len(arrivals) - i >= DedupMax \div 2]_vars

\* Once the operator has been told that a connection is revoked, no request of
\* it is ever handled or answered again: not by a socket the reconnection loop opened
\* after the sockets were closed, not after a crash and restart.
RevokedStaysQuiet == [][told => handled' = handled /\ answered' = answered]_vars

\* A connection that is not revoked gets its relays back: whatever sockets
\* break and whenever the process restarts, each relay ends up subscribed and
\* in the pool.
RelaysComeBack ==
    \A r \in Relays : <>[](~revoked /\ up) => []<>(r \in Reachable)
=============================================================================
