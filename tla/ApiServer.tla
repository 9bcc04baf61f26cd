------------------------------ MODULE ApiServer ------------------------------
(***************************************************************************)
(* The management API's connections: creation by the operator and by the    *)
(* public deep link page, each behind a lock of its own; the limiter of the *)
(* latter; revocation; the positions the lists give; crash and restart with *)
(* a new token.                                                             *)
(*                                                                         *)
(* An action is the code between two awaits.  The connection a request      *)
(* creates is named after the request, whatever the reply says.             *)
(***************************************************************************)
EXTENDS Naturals, Sequences, SequencesExt, FiniteSets

CONSTANTS
    Initial,    \* connections stored before
    Creates,    \* POST /api/v1/connections
    Shared,     \* ... those with dedicated: false
    Links,      \* POST /connect, all from one address
    KeyOrder,   \* <<>>: the store lists rows as inserted; else in this order
    Revocable,  \* bound: the connections an operator may revoke
    Limit,      \* CONNECT_RATE_LIMIT
    Window,     \* CONNECT_RATE_WINDOW_MS
    MaxTime,    \* bound: the clock
    MaxCrashes, \* bound: restarts
    Faults      \* of "storeWrite"

Requests == Creates \cup Links
Keys == Initial \cup Requests

ASSUME ApiAssumption ==
    /\ Initial \cap Requests = {} /\ Creates \cap Links = {} /\ Shared \subseteq Creates
    /\ Revocable \subseteq Keys
    /\ KeyOrder \in Seq(Keys) /\ IsFiniteSet(Initial)
    /\ Limit \in Nat \ {0} /\ Window \in Nat /\ MaxTime \in Nat /\ MaxCrashes \in Nat

VARIABLES
    mem,        \* keys of nwc_info, in insertion order
    info,       \* the connections in memory
    rows,       \* keys in the store, as it lists them
    row,        \* the connections in the store
    at,         \* where the handler of each request is
    queue,      \* connectLock ("api") and deeplinkLock ("link"), the holder first
    before,     \* keysBefore
    found,      \* newPk; once answered the connection the client was handed
    revoking,   \* connections whose revocation is on its way to the store
    now,
    window,     \* connectRateMap's entry of the address
    accepted,   \* history: when creations by link were let in, in this process
    crashes

connVars == <<mem, info, rows, row, revoking>>
reqVars  == <<at, queue, before, found>>
rateVars == <<now, window, accepted>>
srvVars  == <<connVars, reqVars, rateVars, crashes>>

None == "none"
Resting == {"idle", "answered", "refused", "failed", "cut"}
Blank == [dedicated |-> FALSE, revoked |-> FALSE]
NoWindow == [start |-> 0, count |-> 0]
Lock(r) == IF r \in Links THEN "link" ELSE "api"

\* Whoever is without a token from the running process is refused.
Token == crashes

\* The store lists a before b, whenever they were inserted.
Before(a, b) == \E i, j \in DOMAIN KeyOrder : i < j /\ KeyOrder[i] = a /\ KeyOrder[j] = b

SrvInit ==
    \E order \in SetToSeqs(Initial) :
        /\ \A i, j \in DOMAIN order : Before(order[i], order[j]) => i < j
        /\ mem = order /\ rows = order
        /\ info = [k \in Keys |-> Blank] /\ row = info
        /\ at = [r \in Requests |-> "idle"]
        /\ queue = [l \in {"api", "link"} |-> <<>>]
        /\ before = [r \in Requests |-> {}]
        /\ found = [r \in Requests |-> None]
        /\ revoking = {}
        /\ now = 0 /\ window = NoWindow /\ accepted = <<>>
        /\ crashes = 0

Goto(r, s) == at' = [at EXCEPT ![r] = s]
Wait(r)    == queue' = [queue EXCEPT ![Lock(r)] = Append(@, r)]
Release(r) == queue' = [queue EXCEPT ![Lock(r)] = Tail(@)]

-----------------------------------------------------------------------------
(* What the lists show *)

\* GET /connections numbers the connections that are not revoked.
Listed == SelectSeq(rows, LAMBDA k : ~row[k].revoked)

\* GET /connections/export?id=n numbers all of them.
Exported(n) == IF n <= Len(rows) /\ ~row[rows[n]].revoked THEN {rows[n]} ELSE {}

-----------------------------------------------------------------------------
(* The limiter *)

\* The clock counts while a request by link may still come.
Tick ==
    /\ now < MaxTime /\ \E r \in Links : at[r] = "idle"
    /\ now' = now + 1
    /\ UNCHANGED <<connVars, reqVars, window, accepted, crashes>>

Expired == window.count = 0 \/ now - window.start > Window

\* checkConnectRate: a request opens a window or is counted in it.
Admitted == Expired \/ window.count < Limit
Counted ==
    IF Expired THEN [start |-> now, count |-> 1]
               ELSE [window EXCEPT !.count = @ + 1]

\* Mutant: the sweep takes entries whose window is still open.
SweepEarly ==
    /\ window.count > 0 /\ window.start < now
    /\ window' = NoWindow
    /\ UNCHANGED <<connVars, reqVars, now, accepted, crashes>>

\* Every five minutes, at some time of the limiter's own.
Sweep ==
    /\ window.count > 0 /\ window.start + 2 * Window < now
    /\ window' = NoWindow
    /\ UNCHANGED <<connVars, reqVars, now, accepted, crashes>>

-----------------------------------------------------------------------------
(* Creation *)

\* POST /connect, without a token: to the lock, or refused.
Connect(r) ==
    /\ r \in Links /\ at[r] = "idle"
    /\ window' = Counted
    /\ IF Admitted
       THEN Wait(r) /\ Goto(r, "waiting") /\ accepted' = Append(accepted, now)
       ELSE Goto(r, "refused") /\ UNCHANGED <<queue, accepted>>
    /\ UNCHANGED <<connVars, before, found, now, crashes>>

\* POST /connections, authorised and valid: to the lock.
Create(r) ==
    /\ r \in Creates /\ at[r] = "idle"
    /\ Wait(r) /\ Goto(r, "waiting")
    /\ UNCHANGED <<connVars, before, found, rateVars, crashes>>

\* Mutant: the connection is in memory once it is in the store.
EnterStoresFirst(r) ==
    /\ at[r] = "waiting" /\ Head(queue[Lock(r)]) = r
    /\ before' = [before EXCEPT ![r] = ToSet(mem)]
    /\ Goto(r, "storing")
    /\ UNCHANGED <<connVars, queue, found, rateVars, crashes>>

\* The lock is free: the keys so far, a new one in memory, setConnection called.
Enter(r) ==
    /\ at[r] = "waiting" /\ Head(queue[Lock(r)]) = r
    /\ before' = [before EXCEPT ![r] = ToSet(mem)]
    /\ mem' = Append(mem, r)
    /\ Goto(r, "storing")
    /\ UNCHANGED <<info, rows, row, revoking, queue, found, rateVars, crashes>>

\* Mutant: only success releases the lock.
FailKeepsLock(r) ==
    /\ "storeWrite" \in Faults
    /\ Goto(r, "failed")
    /\ UNCHANGED <<rows, row, mem, queue>>

\* Whatever throws: the lock is released and the client told.
Fail(r) ==
    /\ "storeWrite" \in Faults
    /\ Goto(r, "failed") /\ Release(r)
    /\ UNCHANGED <<rows, row, mem>>

Inserted(k) ==
    LET after == SelectInSeq(rows, LAMBDA x : Before(k, x))
    IN  IF after = 0 THEN Append(rows, k) ELSE InsertAt(rows, after, k)

\* setConnection is done; up to ten seconds for a relay.
StoreRow(r) ==
    /\ at[r] = "storing"
    /\ \/ /\ rows' = Inserted(r)
          /\ row' = [row EXCEPT ![r] = info[r]]
          /\ mem' = IF r \in ToSet(mem) THEN mem ELSE Append(mem, r)
          /\ Goto(r, "relays")
          /\ UNCHANGED queue
       \/ Fail(r)
    /\ UNCHANGED <<info, revoking, before, found, rateVars, crashes>>

\* The first key that was not there before: what both handlers loop for.
NewKey(r) == mem[SelectInSeq(mem, LAMBDA k : k \notin before[r])]

\* Mutant: the reply does not wait for the store.
FlagRepliesAtOnce(r) ==
    /\ at[r] = "relays"
    /\ LET new == NewKey(r)
       IN  /\ found' = [found EXCEPT ![r] = new]
           /\ info' = [info EXCEPT ![new].dedicated = r \notin Shared]
    /\ Goto(r, "answered") /\ Release(r)
    /\ UNCHANGED <<mem, rows, row, revoking, before, rateVars, crashes>>

\* The wait is over: the new key's connection gets its flags, in memory and on
\* the way to the store.
Flag(r) ==
    /\ at[r] = "relays"
    /\ LET new == NewKey(r)
       IN  /\ found' = [found EXCEPT ![r] = new]
           /\ info' = [info EXCEPT ![new].dedicated = r \notin Shared]
    /\ Goto(r, "flagging")
    /\ UNCHANGED <<mem, rows, row, revoking, queue, before, rateVars, crashes>>

\* updateConnection is done, and the reply hands the connection out.
Reply(r) ==
    /\ at[r] = "flagging"
    /\ \/ /\ row' = [row EXCEPT ![found[r]].dedicated = r \notin Shared]
          /\ Goto(r, "answered") /\ Release(r)
          /\ UNCHANGED <<rows, mem>>
       \/ Fail(r)
    /\ UNCHANGED <<info, revoking, before, found, rateVars, crashes>>

\* The number the reply of POST /connections adds: those not revoked before it.
ReplyId(r) == Len(SelectSeq(SubSeq(rows, 1, SelectInSeq(rows, LAMBDA k : k = found[r])),
                            LAMBDA k : ~row[k].revoked))

-----------------------------------------------------------------------------
(* Revocation, restart *)

Delete(k) ==
    /\ k \in ToSet(mem) \cap Revocable
    /\ info' = [info EXCEPT ![k].revoked = TRUE]
    /\ revoking' = revoking \cup {k}
    /\ UNCHANGED <<mem, rows, row, reqVars, rateVars, crashes>>

RevokeStored(k) ==
    /\ k \in revoking
    /\ revoking' = revoking \ {k}
    /\ \/ row' = [row EXCEPT ![k].revoked = k \in ToSet(rows)]
       \/ "storeWrite" \in Faults /\ UNCHANGED row
    /\ UNCHANGED <<mem, info, rows, reqVars, rateVars, crashes>>

\* The process stops, wherever its handlers are, and starts from the store.
Restart ==
    /\ crashes < MaxCrashes
    /\ crashes' = crashes + 1
    /\ mem' = rows /\ info' = row
    /\ at' = [r \in Requests |-> IF at[r] \in Resting THEN at[r] ELSE "cut"]
    /\ queue' = [l \in {"api", "link"} |-> <<>>]
    /\ revoking' = {}
    /\ window' = NoWindow /\ accepted' = <<>>
    /\ UNCHANGED <<rows, row, before, found, now>>

Handler(r) == Enter(r) \/ StoreRow(r) \/ Flag(r) \/ Reply(r)

SrvNext ==
    \/ Tick \/ Sweep \/ Restart
    \/ \E r \in Links : Connect(r)
    \/ \E r \in Requests : Handler(r)
    \/ \E k \in Keys : RevokeStored(k)

\* Whoever has the token: the command line, the console, a script.
Operator == (\E r \in Creates : Create(r)) \/ (\E k \in Keys : Delete(k))

SrvSpec == SrvInit /\ [][SrvNext \/ Operator]_srvVars

SrvFairSpec == SrvSpec /\ \A r \in Requests : WF_srvVars(Handler(r))

-----------------------------------------------------------------------------
(* Properties *)

\* Every variable of the service holds a value of its kind.
SrvTypeOK ==
    /\ mem \in Seq(Keys) /\ rows \in Seq(Keys)
    /\ info \in [Keys -> [dedicated : BOOLEAN, revoked : BOOLEAN]]
    /\ row \in [Keys -> [dedicated : BOOLEAN, revoked : BOOLEAN]]
    /\ at \in [Requests -> Resting \cup {"waiting", "storing", "relays", "flagging"}]
    /\ queue \in [{"api", "link"} -> Seq(Requests)]
    /\ before \in [Requests -> SUBSET Keys]
    /\ found \in [Requests -> Keys \cup {None}]
    /\ revoking \in SUBSET Keys
    /\ now \in Nat /\ window \in [start : Nat, count : Nat]
    /\ accepted \in Seq(Nat) /\ crashes \in Nat

\* The key a handler finds by comparing the keys before with the keys after is
\* the one it created itself, although creations by the operator and by link
\* hold different locks: no client is handed another's connection, and no flags
\* or limits land on another's.
ReplyIsOwnKey == \A r \in Requests : found[r] \in {None, r}

\* A client that was handed a connection - unless the operator asked for a
\* shared one - has a dedicated one, in the store too: no crash, then or later,
\* turns it into one that spends the whole wallet.
HandedOutIsDedicated ==
    \A r \in Requests \ Shared : at[r] = "answered" => row[r].dedicated

\* Within a window and a moment fewer than twice the limit are let in, whatever
\* the window's and the sweep's phase: requests as many apart as that are more
\* than a window apart.
RateBound ==
    \A i \in DOMAIN accepted :
        LET j == i + 2 * Limit - 1
        IN  j \in DOMAIN accepted => accepted[j] - accepted[i] > Window

\* Whatever fails on the way, each creation that was let in ends: no failure
\* keeps a lock the ones behind it wait for.
EveryCreationEnds == \A r \in Requests : at[r] = "waiting" ~> at[r] \in Resting
=============================================================================
