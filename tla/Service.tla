-------------------------------- MODULE Service --------------------------------
(***************************************************************************)
(* The wallet as the clients of its management API see it: what each of the  *)
(* GET endpoints answers, over the state that payments, the mint manager and  *)
(* the operator change.  How the service makes these changes is in Spending,  *)
(* MintFailover, TxHistory and ApiServer; here each is one step, and an       *)
(* answer is given in one.  Amounts are sats, and every payment is of one.    *)
(***************************************************************************)
EXTENDS Integers, SequencesExt

CONSTANTS
    Sites,        \* the mints, in the order of orderedMints
    Conns,        \* the connections there may be
    Api,          \* the row of payments asked for over the API, "__api__"
    Label,        \* Label[c]: its label
    Isolated,     \* the dedicated ones
    FirstLog,     \* the transactions before the first step
    FirstRows,    \* the connections there are then
    FirstSats,    \* what the first mint holds then
    FileStore,    \* the API's row is not kept over a restart, and there is a file
    EnvFile,      \* there is an .env file
    HistoryCap,   \* the largest limit of GET /history (100)
    MaxEvents     \* bound: what happens at the service

Owners == Conns \cup {Api}
States == {"settled", "failed", "pending"}
Records == [by : Owners, way : {"in", "out"}, state : States, fee : 0..1]

ASSUME ServiceAssumption ==
    /\ Sites # <<>> /\ IsInjective(Sites) /\ Api \notin Conns
    /\ DOMAIN Label = Conns /\ Isolated \subseteq Conns
    /\ FirstLog \in Seq(Records) /\ FirstRows \in Seq(Conns) /\ IsInjective(FirstRows)
    /\ {FirstSats, MaxEvents} \subseteq Nat /\ HistoryCap \in Nat \ {0}
    /\ {FileStore, EnvFile} \subseteq BOOLEAN

VARIABLES
    running,   \* the service runs
    active,    \* mintManager.activeMintUrl
    known,     \* the mints whose wallet was loaded: name and capabilities are known
    healthy,   \* those not found down
    sats,      \* sats[m]: the proofs held of m
    rows,      \* the connections in the store, in the order they were made
    revoked,
    allot,     \* allot[c]: dedicated_balance_msat of a dedicated connection
    cached,    \* cached[c]: the balance told to its app last (conn.balance)
    linked,    \* connections whose relay sockets are open
    log,       \* the records of transactions, in the order they were made
    feesOn,    \* a service fee is set
    restoring, \* restoreInProgress
    events,
    happened   \* ghost: records and fees made since the first step

serviceVars == <<running, active, known, healthy, sats, rows, revoked, allot, cached, linked,
                 log, feesOn, restoring, events, happened>>

NoneYet == [records |-> 0, fees |-> 0]

ServiceInit ==
    /\ running = TRUE /\ active = Sites[1] /\ known = {Sites[1]} /\ healthy = ToSet(Sites)
    /\ sats = [m \in ToSet(Sites) |-> IF m = Sites[1] THEN FirstSats ELSE 0]
    /\ rows = FirstRows /\ revoked = {}
    /\ allot = [c \in Conns |-> 0] /\ cached = [c \in Conns |-> 0]
    /\ linked = ToSet(FirstRows)
    /\ log = FirstLog /\ feesOn = TRUE /\ restoring = FALSE /\ events = 0 /\ happened = NoneYet

-----------------------------------------------------------------------------
(* What the endpoints answer.  The store lists its rows in the order they   *)
(* were made.                                                              *)

Sum(f(_), seq) == FoldLeft(LAMBDA s, x : s + f(x), 0, seq)
Live == SelectSeq(rows, LAMBDA c : c \notin revoked)
RecordsOf(o) == SelectSeq(log, LAMBDA t : t.by = o)

\* Each connection has its own sockets to the relays: the count is of the last
\* connection in memory.
StatusAnswer ==
    [mint |-> active, healthy |-> active \in healthy, sats |-> sats[active],
     relays |-> Live # <<>> /\ Last(Live) \in linked, count |-> Len(Live), seed |-> TRUE]

BalanceAnswer ==
    [total |-> Sum(LAMBDA m : sats[m], Sites),
     mints |-> [i \in DOMAIN Sites |-> [mint |-> Sites[i], sats |-> sats[Sites[i]],
                                        active |-> Sites[i] = active,
                                        healthy |-> Sites[i] \in healthy]]]

\* Numbered by position among those not revoked.
ConnectionsAnswer ==
    [i \in DOMAIN Live |->
        [id |-> i, key |-> Live[i], label |-> Label[Live[i]], dedicated |-> Live[i] \in Isolated,
         sats |-> IF Live[i] \in Isolated THEN allot[Live[i]] ELSE cached[Live[i]],
         txs |-> Len(RecordsOf(Live[i]))]]

\* The export asked with a label; its numbers count the revoked ones too.
ExportAnswer(label) ==
    SelectSeq([i \in DOMAIN rows |-> [id |-> i, key |-> rows[i]]],
              LAMBDA r : r.key \notin revoked /\ Label[r.key] = label)

\* GET /history?limit=n&unpaid=true: the latest n of each owner, then the latest
\* n of these, and how many these were.
HistoryAnswer(n) ==
    LET shown(o) == o = Api \/ (o \in ToSet(Live))
        after(i) == Cardinality({j \in DOMAIN log : j > i /\ log[j].by = log[i].by})
        limit    == IF n < HistoryCap THEN n ELSE HistoryCap
        taken    == {i \in DOMAIN log : shown(log[i].by) /\ after(i) < limit}
        seq      == [i \in 1..Cardinality(taken) |->
                        log[CHOOSE k \in taken : Cardinality({j \in taken : j <= k}) = i]]
    IN  [total |-> Len(seq),
         txs   |-> SubSeq(seq, IF Len(seq) > limit THEN Len(seq) - limit + 1 ELSE 1, Len(seq))]

MintsAnswer ==
    [i \in DOMAIN Sites |-> [mint |-> Sites[i], active |-> Sites[i] = active,
                             named |-> Sites[i] \in known, healthy |-> Sites[i] \in healthy,
                             sats |-> sats[Sites[i]]]]

\* Core capabilities are taken for granted, the others were asked of the mint.
NutsAnswer ==
    [i \in DOMAIN Sites |-> [mint |-> Sites[i], active |-> Sites[i] = active,
                             optional |-> Sites[i] \in known]]

\* The sockets of the first connection in memory.
RelaysAnswer ==
    IF Live = <<>> THEN [total |-> 0, connected |-> 0, links |-> 0]
    ELSE [total |-> 1, connected |-> IF Head(Live) \in linked THEN 1 ELSE 0,
          links |-> IF Head(Live) \in linked THEN Len(Live) ELSE 0]

ConfigAnswer == [fees |-> feesOn, mint |-> active]
EnvAnswer    == [exists |-> EnvFile, fees |-> feesOn]

\* Fees of connections that are not revoked; API payments are not counted.
FeesAnswer ==
    LET of(c) == Sum(LAMBDA t : t.fee, RecordsOf(c))
    IN  [enabled |-> feesOn, total |-> Sum(of, Live),
         by |-> {<<Label[c], of(c)>> : c \in {c \in ToSet(Live) : of(c) > 0}}]

\* The API's row is one of the connections here.
BackupAnswer ==
    [sats |-> Sum(LAMBDA m : sats[m], Sites),
     count |-> Len(Live) + IF RecordsOf(Api) # <<>> THEN 1 ELSE 0]

LogsAnswer == [lines |-> events]

Answer(e) ==
    CASE e = "status"      -> StatusAnswer
      [] e = "balance"     -> BalanceAnswer
      [] e = "connections" -> ConnectionsAnswer
      [] e = "history1"    -> HistoryAnswer(1)
      [] e = "history30"   -> HistoryAnswer(30)
      [] e = "history100"  -> HistoryAnswer(100)
      [] e = "mints"       -> MintsAnswer
      [] e = "nuts"        -> NutsAnswer
      [] e = "relays"      -> RelaysAnswer
      [] e = "config"      -> ConfigAnswer
      [] e = "env"         -> EnvAnswer
      [] e = "fees"        -> FeesAnswer
      [] e = "backup"      -> BackupAnswer
      [] e = "logs"        -> LogsAnswer

\* No file to send where the store is a database.
Serves(e) == running /\ (e = "backup" => FileStore)

-----------------------------------------------------------------------------
(* What happens at the service, whoever asked for it *)

Happens == running /\ events < MaxEvents /\ events' = events + 1

Put(t) ==
    /\ log' = Append(log, t)
    /\ happened' = [records |-> happened.records + 1, fees |-> happened.fees + t.fee]

\* To the balance of a dedicated connection.
Credit(o, n) ==
    IF o \in Isolated
    THEN /\ allot' = [allot EXCEPT ![o] = @ + n] /\ cached' = [cached EXCEPT ![o] = allot[o] + n]
    ELSE UNCHANGED <<allot, cached>>

\* An invoice is rows, for a connection or over the API.
Invoice(o) ==
    /\ Happens /\ Put([by |-> o, way |-> "in", state |-> "pending", fee |-> 0])
    /\ UNCHANGED <<running, active, known, healthy, sats, rows, revoked, allot, cached, linked,
                   feesOn, restoring>>

\* An invoice of the active mint is paid and minted.
Settles(i) ==
    /\ Happens /\ i \in DOMAIN log /\ log[i].state = "pending"
    /\ log' = [log EXCEPT ![i].state = "settled"]
    /\ sats' = [sats EXCEPT ![active] = @ + 1] /\ Credit(log[i].by, 1)
    /\ UNCHANGED <<running, active, known, healthy, rows, revoked, linked, feesOn, restoring,
                   happened>>

\* A payment, with its fee where one is set, or a failed one.  The fee stays in
\* the wallet; a dedicated connection is charged with both.
Spend(o, ok) ==
    LET fee  == IF ok /\ feesOn THEN 1 ELSE 0
        cost == IF ok THEN 1 ELSE 0
    IN  /\ Happens /\ (ok => sats[active] > 0) /\ (ok /\ o \in Isolated => allot[o] >= 1 + fee)
        /\ Put([by |-> o, way |-> "out", state |-> IF ok THEN "settled" ELSE "failed",
                fee |-> fee])
        /\ sats' = [sats EXCEPT ![active] = @ - cost] /\ Credit(o, -(cost + fee))
        /\ UNCHANGED <<running, active, known, healthy, rows, revoked, linked, feesOn, restoring>>

\* get_balance of an app.
GetBalance(c) ==
    LET given == Sum(LAMBDA d : allot[d], SelectSeq(Live, LAMBDA d : d \in Isolated))
        told  == IF c \in Isolated THEN allot[c]
                 ELSE IF sats[active] > given THEN sats[active] - given ELSE 0
    IN  /\ Happens /\ cached' = [cached EXCEPT ![c] = told]
        /\ UNCHANGED <<running, active, known, healthy, sats, rows, revoked, allot, linked, log,
                       feesOn, restoring, happened>>

Failover(m) ==
    /\ Happens /\ m \in ToSet(Sites) \ {active}
    /\ active' = m /\ known' = known \cup {m} /\ healthy' = (healthy \cup {m}) \ {active}
    /\ UNCHANGED <<running, sats, rows, revoked, allot, cached, linked, log, feesOn, restoring,
                   happened>>

Link(c) ==
    /\ Happens /\ linked' = IF c \in linked THEN linked \ {c} ELSE linked \cup {c}
    /\ UNCHANGED <<running, active, known, healthy, sats, rows, revoked, allot, cached, log, feesOn,
                   restoring, happened>>

SetFees ==
    /\ Happens /\ feesOn' = ~feesOn
    /\ UNCHANGED <<running, active, known, healthy, sats, rows, revoked, allot, cached, linked, log,
                   restoring, happened>>

\* The service stops; a file store forgets the API's records with it.
ServiceStops ==
    /\ Happens /\ running' = FALSE /\ restoring' = FALSE /\ linked' = {}
    /\ log' = IF FileStore THEN SelectSeq(log, LAMBDA t : t.by # Api) ELSE log
    /\ UNCHANGED <<active, known, healthy, sats, rows, revoked, allot, cached, feesOn, happened>>

ServiceStarts ==
    /\ ~running /\ running' = TRUE /\ known' = {active} /\ healthy' = ToSet(Sites)
    /\ linked' = ToSet(Live)
    /\ UNCHANGED <<active, sats, rows, revoked, allot, cached, log, feesOn, restoring, events,
                   happened>>

\* POST /connections: the new row is the last.
CreateRow(c) ==
    /\ c \in Conns \ ToSet(rows) /\ rows' = Append(rows, c) /\ linked' = linked \cup {c}
    /\ UNCHANGED <<running, active, known, healthy, sats, revoked, allot, cached, log, feesOn,
                   restoring, events, happened>>

\* DELETE /connections/:pubkey: a dedicated balance goes back to the wallet.
RevokeRow(c) ==
    /\ revoked' = revoked \cup {c} /\ linked' = linked \ {c}
    /\ allot' = [allot EXCEPT ![c] = 0]
    /\ cached' = [cached EXCEPT ![c] = IF c \in Isolated THEN 0 ELSE @]
    /\ UNCHANGED <<running, active, known, healthy, sats, rows, log, feesOn, restoring, events,
                   happened>>

\* POST /connections/:pubkey/fund, to what is not given to connections yet.
CanFund(c, n) ==
    /\ c \notin revoked /\ c \in Isolated
    /\ n <= sats[active] - Sum(LAMBDA d : allot[d], SelectSeq(Live, LAMBDA d : d \in Isolated))

\* POST .../withdraw: 0 stands for all there is, and a revoked one is not refused.
Withdrawn(c, n) == IF n = 0 THEN allot[c] ELSE n
CanWithdraw(c, n) == c \in Isolated /\ Withdrawn(c, n) \in 1..allot[c]

Allot(c, n) ==
    /\ allot' = [allot EXCEPT ![c] = n] /\ cached' = [cached EXCEPT ![c] = n]
    /\ UNCHANGED <<running, active, known, healthy, sats, rows, revoked, linked, log, feesOn,
                   restoring, events, happened>>

\* POST /restore: one at a time; it brings back a token of the mint.
RestoreBegins ==
    /\ ~restoring /\ restoring' = TRUE
    /\ UNCHANGED <<running, active, known, healthy, sats, rows, revoked, allot, cached, linked, log,
                   feesOn, events, happened>>

RestoreEnds ==
    /\ running /\ restoring /\ restoring' = FALSE /\ sats' = [sats EXCEPT ![active] = @ + 1]
    /\ UNCHANGED <<running, active, known, healthy, rows, revoked, allot, cached, linked, log, feesOn,
                   events, happened>>

ServiceSteps ==
    \/ \E o \in ToSet(Live) \cup {Api} : Invoice(o) \/ \E ok \in BOOLEAN : Spend(o, ok)
    \/ \E i \in DOMAIN log : Settles(i)
    \/ \E c \in ToSet(Live) : GetBalance(c) \/ Link(c)
    \/ \E m \in ToSet(Sites) : Failover(m)
    \/ SetFees \/ ServiceStops \/ ServiceStarts
=============================================================================
