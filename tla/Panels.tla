-------------------------------- MODULE Panels --------------------------------
(***************************************************************************)
(* The panels of the terminal UI: which answers of the service each asks     *)
(* for and in which order, what it does when one does not come, and which    *)
(* facts it shows.  While it asks, the wallet goes on.  Next to them the     *)
(* session's samples, from which the charts are drawn.  How panels are cached *)
(* and drawn again is in Terminal; wording and layout are left out.          *)
(***************************************************************************)
EXTENDS Service

CONSTANTS
    Opened,     \* the panels opened in this instance
    MaxPoints,  \* samples kept (360)
    ForChange,  \* more samples than these, for the change of the balance (2)
    ForTrend,   \* and for its trend (5)
    ForBars,    \* more bars than these, for a chart (3)
    MaxSamples, \* bound: samples asked for
    MaxOpened   \* bound: panels opened

\* Commands of nutbits that only show one answer are read as panels are.
ShellIds == {"nutbits status", "nutbits balance", "nutbits mints", "nutbits nuts",
             "nutbits relays", "nutbits fees", "nutbits backup"}

PanelIds == {"status", "balance", "connections", "history", "activity", "mints", "nuts",
             "relays", "fees", "config", "logs", "backup", "restore", "export", "revoke",
             "pay", "receive", "connect", "fund", "withdraw"} \cup ShellIds

ASSUME PanelsAssumption ==
    /\ Opened \subseteq PanelIds /\ MaxPoints \in Nat \ {0}
    /\ {ForChange, ForTrend, ForBars, MaxSamples, MaxOpened} \subseteq Nat

VARIABLES
    panel,     \* the panel being read, or "none"; "splash" and "gone" before and after
    todo,      \* groups of requests it still makes
    part,      \* answers to the group under way
    got,       \* answers to groups that are complete
    shown,     \* the facts of the panel on screen
    ring,      \* the samples
    collector, \* collector[k]: where the reading of a sample stands
    overlap,   \* ghost: two samples were read at once
    samples, opened

panelVars == <<panel, todo, part, got, shown, ring, collector, overlap, samples, opened>>

Undefined == -1
Resting == [step |-> "idle", sats |-> 0, txs |-> Undefined, fees |-> Undefined]

\* The first sample is read at once, and then one at every refresh.
Collectors == {"first", "refresh"}

PanelsInit ==
    /\ panel = "splash" /\ todo = <<>> /\ part = <<>> /\ got = <<>> /\ shown = <<>>
    /\ ring = <<>> /\ collector = [k \in Collectors |-> Resting] /\ overlap = FALSE
    /\ samples = 0 /\ opened = 0

-----------------------------------------------------------------------------
(* The session's samples *)

Values(key) == SelectSeq([i \in DOMAIN ring |-> ring[i][key]], LAMBDA v : v # Undefined)

\* A sample's growth over the one before; a lone value stands for itself.
Bars(key) ==
    LET raw == Values(key)
    IN  IF Len(raw) < 2 THEN raw
        ELSE [i \in 1..(Len(raw) - 1) |->
                 IF raw[i + 1] > raw[i] THEN raw[i + 1] - raw[i] ELSE 0]

Charted(key) == IF Len(Bars(key)) > ForBars THEN Bars(key) ELSE <<>>
Trend == IF Len(ring) > ForTrend THEN Values("sats") ELSE <<>>

Push(p) == IF Len(ring) < MaxPoints THEN Append(ring, p) ELSE Append(Tail(ring), p)

\* A count that could not be read is left out of the sample.  Mutant: it is 0.
MissingIsNought == 0
Missing == Undefined

Sample(k, c) == collector' = [collector EXCEPT ![k] = c]

CollectData(k) ==
    LET c == collector[k]
        sampleVars == <<panel, todo, part, got, shown, opened>>
    IN  /\ panel \notin {"splash", "gone"} /\ UNCHANGED sampleVars
        /\ \/ /\ c.step = "idle" /\ samples < MaxSamples /\ samples' = samples + 1
              /\ (k = "first" => samples = 0)
              /\ Sample(k, [c EXCEPT !.step = "status"]) /\ UNCHANGED ring
              /\ overlap' = (overlap \/ \E j \in Collectors : collector[j].step # "idle")
           \/ \* a status that does not come ends it
              /\ c.step = "status" /\ UNCHANGED <<ring, overlap, samples>>
              /\ \/ running /\ Sample(k, [c EXCEPT !.step = "history", !.sats = StatusAnswer.sats])
                 \/ Sample(k, Resting)
           \/ /\ c.step = "history" /\ UNCHANGED <<ring, overlap, samples>>
              /\ \/ running /\ Sample(k, [c EXCEPT !.step = "fees", !.txs = HistoryAnswer(1).total])
                 \/ Sample(k, [c EXCEPT !.step = "fees", !.txs = Missing])
           \/ /\ c.step = "fees" /\ UNCHANGED <<overlap, samples>>
              /\ \E f \in (IF running THEN {FeesAnswer.total} ELSE {}) \cup {Missing} :
                    ring' = Push([sats |-> c.sats, txs |-> c.txs, fees |-> f])
              /\ Sample(k, Resting)

-----------------------------------------------------------------------------
(* What a panel asks for, and what it shows of the answers.  Requests of one *)
(* group are shown together or, when one fails, not at all.                  *)

Asks(p) ==
    CASE p = "status"   -> <<<<"status">>, <<"mints">>>>
      [] p = "history"  -> <<<<"history30">>>>
      [] p = "activity" -> <<<<"history100">>>>
      [] p = "config"   -> <<<<"env">>>>
      [] p = "backup"   -> <<<<"balance", "connections">>>>
      [] p \in {"restore", "receive"} -> <<<<"status">>>>
      [] p = "pay"      -> <<<<"balance">>>>
      [] p = "export"   -> <<<<"history1", "connections", "mints">>>>
      [] p \in {"connect", "revoke", "fund", "withdraw"} -> <<<<"connections">>>>
      [] p = "nutbits status" -> <<<<"status">>>>   [] p = "nutbits balance" -> <<<<"balance">>>>
      [] p = "nutbits mints" -> <<<<"mints">>>>     [] p = "nutbits nuts" -> <<<<"nuts">>>>
      [] p = "nutbits relays" -> <<<<"relays">>>>   [] p = "nutbits fees" -> <<<<"fees">>>>
      [] p = "nutbits backup" -> <<<<"backup">>>>
      [] OTHER          -> <<<<p>>>>

\* Panels that only show an error when their first group fails.
Needs(p) == p \in {"status", "balance", "connections", "history", "mints", "nuts", "relays",
                   "logs", "fees"} \cup ShellIds

Has(g, e) == e \in DOMAIN g

\* The active mint of one answer, the other mints of a later one, and the change
\* since the oldest sample.
statusPanel(g) ==
    LET others == IF Has(g, "mints") /\ Len(g.mints) > 1
                  THEN {m \in ToSet(g.mints) : ~m.active} ELSE {}
    IN  [mint |-> g.status.mint, healthy |-> g.status.healthy, sats |-> g.status.sats,
         change |-> IF Len(ring) > ForChange THEN g.status.sats - Head(ring).sats ELSE 0,
         relays |-> g.status.relays, count |-> g.status.count,
         others |-> {<<m.mint, m.sats, m.healthy>> : m \in others},
         bars |-> Charted("txs")]

balancePanel(g) == [total |-> g.balance.total, mints |-> g.balance.mints, trend |-> Trend]

connectionsPanel(g) ==
    [i \in DOMAIN g.connections |->
        LET r == g.connections[i]
        IN  [id |-> r.id, label |-> r.label, dedicated |-> r.dedicated, sats |-> r.sats,
             txs |-> r.txs]]

ByApi(t) == t.by = Api
Newest(n, seq) == SubSeq(seq, IF Len(seq) > n THEN Len(seq) - n + 1 ELSE 1, Len(seq))

\* Ten of each channel.
historyPanel(g) ==
    LET txs == g.history30.txs
    IN  [total |-> g.history30.total,
         apps |-> Newest(10, SelectSeq(txs, LAMBDA t : ~ByApi(t))),
         api |-> Newest(10, SelectSeq(txs, ByApi)), more |-> g.history30.total > 30]

mintsPanel(g) == [mints |-> g.mints, failover |-> Len(g.mints) > 1]

nutsPanel(g) ==
    IF Len(g.nuts) = 1 THEN [optional |-> g.nuts[1].optional] ELSE [mints |-> g.nuts]

relaysPanel(g) == g.relays

\* Where the file's options cannot be had, what runs is shown in their place.
configPanel(g) ==
    CASE Has(g, "env") -> IF g.env.exists THEN [saved |-> g.env.fees] ELSE [file |-> "missing"]
      [] Has(g, "config") -> [live |-> g.config.fees, mint |-> g.config.mint]
      [] OTHER -> [error |-> TRUE]

logsPanel(g) == [lines |-> IF g.logs.lines > 20 THEN 20 ELSE g.logs.lines]

feesPanel(g) ==
    IF ~g.fees.enabled THEN [enabled |-> FALSE]
    ELSE [enabled |-> TRUE, total |-> g.fees.total, by |-> g.fees.by, bars |-> Charted("fees")]

backupPanel(g) ==
    IF Has(g, "balance")
    THEN [sats |-> g.balance.total, mints |-> Len(g.balance.mints), count |-> Len(g.connections)]
    ELSE <<>>

restorePanel(g) == IF Has(g, "status") THEN [seed |-> g.status.seed] ELSE <<>>
payPanel(g) == IF Has(g, "balance") THEN [sats |-> g.balance.total] ELSE <<>>
receivePanel(g) ==
    IF Has(g, "status") THEN [mint |-> g.status.mint, sats |-> g.status.sats] ELSE <<>>
connectPanel(g) == IF Has(g, "connections") THEN [count |-> Len(g.connections)] ELSE <<>>

exportPanel(g) ==
    IF Has(g, "history1")
    THEN [total |-> g.history1.total, count |-> Len(g.connections), mints |-> Len(g.mints)]
    ELSE <<>>

revokePanel(g) ==
    IF Has(g, "connections")
    THEN [i \in DOMAIN g.connections |-> [id |-> g.connections[i].id,
                                          label |-> g.connections[i].label]]
    ELSE <<>>

DedicatedOf(g) == {r \in ToSet(g.connections) : r.dedicated}
Shared(g) == Cardinality({r \in ToSet(g.connections) : ~r.dedicated})

fundPanel(g) ==
    CASE ~Has(g, "connections") -> <<>>
      [] DedicatedOf(g) = {} -> [shared |-> Shared(g)]
      [] OTHER -> [fund |-> {<<r.id, r.label, r.sats>> : r \in DedicatedOf(g)}]

withdrawPanel(g) ==
    LET filled == {r \in DedicatedOf(g) : r.sats > 0}
    IN  CASE ~Has(g, "connections") -> <<>>
          [] DedicatedOf(g) = {} -> [shared |-> Shared(g)]
          [] filled = {} -> [empty |-> TRUE]
          [] OTHER -> [withdraw |-> {<<r.id, r.label, r.sats>> : r \in filled}]

\* Sums over the records of the answer, a failed payment's amount included; of
\* the success rate those that ended.
activityPanel(g) ==
    LET txs == IF Has(g, "history100") THEN g.history100.txs ELSE <<>>
        count(f(_)) == Len(SelectSeq(txs, f))
        of(api) == [in      |-> count(LAMBDA t : ByApi(t) = api /\ t.way = "in"),
                    out     |-> count(LAMBDA t : ByApi(t) = api /\ t.way = "out"),
                    settled |-> count(LAMBDA t : ByApi(t) = api /\ t.state = "settled"),
                    failed  |-> count(LAMBDA t : ByApi(t) = api /\ t.state = "failed")]
    IN  IF txs = <<>> THEN <<>>
        ELSE [apps |-> of(FALSE), api |-> of(TRUE), bars |-> Charted("txs"),
              byLabel |-> {<<Label[c], count(LAMBDA t : t.by = c)>> :
                              c \in {txs[i].by : i \in DOMAIN txs} \ {Api}}]

statusCommand(g) ==
    [mint |-> g.status.mint, sats |-> g.status.sats, relays |-> g.status.relays,
     count |-> g.status.count, seed |-> g.status.seed]

balanceCommand(g) == g.balance
mintsCommand(g)   == g.mints
nutsCommand(g)    == IF Len(g.nuts) = 1 THEN nutsPanel(g)
                     ELSE [mints |-> g.nuts, first |-> {m.mint : m \in {m \in ToSet(g.nuts) : m.active}}]
relaysCommand(g)  == g.relays
feesCommand(g)    == IF g.fees.enabled THEN [total |-> g.fees.total, by |-> g.fees.by] ELSE <<>>

\* The file it writes is the service's, as it was before these were counted.
backupCommand(g)  == g.backup

Shows(p, g) ==
    CASE p = "status" -> statusPanel(g)       [] p = "balance" -> balancePanel(g)
      [] p = "connections" -> connectionsPanel(g) [] p = "history" -> historyPanel(g)
      [] p = "activity" -> activityPanel(g)   [] p = "mints" -> mintsPanel(g)
      [] p = "nuts" -> nutsPanel(g)           [] p = "relays" -> relaysPanel(g)
      [] p = "fees" -> feesPanel(g)           [] p = "config" -> configPanel(g)
      [] p = "logs" -> logsPanel(g)           [] p = "backup" -> backupPanel(g)
      [] p = "restore" -> restorePanel(g)     [] p = "export" -> exportPanel(g)
      [] p = "revoke" -> revokePanel(g)       [] p = "pay" -> payPanel(g)
      [] p = "receive" -> receivePanel(g)     [] p = "connect" -> connectPanel(g)
      [] p = "fund" -> fundPanel(g)           [] p = "withdraw" -> withdrawPanel(g)
      [] p = "nutbits status" -> statusCommand(g)   [] p = "nutbits balance" -> balanceCommand(g)
      [] p = "nutbits mints" -> mintsCommand(g)     [] p = "nutbits nuts" -> nutsCommand(g)
      [] p = "nutbits relays" -> relaysCommand(g)   [] p = "nutbits fees" -> feesCommand(g)
      [] p = "nutbits backup" -> backupCommand(g)

-----------------------------------------------------------------------------
(* Reading a panel *)

readVars == <<ring, collector, overlap, samples>>

\* The terminal UI starts only when the service answers.
Splash ==
    /\ panel = "splash" /\ panel' \in {"none", "gone"} /\ (panel' = "none" => running)
    /\ shown' = IF panel' = "gone" THEN [error |-> TRUE]
                ELSE [splash |-> TRUE, facts |-> StatusAnswer]
    /\ UNCHANGED <<todo, part, got, opened, readVars>>

Open(p) ==
    /\ panel = "none" /\ opened < MaxOpened /\ opened' = opened + 1
    /\ panel' = p /\ todo' = Asks(p) /\ part' = <<>> /\ got' = <<>>
    /\ UNCHANGED <<shown, readVars>>

NextAsked == Head(todo)[Cardinality(DOMAIN part) + 1]

Answered ==
    /\ todo # <<>> /\ Serves(NextAsked)
    /\ LET all == part @@ (NextAsked :> Answer(NextAsked))
       IN  IF Cardinality(DOMAIN all) < Len(Head(todo))
           THEN part' = all /\ UNCHANGED <<todo, got>>
           ELSE part' = <<>> /\ todo' = Tail(todo) /\ got' = got @@ all
    /\ UNCHANGED <<panel, shown, opened, readVars>>

\* No answer, a refusal, or none within fifteen seconds.
Fails ==
    /\ todo # <<>> /\ part' = <<>>
    /\ IF Needs(panel) /\ got = <<>>
       THEN panel' = "none" /\ shown' = [error |-> TRUE] /\ todo' = <<>> /\ UNCHANGED got
       ELSE /\ todo' = IF NextAsked = "env" THEN <<<<"config">>>> ELSE Tail(todo)
            /\ UNCHANGED <<panel, shown, got>>
    /\ UNCHANGED <<opened, readVars>>

Drawn ==
    /\ panel \in PanelIds /\ todo = <<>>
    /\ shown' = [panel |-> panel, facts |-> Shows(panel, got)]
    /\ panel' = "none" /\ got' = <<>> /\ UNCHANGED <<todo, part, opened, readVars>>

PanelSteps == Splash \/ (\E p \in Opened : Open(p)) \/ Answered \/ Fails \/ Drawn
                \/ \E k \in Collectors : CollectData(k)

-----------------------------------------------------------------------------

AddsUp(key, most) == Sum(LAMBDA v : v, Charted(key)) <= most

\* The bars of a chart add up to no more than what was recorded, or earned, since
\* the terminal UI was started, as long as no two samples are read at once:
\* requests that fail, a service that restarts and forgets, and connections that
\* are revoked between the requests of a sample invent no activity.
ChartsInventNothing ==
    ~overlap => AddsUp("txs", happened.records) /\ AddsUp("fees", happened.fees)

-----------------------------------------------------------------------------
(* What the panels say and does not hold; checked in configurations of      *)
(* their own.                                                              *)

Drawing(p) == shown # <<>> /\ "panel" \in DOMAIN shown /\ shown.panel = p

\* "Multi-mint failover summary": every mint is on the dashboard once.
EveryMintOnStatus ==
    Drawing("status") /\ shown.facts.others # {} =>
        {shown.facts.mint} \cup {o[1] : o \in shown.facts.others} = ToSet(Sites)

\* "Balance with session delta": a change means that sats came or went.
ChangeIsMoney == Drawing("status") /\ happened = NoneYet => shown.facts.change = 0

\* "Transactions:" on the export panel counts them.
ExportCountsAll ==
    Drawing("export") /\ happened = NoneYet /\ revoked = {} /\ shown.facts # <<>> =>
        shown.facts.total = Len(FirstLog)

\* The charts add up also when the first sample, which nothing waits for, is
\* still being read at the first refresh.
BarsAddUp == AddsUp("txs", happened.records) /\ AddsUp("fees", happened.fees)
=============================================================================
