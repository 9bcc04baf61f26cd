------------------------------- MODULE TxHistory -------------------------------
(***************************************************************************)
(* The history of payments and those who read it: list_transactions of an   *)
(* app, GET /history and /history/export of the management API, and behind  *)
(* them the console's History, Dashboard and Fees pages (one store of       *)
(* transactions for the three), nutbits watch, nutbits history and export.  *)
(*                                                                         *)
(* A transaction belongs to one connection, or to the API.  Its time of      *)
(* creation is the invoice's own for a payment asked for by an app, so that  *)
(* a record made later may be the older one; a payment over the API is dated *)
(* anew whenever it is asked for again.  Amounts, texts and fees are left out. *)
(***************************************************************************)
EXTENDS Naturals, SequencesExt

CONSTANTS
    Numbered,   \* the connections, in the order the store lists them
    Api,        \* the row of the management API, "__api__"
    Txs,
    Home,       \* Home[t]: the connection, or Api
    Type,       \* Type[t]: "incoming" or "outgoing"
    Stamp,      \* Stamp[t]: created_at, at first
    Latest,     \* bound: the last created_at
    Early,      \* those recorded and settled before the first step, in that order
    Rows,       \* TRUE: a database, which keeps the API's row over a restart and
                \*   lists records of one second in any order; FALSE: the file store
    Queries,    \* what the command line asks
    Page,       \* the largest limit of list_transactions (200)
    Default,    \* the History page's limit at first (50)
    More,       \* what Load more adds to it (20)
    Cap,        \* the largest limit of GET /history (100)
    Recent,     \* the limit of the Dashboard and of watch (20)
    Reads,      \* requests that may be under way at once
    Clients,    \* who reads in this instance
    Revocable,  \* bound: connections that may be revoked
    MaxRetries, \* bound: how often a failed payment is asked for again
    MaxChanges, \* bound: filters changed, pages opened
    MaxStops    \* bound: restarts of the service

Owners == ToSet(Numbered) \cup {Api}
Types == {"incoming", "outgoing"}
None == [kind |-> "none"]
All == 99       \* no connection asked for
Every == "every"

ASSUME HistoryAssumption ==
    /\ Api \notin ToSet(Numbered) /\ Len(Numbered) < All
    /\ Home \in [Txs -> Owners] /\ Type \in [Txs -> Types] /\ Stamp \in [Txs -> 0..Latest]
    /\ Latest \in Nat
    /\ Early \in Seq(Txs) /\ Rows \in BOOLEAN
    /\ {Page, Default, More, Cap, Recent} \subseteq Nat \ {0}
    /\ Revocable \subseteq ToSet(Numbered)
    /\ Clients \subseteq {"app", "browser", "watch", "cli"} /\ Clients # {}
    /\ {MaxRetries, MaxChanges, MaxStops} \subseteq Nat

VARIABLES
    hist,       \* hist[c]: tx_history of c, in the order records were made
    status,     \* status[t]: none, pending, failed or settled
    stamp,      \* stamp[t]: created_at
    revoked,
    spent,      \* ghost: payments that reached their payee
    retries, stops,
    client,     \* who reads
    read,       \* read[f]: a request for history under way (owed is a ghost, kept of
                \*   the command line's)
    pager,      \* the app's pages through list_transactions
    page,       \* the browser's page
    filter,     \* the History page's filters
    view,       \* historyStore.transactions
    total,      \* historyStore.total
    drawn,      \* what watch has on its screen
    last,       \* lastTxCount
    announced,  \* ghost: what its last frame announced as new, and it already showed
    changes

recVars == <<hist, status, stamp, revoked, spent, retries>>
guiVars == <<page, filter, view, total, changes>>
cliVars == <<drawn, last, announced>>
histVars == <<recVars, stops, client, read, pager, guiVars, cliVars>>

\* The console's export leaves out revoked connections, the command line's not.
Kinds == {"history", "save", "export"}
Query == [kind : Kinds, conn : Nat, type : Types \cup {Every}, unpaid : BOOLEAN,
          limit : Nat, from : Nat, until : Nat]

Idle == [step |-> "idle", by |-> "", q |-> None, todo |-> <<>>, got |-> <<>>, owed |-> {}, total |-> 0]
AllOf(l) == [kind |-> "history", conn |-> All, type |-> Every, unpaid |-> FALSE, limit |-> l,
             from |-> 0, until |-> 99]
AnyStatus(q) == [q EXCEPT !.unpaid = TRUE]
AtFirst == [type |-> Every, conn |-> All, limit |-> Default]
NoPager == [of |-> Api, unpaid |-> FALSE, limit |-> 1, offset |-> 0, seen |-> {}, owed |-> {},
            step |-> "idle"]

\* The console is opened at History, and asks for it at once as its timer does.
HistInit ==
    /\ hist = [c \in Owners |-> SelectSeq(Early, LAMBDA t : Home[t] = c)]
    /\ status = [t \in Txs |-> IF Contains(Early, t) THEN "settled" ELSE "none"]
    /\ stamp = Stamp /\ revoked = {} /\ spent = ToSet(Early) /\ retries = 0 /\ stops = 0
    /\ client \in Clients
    /\ read = [f \in Reads |-> Idle] /\ pager = NoPager
    /\ page = IF client = "browser" THEN "history" ELSE "none"
    /\ filter = AtFirst /\ view = <<>> /\ total = 0 /\ changes = 0
    /\ drawn = <<>> /\ last = 0 /\ announced = {}

-----------------------------------------------------------------------------
(* The records *)

\* setTx and updateTx: a key keeps the place it has.
SetTx(t, s) ==
    /\ status' = [status EXCEPT ![t] = s]
    /\ hist' = IF status[t] # "none" THEN hist ELSE [hist EXCEPT ![Home[t]] = Append(@, t)]

Readers == <<client, read, pager, guiVars, cliVars>>

\* make_invoice, pay_invoice and POST /receive: a record of something unpaid, in
\* place of one that failed.
Record(t) ==
    /\ Home[t] \notin revoked
    /\ Home[t] = Api => Type[t] = "incoming"
    /\ \/ status[t] = "none" /\ UNCHANGED retries
       \/ status[t] = "failed" /\ retries < MaxRetries /\ retries' = retries + 1
    /\ SetTx(t, "pending")
    /\ UNCHANGED <<stamp, revoked, spent, stops, Readers>>

\* The invoice was paid, or the payment went through.
Settle(t) ==
    /\ status[t] = "pending"
    /\ SetTx(t, "settled") /\ spent' = spent \cup {t}
    /\ UNCHANGED <<stamp, revoked, retries, stops, Readers>>

Fail(t) ==
    /\ status[t] = "pending" /\ Type[t] = "outgoing"
    /\ SetTx(t, "failed")
    /\ UNCHANGED <<stamp, revoked, spent, retries, stops, Readers>>

\* POST /pay writes its record when the payment has ended, over any there is, and
\* dates it then: at first, Stamp[t].
ApiPay(t) ==
    /\ Home[t] = Api /\ Type[t] = "outgoing"
    /\ \/ status[t] = "none" /\ UNCHANGED retries
       \/ status[t] # "none" /\ retries < MaxRetries /\ retries' = retries + 1
    /\ \/ t \notin spent /\ SetTx(t, "settled") /\ spent' = spent \cup {t}
       \/ SetTx(t, "failed") /\ UNCHANGED spent
    /\ \E now \in IF status[t] = "none" /\ (Rows \/ stops = 0) THEN {stamp[t]} ELSE stamp[t]..Latest :
          stamp' = [stamp EXCEPT ![t] = now]
    /\ UNCHANGED <<revoked, stops, Readers>>

Revoke(c) ==
    /\ c \notin revoked /\ revoked' = revoked \cup {c}
    /\ UNCHANGED <<hist, status, stamp, spent, retries, stops, Readers>>

\* The file store does not write the API's row; a database lists its rows as it
\* likes.  What is under way is answered by an error.
Restart ==
    /\ stops < MaxStops /\ stops' = stops + 1
    /\ IF Rows
       THEN /\ \E h \in [Owners -> UNION {SetToSeqs(ToSet(hist[c])) : c \in Owners}] :
                 /\ \A c \in Owners : ToSet(h[c]) = ToSet(hist[c])
                 /\ hist' = h
            /\ UNCHANGED status
       ELSE /\ hist' = [hist EXCEPT ![Api] = <<>>]
            /\ status' = [t \in Txs |-> IF Home[t] = Api THEN "none" ELSE status[t]]
    /\ read' = [f \in Reads |-> IF read[f].step = "idle" THEN Idle ELSE [read[f] EXCEPT !.step = "lost"]]
    /\ pager' = IF Rows /\ pager.step = "paging" THEN [pager EXCEPT !.step = "reordered"] ELSE pager
    /\ UNCHANGED <<stamp, revoked, spent, retries, client, guiVars, cliVars>>

-----------------------------------------------------------------------------
(* GET /api/v1/history and /history/export *)

Sorted(s) == \A i, j \in DOMAIN s : i < j => s[i].at >= s[j].at

\* Array.sort by created_at, newest first, equals as they were.
Newest(s) ==
    LET Before(i, j) == s[i].at > s[j].at \/ (s[i].at = s[j].at /\ i < j)
        order == SetToSortSeq(DOMAIN s, Before)
    IN  [i \in DOMAIN s |-> s[order[i]]]

Limited(s, n) == IF n = 0 THEN s ELSE SubSeq(s, 1, IF n < Len(s) THEN n ELSE Len(s))

Matching(q, t) == (q.unpaid \/ status[t] = "settled") /\ q.type \in {Every, Type[t]}

\* An export asks for everything.
CutOff(q) == IF q.kind = "history" THEN q.limit ELSE 0

\* A record as it is read.
Row(t) == [tx |-> t, status |-> status[t], at |-> stamp[t]]

\* listTxs: what the store may answer.
Listings(c, q) ==
    LET found == SelectSeq([i \in DOMAIN hist[c] |-> Row(hist[c][i])], LAMBDA r : Matching(q, r.tx))
        orders == IF Rows THEN {s \in SetToSeqs(ToSet(found)) : Sorted(s)} ELSE {Newest(found)}
    IN  {Limited(s, CutOff(q)) : s \in orders}

\* The number each list gives a connection: /history counts those not revoked,
\* /history/export all of them.  The API is number 0.
Number(kind, c) ==
    IF c = Api THEN 0
    ELSE Cardinality({i \in DOMAIN Numbered :
            /\ i <= CHOOSE j \in DOMAIN Numbered : Numbered[j] = c
            /\ kind # "history" \/ Numbered[i] \notin revoked})

\* The connections a request goes through.
Asked(q) ==
    SelectSeq(Append(Numbered, Api),
              LAMBDA c : (c \notin revoked \/ q.kind = "export") /\ q.conn \in {All, Number(q.kind, c)})

InRange(q, r) == q.from <= r.at /\ r.at <= q.until

\* Mutant: each connection's share is cut off before what came is sorted.
MergeUnsorted(q, got) ==
    Newest(Limited(SelectSeq(got, LAMBDA r : InRange(q, r)), IF q.kind = "export" THEN 0 ELSE q.limit))

\* What came from all connections: sorted, within the time asked for, cut off.
Merge(q, got) ==
    Limited(SelectSeq(Newest(got), LAMBDA r : InRange(q, r)), CutOff(q))

\* The transactions a request is about, as the records stand.
About(q) ==
    {t \in Txs : /\ status[t] # "none" /\ Matching(q, t) /\ InRange(q, Row(t))
                 /\ Contains(Asked(q), Home[t])}

Going(r, todo, got) ==
    IF todo = <<>>
    THEN [r EXCEPT !.step = "answered", !.todo = <<>>, !.got = Merge(r.q, got),
                   !.total = Len(SelectSeq(got, LAMBDA x : InRange(r.q, x)))]
    ELSE [r EXCEPT !.step = "reading", !.todo = todo, !.got = got]

Capped(q) == IF q.kind = "history" /\ q.limit > Cap THEN [q EXCEPT !.limit = Cap] ELSE q

\* Requests are alike: the first that is free.
Ask(f, by, q) ==
    /\ read[f] = Idle /\ f = CHOOSE g \in Reads : read[g] = Idle
    /\ read' = [read EXCEPT ![f] =
                    Going([Idle EXCEPT !.by = by, !.q = Capped(q),
                                  !.owed = IF by \in {"page", "timer", "save"} THEN {} ELSE {Row(t) : t \in About(Capped(q))}],
                          Asked(q), <<>>)]

\* The handler awaits the next connection's records; the file store's list of
\* connections is live, and one revoked by now is left out.
ReadNext(f) ==
    /\ read[f].step = "reading"
    /\ LET c == Head(read[f].todo) IN
         \E s \in Listings(c, read[f].q) :
            read' = [read EXCEPT ![f] =
                Going(@, Tail(@.todo), IF ~Rows /\ @.q.kind = "history" /\ c \in revoked THEN @.got ELSE @.got \o s)]
    /\ UNCHANGED <<recVars, stops, client, pager, guiVars, cliVars>>

Answered(f) == read[f].step = "answered" /\ read' = [read EXCEPT ![f] = Idle]

\* No answer came: the client keeps what it shows.
Lost(f) ==
    /\ read[f].step = "lost" /\ read' = [read EXCEPT ![f] = Idle]
    /\ UNCHANGED <<recVars, stops, client, pager, guiVars, cliVars>>

\* nutbits history, nutbits export history.
CliAsk(f) ==
    /\ client = "cli" /\ \A g \in Reads : read[g] = Idle
    /\ \E q \in Queries : Ask(f, "cli", q)
    /\ UNCHANGED <<recVars, stops, client, pager, guiVars, cliVars>>

\* Printed, or written to a file.
CliShow(f) ==
    /\ read[f].by \in {"cli", "save"} /\ Answered(f)
    /\ UNCHANGED <<recVars, stops, client, pager, guiVars, cliVars>>

-----------------------------------------------------------------------------
(* The console: History polls, Dashboard and Fees ask once, and all answers go *)
(* to the one store of transactions.                                        *)

Shown == [AllOf(filter.limit) EXCEPT !.type = filter.type, !.conn = filter.conn]

\* fetchTransactions, with filters that have just been set.
Fetch(f, new) ==
    /\ filter' = new
    /\ Ask(f, "page", [AllOf(new.limit) EXCEPT !.type = new.type, !.conn = new.conn])

Change == client = "browser" /\ changes < MaxChanges /\ changes' = changes + 1

Open(f) ==
    /\ Change
    /\ \/ page' = "history" /\ Fetch(f, AtFirst)
       \/ page' = "dashboard" /\ Ask(f, "page", AnyStatus(AllOf(Recent))) /\ UNCHANGED filter
       \/ page' = "fees" /\ Ask(f, "page", AllOf(Cap)) /\ UNCHANGED filter
    /\ UNCHANGED <<recVars, stops, client, pager, view, total, cliVars>>

\* The buttons, the lists of connections and limits, Load more.
SetFilter(f) ==
    /\ page = "history" /\ Change
    /\ \/ \E ty \in Types \cup {Every} : Fetch(f, [filter EXCEPT !.type = ty])
       \/ \E c \in Owners : Fetch(f, [filter EXCEPT !.conn = IF c = Api THEN All ELSE Number("history", c)])
       \/ \E l \in {Recent, Default, Cap} : Fetch(f, [filter EXCEPT !.limit = l])
       \/ Len(view) < total /\ Fetch(f, [filter EXCEPT !.limit = @ + More])
    /\ UNCHANGED <<recVars, stops, client, pager, page, view, total, cliVars>>

\* Mutant: the timer asks with the filters there were when it was started.
PollAtFirst(f) ==
    /\ page = "history" /\ \A g \in Reads : read[g].by # "timer"
    /\ Ask(f, "timer", AllOf(AtFirst.limit))
    /\ UNCHANGED <<recVars, stops, client, pager, guiVars, cliVars>>

\* usePolling, every fifteen seconds while the page is open: as long as the
\* console waits for an answer, so that one of the timer's requests is under way.
Poll(f) ==
    /\ page = "history" /\ \A g \in Reads : read[g].by # "timer"
    /\ Ask(f, "timer", Shown)
    /\ UNCHANGED <<recVars, stops, client, pager, guiVars, cliVars>>

\* An answer replaces the list, whoever asked and whatever is open.
Arrive(f) ==
    /\ read[f].by \in {"page", "timer"} /\ Answered(f)
    /\ view' = read[f].got /\ total' = read[f].total
    /\ UNCHANGED <<recVars, stops, client, pager, page, filter, changes, cliVars>>

\* handleExport: what the filters show, to a file.
Save(f) ==
    /\ page = "history" /\ Change
    /\ Ask(f, "save", [Shown EXCEPT !.kind = "save"])
    /\ UNCHANGED <<recVars, stops, client, pager, page, filter, view, total, cliVars>>

-----------------------------------------------------------------------------
(* nutbits watch *)

WatchAsk(f) ==
    /\ client = "watch" /\ \A g \in Reads : read[g] = Idle
    /\ Ask(f, "watch", AnyStatus(AllOf(Recent)))
    /\ UNCHANGED <<recVars, stops, client, pager, guiVars, cliVars>>

\* As many as the total has grown by are announced, from the top of the list.
WatchDraw(f) ==
    /\ read[f].by = "watch" /\ Answered(f)
    /\ LET all == read[f].total
           new == IF last > 0 /\ all > last THEN SubSeq(read[f].got, 1, all - last) ELSE <<>>
       IN  /\ announced' = {r.tx : r \in ToSet(new)} \cap {r.tx : r \in ToSet(drawn)}
           /\ last' = all
    /\ drawn' = read[f].got
    /\ UNCHANGED <<recVars, stops, client, pager, guiVars>>

-----------------------------------------------------------------------------
(* An app that pages through list_transactions *)

\* The list in memory, as the handler filters and sorts it.
Filtered(c, unpaid) ==
    LET Wanted(t) == unpaid \/ status[t] = "settled"
        found == SelectSeq(hist[c], Wanted)
    IN  Newest([i \in DOMAIN found |-> Row(found[i])])

From(l, offset, limit) == Limited(SubSeq(l, offset + 1, Len(l)), limit)

\* Mutant: the page is cut before unpaid records are left out.
PageOfAll(c, unpaid, offset, limit) ==
    SelectSeq(From(Filtered(c, TRUE), offset, limit), LAMBDA r : unpaid \/ status[r.tx] = "settled")

\* offset and limit count what is left after the filters.
PageOf(c, unpaid, offset, limit) == From(Filtered(c, unpaid), offset, limit)

PagerStart ==
    /\ client = "app" /\ pager.step = "idle"
    /\ \E c \in ToSet(Numbered) \ revoked, u \in BOOLEAN, l \in 1..Page :
         pager' = [NoPager EXCEPT !.of = c, !.unpaid = u, !.limit = l, !.step = "paging",
                                  !.owed = {r.tx : r \in ToSet(Filtered(c, u))}]
    /\ UNCHANGED <<recVars, stops, client, read, guiVars, cliVars>>

\* A page, asked for at the number of records seen so far; a short one is the last.
ListTransactions ==
    /\ pager.step \in {"paging", "reordered"} /\ pager.of \notin revoked
    /\ LET got == PageOf(pager.of, pager.unpaid, pager.offset, pager.limit)
       IN  pager' = [pager EXCEPT
              !.offset = @ + Len(got), !.seen = @ \cup {r.tx : r \in ToSet(got)},
              !.step = IF Len(got) = pager.limit THEN @ ELSE IF @ = "paging" THEN "done" ELSE "idle"]
    /\ UNCHANGED <<recVars, stops, client, read, guiVars, cliVars>>

PagerEnd ==
    /\ pager.step = "done" /\ pager' = NoPager
    /\ UNCHANGED <<recVars, stops, client, read, guiVars, cliVars>>

-----------------------------------------------------------------------------
HistNext ==
    \/ \E t \in Txs : Record(t) \/ Settle(t) \/ Fail(t) \/ ApiPay(t)
    \/ \E c \in Revocable : Revoke(c)
    \/ Restart
    \/ \E f \in Reads : \/ ReadNext(f) \/ Lost(f) \/ CliAsk(f) \/ CliShow(f)
                         \/ Open(f) \/ SetFilter(f) \/ Poll(f) \/ Arrive(f) \/ Save(f)
                         \/ WatchAsk(f) \/ WatchDraw(f)
    \/ PagerStart \/ ListTransactions \/ PagerEnd

HistSpec == HistInit /\ [][HistNext]_histVars

\* Requests are answered or lost, and the page's timer fires.
HistFairness ==
    /\ \A f \in Reads : /\ WF_histVars(ReadNext(f)) /\ WF_histVars(Lost(f))
                        /\ WF_histVars(Arrive(f)) /\ WF_histVars(CliShow(f))
    /\ WF_histVars(\E f \in Reads : Poll(f))

-----------------------------------------------------------------------------
(* Properties *)

\* Every variable holds a value of its kind.
HistTypeOK ==
    /\ hist \in [Owners -> Seq(Txs)] /\ revoked \subseteq Owners /\ spent \subseteq Txs
    /\ status \in [Txs -> {"none", "pending", "failed", "settled"}] /\ stamp \in [Txs -> 0..Latest]
    /\ client \in Clients
    /\ \A f \in Reads : read[f].step \in {"idle", "reading", "answered", "lost"}
    /\ pager.step \in {"idle", "paging", "reordered", "done"}
    /\ page \in {"none", "history", "dashboard", "fees"}

\* Those of owed that an answer leaves out, it leaves out for others as new.
Covers(a, q, owed) ==
    \A r \in owed : \/ \E i \in DOMAIN a : a[i].tx = r.tx
                    \/ Len(a) = CutOff(q) /\ \A i \in DOMAIN a : a[i].at >= r.at

\* A transaction that was there when a list was asked for, and still is, is in
\* the answer, unless the answer is full of others at least as new as it was then -
\* although the records are read one connection after the other, each cut off by
\* itself, while payments go on and are dated anew.
HistoryComplete ==
    \A f \in Reads : read[f].step = "answered" =>
        Covers(read[f].got, read[f].q, {r \in read[f].owed : r.tx \in About(read[f].q)})

\* An app that pages through its history gets every transaction that was there
\* when it began, although others come in, settle, or are recorded again
\* meanwhile (a database restarted in between may list equals in another order).
PagesMissNothing ==
    pager.step = "done" => pager.owed \subseteq pager.seen

\* What the records are now: all that is asked for, nothing else, in order.
Right(a, q) ==
    /\ Covers(a, q, {Row(t) : t \in About(q)}) /\ Sorted(a) /\ IsInjective(a)
    /\ \A i \in DOMAIN a : a[i].tx \in About(q) /\ a[i] = Row(a[i].tx)

\* The History page ends up showing what its filters ask for, although Dashboard,
\* Fees and earlier filters' answers write to the same list in any order.
ViewCatchesUp ==
    <>[](page = "history") => <>[]Right(view, Capped(Shown))

\* What watch announces as new was not yet on its screen.
WatchAnnouncesNew == announced = {}

\* What the console exports is of the connection its list shows.
ExportIsOfShown ==
    \A f \in Reads : (read[f].q # None /\ read[f].q.kind = "save") =>
        Asked(read[f].q) = Asked([read[f].q EXCEPT !.kind = "history"])
=============================================================================
