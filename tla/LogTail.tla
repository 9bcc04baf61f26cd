-------------------------------- MODULE LogTail --------------------------------
(***************************************************************************)
(* The log of the service and those who read it: a ring of entries for each *)
(* level, GET /logs over them, the console's Logs page and nutbits logs.    *)
(***************************************************************************)
EXTENDS Naturals, SequencesExt

CONSTANTS
    Keep,       \* entries a ring holds (150)
    LogCap,     \* entries GET /logs answers with at most (200)
    PageLimit,  \* entries the Logs page asks for (100)
    TailLimit,  \* entries nutbits logs asks for (50)
    LogFetches, \* requests the Logs page may have under way
    MaxEntries, \* bound: entries logged
    MaxPicks,   \* bound: levels picked, refresh switched, restarts
    Used,       \* bound: levels logged and picked
    Viewers     \* who reads in this instance

Levels == <<"error", "warn", "info", "debug">>
Level == ToSet(Levels)
Rank(l) == CHOOSE i \in DOMAIN Levels : Levels[i] = l

ASSUME LogAssumption ==
    /\ {Keep, PageLimit, TailLimit} \subseteq 1..LogCap /\ LogCap \in Nat
    /\ {MaxEntries, MaxPicks} \subseteq Nat
    /\ Used \subseteq Level /\ Viewers # {} /\ Viewers \subseteq {"page", "command"}

VARIABLES
    ring,       \* _logBuffers
    logged,     \* ghost: every entry since the start, oldest first
    clock,      \* milliseconds
    viewer,
    level,      \* selectedLevel, or the level of the command
    auto,       \* the page's refresh timer
    fetching,   \* fetching[f]: the level asked for, and what came
    entries,    \* logsStore.logs
    lastTs, printed,
    picks

pageLogVars == <<level, auto, fetching, entries, picks>>
tailVars == <<lastTs, printed>>
logVars == <<ring, logged, clock, viewer, pageLogVars, tailVars>>

NotAsked == [of |-> "nothing", got |-> <<>>]

LogInit ==
    /\ ring = [l \in Level |-> <<>>] /\ logged = <<>> /\ clock = 1
    /\ viewer \in Viewers
    /\ level = "info" /\ auto = FALSE /\ entries = <<>> /\ picks = 0
    /\ fetching = [f \in LogFetches |-> NotAsked]
    /\ lastTs = 0 /\ printed = <<>>

-----------------------------------------------------------------------------
(* The service *)

Newer(s, n) == SubSeq(s, IF Len(s) > n THEN Len(s) - n + 1 ELSE 1, Len(s))

\* Mutant: one ring for all levels.
PushInOne(e) ==
    LET all == Newer(logged, Keep)
    IN  ring' = [l \in Level |-> SelectSeq(all, LAMBDA x : x.level = l)]

\* An entry joins the ring of its level; the oldest of that level leaves it.
Push(e) == ring' = [ring EXCEPT ![e.level] = Newer(Append(@, e), Keep)]

\* log.error, log.warn, ..., some in the same millisecond.
Log(l) ==
    /\ Len(logged) < MaxEntries
    /\ clock' \in {clock, clock + 1}
    /\ LET e == [level |-> l, ts |-> clock', n |-> Len(logged) + 1]
       IN  logged' = Append(logged, e) /\ Push(e)
    /\ UNCHANGED <<viewer, pageLogVars, tailVars>>

\* The levels up to one, merged by time - equals by level - and the newest of them.
Entries(l, limit) ==
    LET found == UNION {ToSet(ring[k]) : k \in {k \in Level : Rank(k) <= Rank(l)}}
        Before(a, b) == \/ a.ts < b.ts
                        \/ a.ts = b.ts /\ Rank(a.level) < Rank(b.level)
                        \/ a.ts = b.ts /\ a.level = b.level /\ a.n < b.n
    IN  Newer(SetToSortSeq(found, Before), limit)

-----------------------------------------------------------------------------
(* The Logs page *)

\* fetchLogs, with the level picked by now.
FetchLogs(f, l) ==
    /\ viewer = "page" /\ fetching[f] = NotAsked
    /\ f = CHOOSE g \in LogFetches : fetching[g] = NotAsked
    /\ fetching' = [fetching EXCEPT ![f] = [of |-> l, got |-> <<>>]]

PickLevel(f) ==
    /\ picks < MaxPicks /\ picks' = picks + 1
    /\ \E l \in Used : level' = l /\ FetchLogs(f, l)
    /\ UNCHANGED <<ring, logged, clock, viewer, auto, entries, tailVars>>

ToggleAuto ==
    /\ viewer = "page" /\ picks < MaxPicks /\ picks' = picks + 1
    /\ auto' = ~auto
    /\ UNCHANGED <<ring, logged, clock, viewer, level, fetching, entries, tailVars>>

\* Mutant: the timer goes on with the level the page was opened at.
AutoRefreshAtFirst(f) ==
    /\ auto /\ FetchLogs(f, "info")
    /\ UNCHANGED <<ring, logged, clock, viewer, level, auto, entries, picks, tailVars>>

\* The timer, every five seconds.
AutoRefresh(f) ==
    /\ auto /\ FetchLogs(f, level)
    /\ UNCHANGED <<ring, logged, clock, viewer, level, auto, entries, picks, tailVars>>

\* The service answers; the answer arrives, or an error that changes nothing.
LogsAnswered(f) ==
    /\ fetching[f].of \in Level
    /\ fetching' = [fetching EXCEPT ![f] =
                        [of |-> "answered", got |-> Entries(fetching[f].of, PageLimit)]]
    /\ UNCHANGED <<ring, logged, clock, viewer, level, auto, entries, picks, tailVars>>

LogsArrive(f) ==
    /\ fetching[f].of = "answered" /\ entries' = fetching[f].got
    /\ fetching' = [fetching EXCEPT ![f] = NotAsked]
    /\ UNCHANGED <<ring, logged, clock, viewer, level, auto, picks, tailVars>>

-----------------------------------------------------------------------------
(* nutbits logs *)

\* Every second: of what comes, entries no newer than the last one printed are
\* passed over.
PrintNew ==
    /\ viewer = "command"
    /\ LET Step(acc, e) == IF e.ts <= acc.ts THEN acc ELSE [ts |-> e.ts, out |-> Append(acc.out, e)]
           after == FoldLeft(Step, [ts |-> lastTs, out |-> printed], Entries(level, TailLimit))
       IN  lastTs' = after.ts /\ printed' = after.out
    /\ UNCHANGED <<ring, logged, clock, viewer, pageLogVars>>

-----------------------------------------------------------------------------
LogNext ==
    \/ \E l \in Used : Log(l)
    \/ \E f \in LogFetches : PickLevel(f) \/ AutoRefresh(f) \/ LogsAnswered(f) \/ LogsArrive(f)
    \/ ToggleAuto \/ PrintNew

LogSpec == LogInit /\ [][LogNext]_logVars

\* Timers fire and requests are answered.
LogFairness ==
    /\ WF_logVars(\E f \in LogFetches : AutoRefresh(f))
    /\ \A f \in LogFetches : WF_logVars(LogsAnswered(f)) /\ WF_logVars(LogsArrive(f))

-----------------------------------------------------------------------------
(* Properties *)

\* Every variable holds a value of its kind.
LogTypeOK ==
    /\ \A l \in Level : Len(ring[l]) <= Keep
    /\ level \in Level /\ auto \in BOOLEAN /\ Len(printed) <= Len(logged)

\* "prevent one noisy level from evicting others": an entry is in the answer for
\* its level or a lower one until Keep others of those levels are as new, however
\* much is logged below them.
NoiseEvictsNothing ==
    \A l \in Level :
        LET upTo == SelectSeq(logged, LAMBDA e : Rank(e.level) <= Rank(l))
        IN  \A i \in DOMAIN upTo :
                Len(SelectSeq(upTo, LAMBDA e : e.ts >= upTo[i].ts)) <= Keep
                    => Contains(Entries(l, LogCap), upTo[i])

\* With the refresh on, the page ends up with the entries of the level picked last,
\* although earlier answers may come after later ones.
LogsCatchUp == <>[]auto => <>[](entries = Entries(level, PageLimit))

\* With no request under way, the page shows the level that is picked.
ShowsPickedLevel ==
    (\A f \in LogFetches : fetching[f] = NotAsked) =>
        \A i \in DOMAIN entries : Rank(entries[i].level) <= Rank(level)

\* Following the log shows every entry that is in its answers.
TailSkipsNothing ==
    [][printed' # printed => ToSet(Entries(level, TailLimit)) \subseteq ToSet(printed')]_logVars
=============================================================================
