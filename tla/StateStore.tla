------------------------------ MODULE StateStore ------------------------------
(***************************************************************************)
(* The state store of NUTbits on its three backends: opening it (schema,     *)
(* key, re-encryption under stronger scrypt parameters, migration of the     *)
(* .enc file into a database), the updates of a connection's record, the     *)
(* counters of deterministic secrets, the daily spend, crash and restart.   *)
(*                                                                         *)
(* FileStore changes its state in memory and writes the whole of it.  The    *)
(* connections it hands out are its own objects: a handler changes them and  *)
(* tells the store later, in some handlers after an answer of the network.   *)
(* SqliteStore runs each statement at once, MysqlStore awaits each; neither  *)
(* puts the statements of updateConnection into a transaction.  In the file  *)
(* and SQLite stores a call is a chain of microtasks: no other call starts   *)
(* before it is done, though the process may die between two of its steps.   *)
(***************************************************************************)
EXTENDS Integers

CONSTANTS
    Backends,    \* the values of NUTBITS_STATE_BACKEND to look at
    BlobFields,  \* fields of a connection inside its encrypted blob
    Updates,     \* calls of updateConnection
    Writes,      \* the fields each of them writes; "balance" is a column
    Reserves,    \* calls of the counter source's reserve, one secret each
    Spends,      \* calls of addDailySpend, one sat each
    Days,        \* 1..n
    OldCounter,  \* the counter in an .enc file from before this run
    MysqlOverlaps, \* several calls of the MySQL store may run at once
    Faults,      \* "flush": a write fails; "migrate": reading or renaming the .enc file
    MaxCrashes   \* bound: crashes of the process

Fields == BlobFields \cup {"balance"}
Tasks == Updates \cup Reserves \cup Spends

ASSUME StoreAssumption ==
    /\ Backends \subseteq {"file", "sqlite", "mysql"}
    /\ "balance" \notin BlobFields
    /\ Updates \cap {"none", "new"} = {}
    /\ Writes \in [Updates -> (SUBSET Fields) \ {{}}]
    /\ Updates \cap (Reserves \cup Spends) = {} /\ Reserves \cap Spends = {}
    /\ Days \subseteq Nat /\ 1 \in Days
    /\ OldCounter \in Nat /\ MaxCrashes \in Nat
    /\ MysqlOverlaps \in BOOLEAN
    /\ Faults \subseteq {"flush", "migrate"}

VARIABLES
    backend,
    phase,     \* "down", "schema", "salted", "keyed", "renaming", "ready", "run"
    hadSalt,   \* this start found a salt in the database
    file,      \* the .enc file
    fileThere, \* ... exists under its name
    mem,       \* FileStore's #state
    db,        \* the tables
    salt,      \* the config row encryption_salt exists
    version,   \* the config row scrypt_version is '2'
    rowKey,    \* the key the encrypted columns are under
    key,       \* the key this process uses
    at,        \* where each call stands
    fetched,   \* the record it has read
    number,    \* the counter it has read, or its day
    today,
    opened,    \* ghost: the store has been opened once
    high,      \* ghost: end of the counters ever handed out
    repeated,  \* ghost: the counters handed out again
    raced,     \* ghost: a reservation began between the read and the write of another
    spentOk,   \* ghost: sats whose addDailySpend returned, per day
    swept,     \* ghost: a clean-up of an earlier day came today
    crashes

openVars  == <<backend, hadSalt, salt, version, rowKey, key, opened>>
dataVars  == <<file, fileThere, mem, db>>
taskVars  == <<at, fetched, number>>
ghostVars == <<high, repeated, raced, spentOk, swept>>
vars == <<openVars, phase, dataVars, taskVars, today, ghostVars, crashes>>

NoConn == [f \in Fields |-> "none"]
NewConn(v) == [f \in Fields |-> v]
NoSpend == [d \in Days |-> 0]
Blank == [wallet |-> FALSE, conn |-> NoConn, counter |-> 0, spend |-> NoSpend]
Old   == [wallet |-> TRUE, conn |-> NewConn("old"), counter |-> OldCounter, spend |-> NoSpend]

View    == IF backend = "file" THEN mem ELSE db
Durable == IF backend = "file" THEN file ELSE db

Overlaps == backend = "mysql" /\ MysqlOverlaps

\* An installation: none yet, an .enc file, or a database of an earlier version
\* whose columns are under the legacy key.
Init ==
    /\ backend \in Backends
    /\ \/ /\ file \in {Blank, Old} /\ fileThere = (file = Old)
          /\ db = Blank /\ salt = FALSE /\ rowKey = "none"
       \/ /\ backend # "file"
          /\ file = Blank /\ fileThere = FALSE
          /\ db = Old /\ salt = TRUE /\ rowKey = "legacy"
    /\ version = FALSE /\ hadSalt = FALSE /\ key = "none"
    /\ mem = Blank
    /\ phase = "down" /\ opened = FALSE
    /\ at = [t \in Tasks |-> "idle"]
    /\ fetched = [u \in Updates |-> NoConn]
    /\ number = [t \in Reserves \cup Spends |-> 0]
    /\ today = 1
    /\ high = IF Old \in {file, db} THEN OldCounter ELSE 0
    /\ repeated = {} /\ raced = FALSE
    /\ spentOk = NoSpend /\ swept = FALSE
    /\ crashes = 0

-----------------------------------------------------------------------------
(* Opening *)

\* FileStore.init reads the file; the databases create their tables.
Start ==
    /\ phase = "down"
    /\ IF backend = "file"
       THEN phase' = "ready" /\ mem' = file
       ELSE phase' = "schema" /\ UNCHANGED mem
    /\ UNCHANGED <<openVars, file, fileThere, db, taskVars, today, ghostVars, crashes>>

\* The salt is read, or made and stored.
Salt ==
    /\ phase = "schema"
    /\ phase' = "salted"
    /\ hadSalt' = salt
    /\ salt' = TRUE
    /\ UNCHANGED <<backend, version, rowKey, key, opened, dataVars, taskVars, today,
                   ghostVars, crashes>>

\* Mutant: a database with a salt and no version is taken for a new one.
VersionFresh ==
    /\ phase = "salted"
    /\ phase' = "keyed"
    /\ key' = "strong"
    /\ version' = TRUE
    /\ UNCHANGED <<backend, hadSalt, salt, rowKey, opened, dataVars, taskVars, today,
                   ghostVars, crashes>>

\* The version row decides which key the columns are under.  Re-encryption and
\* the new version row are one transaction.
Version ==
    /\ phase = "salted"
    /\ phase' = "keyed"
    /\ key' = "strong"
    /\ version' = TRUE
    /\ rowKey' = IF ~version /\ hadSalt /\ rowKey # "none" THEN "strong" ELSE rowKey
    /\ UNCHANGED <<backend, hadSalt, salt, opened, dataVars, taskVars, today, ghostVars, crashes>>

EmptyDb == db.conn = NoConn /\ ~db.wallet

\* Mutant: the file is renamed before it is read into the database.
MigrateRenamesFirst ==
    /\ phase = "keyed"
    /\ IF EmptyDb /\ fileThere
       THEN fileThere' = FALSE /\ UNCHANGED <<db, rowKey, phase>>
       ELSE phase' = "ready" /\ UNCHANGED <<db, rowKey, fileThere>>
    /\ UNCHANGED <<backend, hadSalt, salt, version, key, opened, file, mem, taskVars, today,
                   ghostVars, crashes>>

\* An empty database takes over the .enc file in one transaction: proofs,
\* connections and transactions, neither counters nor daily spend.  Then the
\* file is renamed.  Whatever throws is logged and the start goes on.
Migrate ==
    /\ phase = "keyed"
    /\ IF EmptyDb /\ fileThere
       THEN \/ /\ db' = [file EXCEPT !.counter = db.counter, !.spend = db.spend]
               /\ rowKey' = key
               /\ phase' = "renaming"
            \/ /\ "migrate" \in Faults
               /\ phase' = "ready"
               /\ UNCHANGED <<db, rowKey>>
       ELSE phase' = "ready" /\ UNCHANGED <<db, rowKey>>
    /\ UNCHANGED <<backend, hadSalt, salt, version, key, opened, file, fileThere, mem,
                   taskVars, today, ghostVars, crashes>>

\* After the commit; a rename that throws leaves the file, to no effect.
Rename ==
    /\ phase = "renaming"
    /\ phase' = "ready"
    /\ fileThere' \in {FALSE} \cup (IF "migrate" \in Faults THEN {TRUE} ELSE {})
    /\ UNCHANGED <<openVars, file, mem, db, taskVars, today, ghostVars, crashes>>

\* The boot restores the stored connection, or creates and stores one.
Run ==
    /\ phase = "ready"
    /\ phase' = "run"
    /\ opened' = TRUE
    /\ IF View.conn # NoConn THEN UNCHANGED <<mem, file, fileThere, db, rowKey>>
       ELSE IF backend = "file"
       THEN /\ mem' = [mem EXCEPT !.conn = NewConn("new")]
            /\ file' = mem' /\ fileThere' = TRUE
            /\ UNCHANGED <<db, rowKey>>
       ELSE /\ db' = [db EXCEPT !.conn = NewConn("new")]
            /\ rowKey' = key
            /\ UNCHANGED <<mem, file, fileThere>>
    /\ UNCHANGED <<backend, hadSalt, salt, version, key, taskVars, today, ghostVars, crashes>>

-----------------------------------------------------------------------------
(* Calls *)

Busy == {t \in Tasks : at[t] \in {"called", "written", "half"}}

Goto(t, s) == at' = [at EXCEPT ![t] = s]

\* A handler on the file store has the connection's object in hand.
Begin(u) ==
    /\ phase = "run" /\ backend = "file"
    /\ at[u] = "idle"
    /\ Goto(u, "begun")
    /\ UNCHANGED <<openVars, phase, dataVars, fetched, number, today, ghostVars, crashes>>

\* A call of the store.  On the file store an update's handler began before.
Call(t) ==
    /\ phase = "run"
    /\ at[t] = IF backend = "file" /\ t \in Updates THEN "begun" ELSE "idle"
    /\ ~Overlaps => Busy = {}
    /\ Goto(t, "called")
    /\ UNCHANGED <<openVars, phase, dataVars, fetched, number, today, ghostVars, crashes>>

Running(t, b) == phase = "run" /\ backend = b /\ t \in Busy

Merge(conn, u, F) == [f \in Fields |-> IF f \in F THEN u ELSE conn[f]]

\* FileStore: a write of memory under the lock, then the whole state to a
\* temporary file that is renamed.  If that throws, memory stays changed.
FileWrites(t, new, ghosts) ==
    /\ Running(t, "file")
    /\ mem' = new
    /\ \/ file' = new /\ fileThere' = TRUE /\ Goto(t, "ok") /\ ghosts
       \/ "flush" \in Faults /\ Goto(t, "failed") /\ UNCHANGED <<file, fileThere, ghostVars>>
    /\ UNCHANGED <<openVars, phase, db, fetched, number, today, crashes>>

\* The handler changes the object, and waits: memory has the new fields, and
\* whatever call writes the file next takes them along.
FileTouch(u) ==
    /\ phase = "run" /\ backend = "file"
    /\ at[u] = "begun"
    /\ Busy = {}
    /\ \E F \in SUBSET Writes[u] : mem' = [mem EXCEPT !.conn = Merge(@, u, F)]
    /\ UNCHANGED <<openVars, phase, file, fileThere, db, taskVars, today, ghostVars, crashes>>

\* It ends with an error before it calls the store: the object stays changed.
GiveUp(u) ==
    /\ phase = "run"
    /\ at[u] = "begun"
    /\ Goto(u, "failed")
    /\ UNCHANGED <<openVars, phase, dataVars, fetched, number, today, ghostVars, crashes>>

FileUpdate(u) ==
    FileWrites(u, [mem EXCEPT !.conn = Merge(@, u, Writes[u])], UNCHANGED ghostVars)

\* The databases: the column "balance" is updated, then the blob is read, merged
\* and written: three statements, and on MySQL an await after each.
DbBalance(u) ==
    /\ phase = "run" /\ backend # "file"
    /\ at[u] = "called" /\ "balance" \in Writes[u]
    /\ db' = [db EXCEPT !.conn = Merge(@, u, {"balance"})]
    /\ Goto(u, IF Writes[u] = {"balance"} THEN "ok" ELSE "written")
    /\ UNCHANGED <<openVars, phase, file, fileThere, mem, fetched, number, today, ghostVars, crashes>>

DbFetch(u) ==
    /\ phase = "run" /\ backend # "file"
    /\ at[u] = IF "balance" \in Writes[u] THEN "written" ELSE "called"
    /\ fetched' = [fetched EXCEPT ![u] = db.conn]
    /\ Goto(u, "half")
    /\ UNCHANGED <<openVars, phase, dataVars, number, today, ghostVars, crashes>>

\* Mutant: the blob is written with the fields of the call and no others.
DbBlobAlone(u) ==
    /\ phase = "run" /\ backend # "file"
    /\ at[u] = "half"
    /\ db' = [db EXCEPT !.conn = [f \in Fields |->
                 IF f = "balance" THEN @[f] ELSE IF f \in Writes[u] THEN u ELSE "new"]]
    /\ Goto(u, "ok")
    /\ UNCHANGED <<openVars, phase, file, fileThere, mem, fetched, number, today, ghostVars, crashes>>

DbBlob(u) ==
    /\ phase = "run" /\ backend # "file"
    /\ at[u] = "half"
    /\ db' = [db EXCEPT !.conn = [f \in Fields |->
                 IF f = "balance" THEN @[f] ELSE IF f \in Writes[u] THEN u ELSE fetched[u][f]]]
    /\ Goto(u, "ok")
    /\ UNCHANGED <<openVars, phase, file, fileThere, mem, fetched, number, today, ghostVars, crashes>>

\* Mutant: the counter is taken for the first secret not handed out, less one.
ReserveReadLast(t) ==
    /\ phase = "run"
    /\ at[t] = "called" /\ t \in Reserves
    /\ number' = [number EXCEPT ![t] = View.counter - 1]
    /\ Goto(t, "half")
    /\ raced' = (raced \/ \E r \in Reserves : at[r] = "half")
    /\ UNCHANGED <<openVars, phase, dataVars, fetched, today, high, repeated, spentOk, swept,
                   crashes>>

\* reserve: the counter is read, then stored advanced; the secrets from it on
\* are the caller's.
ReserveRead(t) ==
    /\ phase = "run"
    /\ at[t] = "called" /\ t \in Reserves
    /\ number' = [number EXCEPT ![t] = View.counter]
    /\ Goto(t, "half")
    /\ raced' = (raced \/ \E r \in Reserves : at[r] = "half")
    /\ UNCHANGED <<openVars, phase, dataVars, fetched, today, high, repeated, spentOk, swept,
                   crashes>>

\* The ghosts of a reservation that got the counter n.
HandedOut(n) ==
    /\ repeated' = IF n < high THEN repeated \cup {n} ELSE repeated
    /\ high' = IF n + 1 > high THEN n + 1 ELSE high
    /\ UNCHANGED <<raced, spentOk, swept>>

\* Mutant: the counter is handed out first and stored when the mint has answered.
ReserveStoreLater(t) ==
    /\ phase = "run"
    /\ at[t] = "half" /\ t \in Reserves
    /\ HandedOut(number[t])
    /\ Goto(t, "ok")
    /\ UNCHANGED <<openVars, phase, dataVars, fetched, number, today, crashes>>

ReserveStore(t) ==
    /\ at[t] = "half" /\ t \in Reserves
    /\ \/ FileWrites(t, [mem EXCEPT !.counter = number[t] + 1], HandedOut(number[t]))
       \/ /\ phase = "run" /\ backend # "file"
          /\ db' = [db EXCEPT !.counter = number[t] + 1]
          /\ HandedOut(number[t])
          /\ Goto(t, "ok")
          /\ UNCHANGED <<openVars, phase, file, fileThere, mem, fetched, number, today, crashes>>

Spent ==
    /\ spentOk' = [spentOk EXCEPT ![today] = @ + 1]
    /\ UNCHANGED <<high, repeated, raced, swept>>

\* addDailySpend, with the date of the call: FileStore forgets the days before.
FileSpend(t) ==
    FileWrites(t, [mem EXCEPT !.spend = [d \in Days |-> IF d < today THEN 0
                                         ELSE IF d = today THEN @[d] + 1 ELSE @[d]]], Spent)

\* Mutant: the sum is reset with every payment.
DbSpendResets(t) ==
    /\ phase = "run" /\ backend # "file"
    /\ at[t] = "called" /\ t \in Spends
    /\ db' = [db EXCEPT !.spend[today] = 1]
    /\ Spent
    /\ number' = [number EXCEPT ![t] = today]
    /\ Goto(t, "half")
    /\ UNCHANGED <<openVars, phase, file, fileThere, mem, fetched, today, crashes>>

\* The databases add in one statement and delete the other days in another.
DbSpend(t) ==
    /\ phase = "run" /\ backend # "file"
    /\ at[t] = "called" /\ t \in Spends
    /\ db' = [db EXCEPT !.spend[today] = @ + 1]
    /\ Spent
    /\ number' = [number EXCEPT ![t] = today]
    /\ Goto(t, "half")
    /\ UNCHANGED <<openVars, phase, file, fileThere, mem, fetched, today, crashes>>

DbSpendCleanup(t) ==
    /\ phase = "run" /\ backend # "file"
    /\ at[t] = "half" /\ t \in Spends
    /\ db' = [db EXCEPT !.spend = [d \in Days |-> IF d = number[t] THEN @[d] ELSE 0]]
    /\ Goto(t, "ok")
    /\ swept' = (swept \/ number[t] # today)
    /\ UNCHANGED <<openVars, phase, file, fileThere, mem, fetched, number, today, high, repeated,
                   raced, spentOk, crashes>>

\* The minute's saveAll, or the one of the shutdown.
SaveAll ==
    /\ phase = "run"
    /\ backend = "file" /\ Busy = {}
    /\ file' = mem /\ fileThere' = TRUE
    /\ UNCHANGED <<openVars, phase, mem, db, taskVars, today, ghostVars, crashes>>

Midnight ==
    /\ today + 1 \in Days
    /\ ~Overlaps => Busy = {}
    /\ today' = today + 1
    /\ swept' = FALSE
    /\ UNCHANGED <<openVars, phase, dataVars, taskVars, high, repeated, raced, spentOk, crashes>>

Crash ==
    /\ phase # "down"
    /\ crashes < MaxCrashes
    /\ crashes' = crashes + 1
    /\ phase' = "down"
    /\ key' = "none"
    /\ mem' = Blank
    /\ at' = [t \in Tasks |-> IF t \in Busy \/ at[t] = "begun" THEN "lost" ELSE at[t]]
    /\ UNCHANGED <<backend, hadSalt, salt, version, rowKey, opened, file, fileThere, db,
                   fetched, number, today, ghostVars>>

-----------------------------------------------------------------------------
Boot == Start \/ Salt \/ Version \/ Migrate \/ Rename \/ Run

Next ==
    \/ Boot \/ SaveAll \/ Midnight \/ Crash
    \/ \E t \in Tasks : Call(t)
    \/ \E u \in Updates : Begin(u) \/ FileTouch(u) \/ GiveUp(u) \/ FileUpdate(u)
    \/ \E u \in Updates : DbBalance(u) \/ DbFetch(u) \/ DbBlob(u)
    \/ \E t \in Reserves : ReserveRead(t) \/ ReserveStore(t)
    \/ \E t \in Spends : FileSpend(t) \/ DbSpend(t) \/ DbSpendCleanup(t)

Spec == Init /\ [][Next]_vars

-----------------------------------------------------------------------------
(* Properties *)

\* Every variable holds a value of its kind.
Conns == [Fields -> Updates \cup {"none", "old", "new"}]
Data  == [wallet : BOOLEAN, conn : Conns, counter : Nat, spend : [Days -> Nat]]

TypeOK ==
    /\ backend \in Backends
    /\ phase \in {"down", "schema", "salted", "keyed", "renaming", "ready", "run"}
    /\ {hadSalt, fileThere, salt, version, opened, raced, swept} \subseteq BOOLEAN
    /\ {file, mem, db} \subseteq Data
    /\ {rowKey, key} \subseteq {"none", "legacy", "strong"}
    /\ at \in [Tasks -> {"idle", "begun", "called", "written", "half", "ok", "failed", "lost"}]
    /\ fetched \in [Updates -> Conns] /\ number \in [Reserves \cup Spends -> Nat]
    /\ today \in Days /\ high \in Nat /\ repeated \subseteq Nat /\ spentOk \in [Days -> Nat] /\ crashes \in Nat

\* A started process reads its columns with the key they are under, whenever
\* an earlier start died: between salt and version row, or in the midst of
\* the re-encryption.
KeyFitsRows ==
    phase \in {"keyed", "renaming", "ready", "run"} /\ backend # "file"
        => rowKey \in {"none", key}

\* The state from before is never out of reach: a store in use holds the old
\* proofs and the old connection's record, with what calls have written since,
\* however often the migration was cut short.  When a start could not read the
\* old file, it is still under its name.
OldStateReachable ==
    phase = "run" /\ (file.wallet \/ db.wallet) =>
        \/ View.wallet /\ \A f \in Fields : View.conn[f] \notin {"none", "new"}
        \/ "migrate" \in Faults /\ backend # "file" /\ fileThere

\* The counters of an .enc file that a database does not take over.
Forgotten == IF backend # "file" /\ file.wallet THEN file.counter ELSE 0

\* A counter of deterministic secrets is handed out again for two reasons only,
\* over restarts and failing writes, on every backend: it is one of an .enc file
\* that a database took the place of, or two reservations of the MySQL store have
\* overlapped.
CountersNeverRepeat == \A n \in repeated : raced \/ n < Forgotten

\* What addDailySpend has acknowledged today counts today, crash or not, unless
\* on MySQL a call from before midnight cleans up after it.
SpendIsCounted == phase = "run" => View.spend[today] >= spentOk[today] \/ swept

\* The store as updateConnection's callers rely on it.
Abstract == INSTANCE ConnStore WITH
    Origin  <- {"old", "new"},
    overlap <- Overlaps,
    open    <- phase = "run",
    Nothing <- NoConn,
    seen    <- IF ~opened THEN NoConn ELSE IF phase = "run" THEN View.conn ELSE Durable.conn,
    durable <- IF opened THEN Durable.conn ELSE NoConn,
    status  <- [u \in Updates |-> IF at[u] \in {"begun", "written", "half"} THEN "called" ELSE at[u]],
    todo    <- [u \in Updates |-> CASE at[u] \in {"idle", "begun", "called"} -> Writes[u]
                                    [] at[u] \in {"written", "half"} -> Writes[u] \ {"balance"}
                                    [] OTHER -> {}],
    read    <- fetched

\* Every backend implements it: a field that a call has written stays until
\* another call writes it, or until a MySQL call that read the record before, and
\* overlaps with it, writes that back.
ImplementsConnStore == Abstract!Spec
=============================================================================
