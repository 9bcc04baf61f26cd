--------------------------- MODULE StateStoreProofs ---------------------------
(***************************************************************************)
(* Proofs about StateStore, for every value of the constants: on each backend *)
(* with any number of calls, which on MySQL may overlap.                    *)
(***************************************************************************)
EXTENDS StateStore, TLAPS

-----------------------------------------------------------------------------
(* Types *)

\* Merging a call's fields into a record makes a record.
LEMMA MergeTyped ==
    ASSUME NEW conn \in Conns, NEW u \in Updates, NEW F
    PROVE  Merge(conn, u, F) \in Conns
BY DEF Merge, Conns

\* The initial states are typed.
LEMMA TypeInit == Init => TypeOK
<1> SUFFICES ASSUME Init PROVE TypeOK
  OBVIOUS
<1>1. {Blank, Old} \subseteq Data
  BY StoreAssumption
  DEF StoreAssumption, Data, Conns, Blank, Old, NoConn, NewConn, NoSpend
<1>2. spentOk \in [Days -> Nat] /\ fetched \in [Updates -> Conns]
  BY DEF Init, NoSpend, NoConn, Conns
<1>3. fileThere \in BOOLEAN
  BY DEF Init
<1>4. {file, mem, db} \subseteq Data /\ high \in Nat
  BY <1>1, StoreAssumption DEF StoreAssumption, Init
<1>5. {hadSalt, salt, version, opened, raced, swept} \subseteq BOOLEAN /\ repeated \subseteq Nat
  BY DEF Init
<1>6. number \in [Reserves \cup Spends -> Nat] /\ at \in [Tasks -> {"idle"}]
  BY DEF Init
<1> QED
  BY <1>2, <1>3, <1>4, <1>5, <1>6, StoreAssumption DEF StoreAssumption, Init, TypeOK

\* What the ghosts of a step keep.
GhostsTyped ==
    /\ high' \in Nat /\ repeated' \subseteq Nat /\ raced' \in BOOLEAN
    /\ spentOk' \in [Days -> Nat] /\ swept' \in BOOLEAN

\* Every step keeps the types.
LEMMA TypeStep == TypeOK /\ [Next]_vars => TypeOK'
<1> SUFFICES ASSUME TypeOK, [Next]_vars PROVE TypeOK'
  OBVIOUS
<1> USE DEF TypeOK
<1>1. CASE Boot
  <2>1. CASE Start
    BY <2>1 DEF Start, openVars, taskVars, ghostVars
  <2>2. CASE Salt
    BY <2>2 DEF Salt, dataVars, taskVars, ghostVars
  <2>3. CASE Version
    BY <2>3 DEF Version, dataVars, taskVars, ghostVars
  <2>4. CASE Migrate
    <3>1. [file EXCEPT !.counter = db.counter, !.spend = db.spend] \in Data
      BY DEF Data
    <3> QED
      BY <2>4, <3>1 DEF Migrate, taskVars, ghostVars
  <2>5. CASE Rename
    BY <2>5 DEF Rename, openVars, taskVars, ghostVars
  <2>6. CASE Run
    <3>1. NewConn("new") \in Conns
      BY DEF Conns, NewConn
    <3>2. /\ [mem EXCEPT !.conn = NewConn("new")] \in Data
          /\ [db EXCEPT !.conn = NewConn("new")] \in Data
      BY <3>1 DEF Data
    <3> QED
      BY <2>6, <3>2 DEF Run, taskVars, ghostVars
  <2> QED
    BY <1>1, <2>1, <2>2, <2>3, <2>4, <2>5, <2>6 DEF Boot
<1>2. CASE SaveAll
  BY <1>2 DEF SaveAll, openVars, taskVars, ghostVars
<1>3. CASE Midnight
  BY <1>3 DEF Midnight, openVars, dataVars, taskVars
<1>4. CASE Crash
  <2>1. Blank \in Data
    BY DEF Blank, Data, Conns, NoConn, NoSpend
  <2> QED
    BY <1>4, <2>1 DEF Crash, ghostVars
<1>5. ASSUME NEW t \in Tasks, Call(t) PROVE TypeOK'
  BY <1>5 DEF Call, Goto, openVars, dataVars, ghostVars
<1>6. ASSUME NEW u \in Updates,
             \/ Begin(u) \/ FileTouch(u) \/ GiveUp(u) \/ FileUpdate(u)
             \/ DbBalance(u) \/ DbFetch(u) \/ DbBlob(u)
      PROVE TypeOK'
  <2> u \in Tasks
    BY DEF Tasks
  <2>4. CASE Begin(u) \/ GiveUp(u)
    BY <2>4 DEF Begin, GiveUp, Goto, openVars, dataVars, ghostVars
  <2>5. CASE FileTouch(u)
    <3>1. \A F : [mem EXCEPT !.conn = Merge(@, u, F)] \in Data
      BY MergeTyped DEF Data
    <3> QED
      BY <2>5, <3>1 DEF FileTouch, openVars, taskVars, ghostVars
  <2>6. CASE DbFetch(u)
    <3>1. db.conn \in Conns
      BY DEF Data
    <3> QED
      BY <2>6, <3>1 DEF DbFetch, Goto, openVars, dataVars, ghostVars
  <2>1. CASE FileUpdate(u)
    <3> DEFINE new == [mem EXCEPT !.conn = Merge(@, u, Writes[u])]
    <3>1. new \in Data
      BY MergeTyped DEF Data
    <3> HIDE DEF new
    <3>2. FileWrites(u, new, UNCHANGED ghostVars)
      BY <2>1 DEF FileUpdate, new
    <3> QED
      BY <3>1, <3>2 DEF FileWrites, Goto, openVars, ghostVars
  <2>2. CASE DbBalance(u)
    <3>1. [db EXCEPT !.conn = Merge(@, u, {"balance"})] \in Data
      BY MergeTyped DEF Data
    <3> QED
      BY <2>2, <3>1 DEF DbBalance, Goto, openVars, ghostVars, Data
  <2>3. CASE DbBlob(u)
    <3>1. db' \in Data
      BY <2>3 DEF DbBlob, Data, Conns
    <3> QED
      BY <2>3, <3>1 DEF DbBlob, Goto, openVars, ghostVars
  <2> QED
    BY <1>6, <2>1, <2>2, <2>3, <2>4, <2>5, <2>6
<1>7. ASSUME NEW t \in Reserves, ReserveRead(t) \/ ReserveStore(t) PROVE TypeOK'
  <2> t \in Tasks
    BY DEF Tasks
  <2>1. CASE ReserveRead(t)
    <3>1. View.counter \in Nat
      BY DEF View, Data
    <3>2. raced' \in BOOLEAN
      BY <2>1, Zenon DEF ReserveRead
    <3>3. number' \in [Reserves \cup Spends -> Nat]
      BY <2>1, <3>1 DEF ReserveRead
    <3>4. at' \in [Tasks -> {"idle", "begun", "called", "written", "half", "ok", "failed", "lost"}]
      BY <2>1 DEF ReserveRead, Goto
    <3> QED
      BY <2>1, <3>2, <3>3, <3>4 DEF ReserveRead, openVars, dataVars
  <2>2. CASE ReserveStore(t)
    <3> DEFINE new == [mem EXCEPT !.counter = number[t] + 1]
    <3>1. new \in Data /\ [db EXCEPT !.counter = number[t] + 1] \in Data
      BY DEF Data
    <3>2. ASSUME HandedOut(number[t])
          PROVE  GhostsTyped
      <4>1. number[t] \in Nat /\ spentOk' \in [Days -> Nat] /\ high' \in Nat
        BY <3>2 DEF HandedOut
      <4>2. repeated' \subseteq Nat
        BY <3>2, <4>1 DEF HandedOut
      <4>3. raced' = raced /\ swept' = swept
        BY <3>2 DEF HandedOut
      <4>4. raced' \in BOOLEAN /\ swept' \in BOOLEAN
        BY <4>3
      <4> QED
        BY <4>1, <4>2, <4>4 DEF GhostsTyped
    <3> HIDE DEF new
    <3>3. CASE FileWrites(t, new, HandedOut(number[t]))
      BY <3>1, <3>2, <3>3 DEF FileWrites, Goto, openVars, ghostVars, GhostsTyped
    <3>4. CASE ~FileWrites(t, new, HandedOut(number[t]))
      <4>1. /\ db' = [db EXCEPT !.counter = number[t] + 1] /\ HandedOut(number[t])
            /\ at' = [at EXCEPT ![t] = "ok"]
            /\ UNCHANGED <<openVars, phase, file, fileThere, mem, fetched, number, today, crashes>>
        BY <2>2, <3>4 DEF ReserveStore, new, Goto
      <4>2. GhostsTyped
        BY <3>2, <4>1
      <4> QED
        BY <3>1, <4>1, <4>2 DEF openVars, GhostsTyped
    <3> QED
      BY <3>3, <3>4
  <2> QED
    BY <1>7, <2>1, <2>2
<1>8. ASSUME NEW t \in Spends, FileSpend(t) \/ DbSpend(t) \/ DbSpendCleanup(t) PROVE TypeOK'
  <2> t \in Tasks
    BY DEF Tasks
  <2>1. ASSUME Spent
        PROVE  GhostsTyped
    BY <2>1 DEF Spent, GhostsTyped
  <2>2. CASE FileSpend(t)
    <3> DEFINE new == [mem EXCEPT !.spend = [d \in Days |-> IF d < today THEN 0
                                 ELSE IF d = today THEN @[d] + 1 ELSE @[d]]]
    <3>1. new \in Data
      BY DEF Data
    <3> HIDE DEF new
    <3>2. FileWrites(t, new, Spent)
      BY <2>2 DEF FileSpend, new
    <3> QED
      BY <2>1, <3>1, <3>2 DEF FileWrites, Goto, openVars, ghostVars, GhostsTyped
  <2>3. CASE DbSpend(t)
    <3>1. db' \in Data
      BY <2>3 DEF DbSpend, Data
    <3>2. today \in Nat
      BY StoreAssumption DEF StoreAssumption
    <3> QED
      BY <2>1, <2>3, <3>1, <3>2 DEF DbSpend, Goto, openVars, GhostsTyped
  <2>4. CASE DbSpendCleanup(t)
    <3>1. db' \in Data
      BY <2>4 DEF DbSpendCleanup, Data
    <3> QED
      BY <2>4, <3>1 DEF DbSpendCleanup, Goto, openVars
  <2> QED
    BY <1>8, <2>2, <2>3, <2>4
<1>9. CASE UNCHANGED vars
  BY <1>9 DEF vars, openVars, dataVars, taskVars, ghostVars
<1> QED
  BY <1>1, <1>2, <1>3, <1>4, <1>5, <1>6, <1>7, <1>8, <1>9 DEF Next

\* Every reachable state is typed.
THEOREM StoreTyped == Spec => []TypeOK
  BY TypeInit, TypeStep, PTL DEF Spec

-----------------------------------------------------------------------------
(* The invariant of the refinement *)

FullConns == [Fields -> Updates \cup {"old", "new"}]

\* A process in use has opened the store; the .enc file is read by its own store.
Phases ==
    /\ phase = "run" => opened
    /\ phase \in {"schema", "salted", "keyed", "renaming"} => backend # "file"
    /\ backend = "file" /\ phase = "ready" => mem = file

\* No call runs in a store that is not, and where calls do not overlap they run
\* one at a time.
Calls ==
    /\ phase # "run" => Busy = {} /\ \A t \in Tasks : at[t] # "begun"
    /\ ~Overlaps => \A s, t \in Busy : s = t

\* A record is there in full or not at all, and from the first start on it is there.
Records ==
    /\ {file.conn, mem.conn, db.conn} \subseteq FullConns \cup {NoConn}
    /\ opened => Durable.conn # NoConn
    /\ phase = "run" => View.conn # NoConn

\* What an update of a database has read is a record; where calls do not overlap
\* nobody else writes before it writes back: it is what is there.
Halves ==
    \A u \in Updates :
        /\ at[u] \in {"written", "half"} => backend # "file"
        /\ at[u] = "half" =>
              /\ fetched[u] \in FullConns
              /\ ~Overlaps => \A f \in BlobFields : fetched[u][f] = db.conn[f]

StoreInv == TypeOK /\ Phases /\ Calls /\ Records /\ Halves

\* A connection nobody has created has none of its fields.
LEMMA NoConnIsNotFull == NoConn \notin FullConns
BY StoreAssumption DEF StoreAssumption, NoConn, FullConns, Fields

\* Writing fields of a record leaves a record.
LEMMA MergeFull ==
    ASSUME NEW conn \in FullConns, NEW u \in Updates, NEW F
    PROVE  Merge(conn, u, F) \in FullConns
BY DEF Merge, FullConns

\* Once it is not NoConn a record in use is a full one.
LEMMA ViewFull == StoreInv /\ phase = "run" => View.conn \in FullConns
BY DEF StoreInv, Records, View

\* A store that was never opened has no call under way.
LEMMA StoreInit == Init => StoreInv
<1> SUFFICES ASSUME Init PROVE StoreInv
  OBVIOUS
<1>1. TypeOK
  BY TypeInit
<1>2. {Blank.conn, Old.conn} \subseteq FullConns \cup {NoConn}
  BY DEF Blank, Old, NewConn, FullConns
<1>3. Phases /\ Calls /\ Halves
  BY DEF Init, Phases, Calls, Busy, Halves, Tasks
<1>4. Records
  BY <1>2 DEF Init, Records
<1> QED
  BY <1>1, <1>3, <1>4 DEF StoreInv

\* The file store's write keeps the invariant when it writes a record.
LEMMA FileWritesKeep ==
    ASSUME StoreInv, TypeOK', NEW t \in Tasks, NEW new \in Data, new.conn \in FullConns,
           FileWrites(t, new, TRUE)
    PROVE  StoreInv'
<1> USE DEF StoreInv
<1>1. backend = "file" /\ backend' = "file" /\ phase = "run" /\ phase' = "run" /\ opened' = opened
  BY DEF FileWrites, Running, openVars
<1>2. Phases'
  BY <1>1 DEF Phases
<1>3. at \in [Tasks -> {"idle", "begun", "called", "written", "half", "ok", "failed", "lost"}] /\ at' = [at EXCEPT ![t] = at'[t]]
      /\ at'[t] \in {"ok", "failed"}
  BY DEF FileWrites, TypeOK, Goto
<1>4. Calls'
  BY <1>1, <1>3 DEF Calls, Busy, Overlaps
<1>5. Halves'
  BY <1>1, <1>3 DEF Halves, Tasks
<1>6. mem' = new /\ file' \in {file, new} /\ db' = db
  BY DEF FileWrites
<1>7. Records'
  BY <1>1, <1>6, NoConnIsNotFull DEF Records, View, Durable
<1> QED
  BY <1>2, <1>4, <1>5, <1>7

\* Opening the store.
LEMMA BootKeeps == StoreInv /\ TypeOK' /\ Boot => StoreInv'
<1> SUFFICES ASSUME StoreInv, TypeOK', Boot PROVE StoreInv'
  OBVIOUS
<1> USE DEF StoreInv
<1>1. CASE Start \/ Salt \/ Version \/ Rename
  <2>1. phase # "run" /\ phase' # "run" /\ backend' = backend /\ opened' = opened
        /\ at' = at /\ db' = db /\ file' = file /\ mem' \in {mem, file} /\ fetched' = fetched
    BY <1>1 DEF Start, Salt, Version, Rename, openVars, dataVars, taskVars
  <2>2. Phases'
    BY <1>1 DEF Phases, Start, Salt, Version, Rename, openVars, dataVars
  <2>3. Calls' /\ Halves'
    BY <2>1 DEF Calls, Busy, Halves, Overlaps
  <2>4. Records'
    BY <2>1 DEF Records, Durable
  <2> QED
    BY <2>2, <2>3, <2>4
<1>2. CASE Migrate
  <2>1. phase = "keyed" /\ phase' \in {"renaming", "ready"} /\ backend' = backend /\ backend # "file"
        /\ opened' = opened /\ at' = at /\ file' = file /\ mem' = mem /\ fetched' = fetched
    BY <1>2 DEF Migrate, taskVars, Phases
  <2>2. db' = db \/ (db.conn = NoConn /\ db'.conn = file.conn)
    BY <1>2 DEF Migrate, EmptyDb, TypeOK, Data
  <2>3. Phases'
    BY <2>1 DEF Phases
  <2>4. Calls' /\ Halves'
    BY <2>1 DEF Calls, Busy, Halves, Tasks, Overlaps
  <2>5. Records'
    BY <2>1, <2>2 DEF Records, Durable
  <2> QED
    BY <2>3, <2>4, <2>5
<1>3. CASE Run
  <2>1. phase = "ready" /\ phase' = "run" /\ opened' /\ backend' = backend /\ at' = at /\ fetched' = fetched
    BY <1>3 DEF Run, taskVars
  <2>2. NewConn("new") \in FullConns
    BY DEF NewConn, FullConns
  <2>3. Phases'
    BY <2>1 DEF Phases
  <2>4. Busy = {} /\ Busy' = {}
    BY <2>1 DEF Calls, Busy
  <2>5. Calls' /\ Halves'
    BY <2>1, <2>4 DEF Calls, Busy, Halves, Tasks, Overlaps
  <2>6. Records'
    <3>1. CASE View.conn # NoConn
      BY <1>3, <2>1, <3>1 DEF Run, Records, Phases, View, Durable
    <3>2. CASE View.conn = NoConn /\ backend = "file"
      <4>1. mem'.conn = NewConn("new") /\ file' = mem' /\ db' = db
        BY <1>3, <3>2 DEF Run, TypeOK, Data
      <4> QED
        BY <2>1, <2>2, <3>2, <4>1, NoConnIsNotFull DEF Records, View, Durable
    <3>3. CASE View.conn = NoConn /\ backend # "file"
      <4>1. db'.conn = NewConn("new") /\ file' = file /\ mem' = mem
        BY <1>3, <3>3 DEF Run, TypeOK, Data
      <4> QED
        BY <2>1, <2>2, <3>3, <4>1, NoConnIsNotFull DEF Records, View, Durable
    <3> QED
      BY <3>1, <3>2, <3>3
  <2> QED
    BY <2>3, <2>5, <2>6
<1> QED
  BY <1>1, <1>2, <1>3 DEF Boot

\* A call's step leaves the others where they are: at rest, when calls do not overlap.
LEMMA CallsSerial ==
    ASSUME StoreInv, NEW t \in Tasks, t \in Busy, TypeOK',
           NEW s \in {"called", "written", "half", "ok", "failed"}, at' = [at EXCEPT ![t] = s],
           phase' = phase, backend' = backend
    PROVE  /\ Calls'
           /\ \A u \in Tasks : u # t => at'[u] = at[u]
           /\ ~Overlaps => \A u \in Tasks : u # t => at[u] \notin {"called", "written", "half"}
BY DEF StoreInv, TypeOK, Calls, Busy, Tasks, Overlaps

\* Every step keeps the invariant.
LEMMA StoreStep == StoreInv /\ [Next]_vars => StoreInv'
<1> SUFFICES ASSUME StoreInv, [Next]_vars PROVE StoreInv'
  OBVIOUS
<1>1. TypeOK'
  BY TypeStep DEF StoreInv
<1> USE DEF StoreInv
<1>2. CASE Boot
  BY <1>1, <1>2, BootKeeps
<1>3. CASE SaveAll
  <2>1. phase' = phase /\ backend' = backend /\ opened' = opened /\ at' = at /\ db' = db /\ mem' = mem
        /\ fetched' = fetched /\ file' = mem /\ phase = "run" /\ backend = "file"
    BY <1>3 DEF SaveAll, openVars, taskVars
  <2> QED
    BY <1>1, <2>1 DEF Phases, Calls, Busy, Records, Halves, View, Durable, Overlaps
<1>4. CASE Midnight
  <2>1. UNCHANGED <<phase, backend, opened, at, file, mem, db, fetched>>
    BY <1>4 DEF Midnight, openVars, dataVars, taskVars
  <2> QED
    BY <1>1, <2>1 DEF Phases, Calls, Busy, Records, Halves, View, Durable, Overlaps
<1>5. CASE Crash
  <2>0. \A t \in Tasks : at'[t] \notin {"begun", "called", "written", "half"}
    BY <1>5 DEF Crash, Busy, TypeOK
  <2>1. Busy' = {}
    BY <2>0 DEF Busy
  <2>2. \A u \in Updates : at'[u] \notin {"written", "half"}
    BY <2>0 DEF Tasks
  <2>3. mem'.conn = NoConn
    BY <1>5 DEF Crash, Blank
  <2>4. phase' = "down" /\ file' = file /\ db' = db /\ opened' = opened /\ backend' = backend
    BY <1>5 DEF Crash
  <2> QED
    BY <1>1, <2>0, <2>1, <2>2, <2>3, <2>4 DEF Phases, Calls, Records, Halves, View, Durable
<1>6. ASSUME NEW t \in Tasks, Call(t) PROVE StoreInv'
  <2>1. /\ ~Overlaps => Busy = {}
        /\ at' = [at EXCEPT ![t] = "called"] /\ phase = "run"
        /\ UNCHANGED <<phase, backend, opened, file, mem, db, fetched>>
    BY <1>6 DEF Call, Goto, openVars, dataVars
  <2>2. Calls'
    BY <2>1 DEF Calls, Busy, TypeOK, Overlaps
  <2>3. Halves'
    BY <2>1 DEF Halves, TypeOK, Tasks, Overlaps
  <2> QED
    BY <1>1, <2>1, <2>2, <2>3 DEF Phases, Records, View, Durable
<1>15. ASSUME NEW u \in Updates, Begin(u) \/ GiveUp(u) PROVE StoreInv'
  <2>1. PICK s \in {"begun", "failed"} :
          /\ at' = [at EXCEPT ![u] = s] /\ phase = "run"
          /\ UNCHANGED <<phase, backend, opened, file, mem, db, fetched>>
    BY <1>15 DEF Begin, GiveUp, Goto, openVars, dataVars
  <2>2. Busy' \subseteq Busy
    BY <2>1 DEF Busy, TypeOK
  <2>3. Calls'
    BY <2>1, <2>2 DEF Calls, Overlaps
  <2>4. Halves'
    BY <2>1 DEF Halves, TypeOK, Tasks, Overlaps
  <2> QED
    BY <1>1, <2>1, <2>3, <2>4 DEF Phases, Records, View, Durable
<1>16. ASSUME NEW u \in Updates, FileTouch(u) PROVE StoreInv'
  <2>1. PICK F \in SUBSET Writes[u] : mem' = [mem EXCEPT !.conn = Merge(@, u, F)]
    BY <1>16 DEF FileTouch
  <2>2. phase = "run" /\ backend = "file" /\ at' = at
        /\ UNCHANGED <<phase, backend, opened, file, db, fetched>>
    BY <1>16 DEF FileTouch, openVars, taskVars
  <2>3. mem'.conn = Merge(mem.conn, u, F) /\ mem.conn \in FullConns
    BY <2>1, <2>2, ViewFull DEF View, TypeOK, Data
  <2>4. mem'.conn \in FullConns
    BY <2>3, MergeFull
  <2>5. Calls' /\ Halves'
    BY <2>2 DEF Calls, Busy, Halves, Overlaps
  <2>6. Phases' /\ Records'
    BY <2>2, <2>4, NoConnIsNotFull DEF Phases, Records, View, Durable
  <2> QED
    BY <1>1, <2>5, <2>6
<1>7. ASSUME NEW u \in Updates, FileUpdate(u) PROVE StoreInv'
  <2> DEFINE new == [mem EXCEPT !.conn = Merge(@, u, Writes[u])]
  <2>1. new \in Data /\ FileWrites(u, new, TRUE)
    BY <1>7, MergeTyped DEF FileUpdate, FileWrites, TypeOK, Data
  <2>2. mem.conn \in FullConns /\ new.conn = Merge(mem.conn, u, Writes[u])
    BY <1>7, ViewFull DEF FileUpdate, FileWrites, Running, View, TypeOK, Data
  <2>3. new.conn \in FullConns
    BY <2>2, MergeFull
  <2> HIDE DEF new
  <2> QED
    BY <1>1, <2>1, <2>3, FileWritesKeep DEF Tasks
<1>8. ASSUME NEW u \in Updates, DbBalance(u) PROVE StoreInv'
  <2> u \in Tasks /\ u \in Busy
    BY <1>8 DEF DbBalance, Tasks, Busy
  <2>1. db.conn \in FullConns /\ db'.conn = Merge(db.conn, u, {"balance"})
    BY <1>8, ViewFull DEF DbBalance, View, TypeOK, Data
  <2>2. db'.conn \in FullConns
    BY <2>1, MergeFull
  <2>3. PICK s \in {"ok", "written"} : at' = [at EXCEPT ![u] = s]
    BY <1>8 DEF DbBalance, Goto
  <2>4. phase' = phase /\ backend' = backend /\ backend # "file" /\ opened' = opened /\ file' = file
        /\ mem' = mem /\ fetched' = fetched
    BY <1>8 DEF DbBalance, openVars
  <2>5. Calls' /\ \A v \in Tasks : v # u => at'[v] = at[v]
    BY <1>1, <2>3, <2>4, CallsSerial
  <2>6. \A f \in BlobFields : db'.conn[f] = db.conn[f]
    BY <2>1, StoreAssumption DEF StoreAssumption, Merge, Fields
  <2>7. Halves'
    BY <2>3, <2>4, <2>5, <2>6 DEF Halves, TypeOK, Tasks, Overlaps
  <2> QED
    BY <1>1, <2>2, <2>4, <2>5, <2>7, NoConnIsNotFull DEF Phases, Records, View, Durable
<1>17. ASSUME NEW u \in Updates, DbFetch(u) PROVE StoreInv'
  <2> u \in Tasks /\ u \in Busy
    BY <1>17 DEF DbFetch, Tasks, Busy
  <2>1. db.conn \in FullConns
    BY <1>17, ViewFull DEF DbFetch, View
  <2>2. at' = [at EXCEPT ![u] = "half"] /\ fetched' = [fetched EXCEPT ![u] = db.conn]
        /\ UNCHANGED <<phase, backend, opened, file, mem, db>> /\ backend # "file"
    BY <1>17 DEF DbFetch, Goto, openVars, dataVars
  <2>3. Calls' /\ \A v \in Tasks : v # u => at'[v] = at[v]
    BY <1>1, <2>2, CallsSerial
  <2>4. \A v \in Updates : fetched'[v] = IF v = u THEN db.conn ELSE fetched[v]
    BY <2>2 DEF TypeOK
  <2>5. Halves'
    BY <2>1, <2>2, <2>3, <2>4 DEF Halves, Tasks, Overlaps
  <2> QED
    BY <1>1, <2>2, <2>3, <2>5 DEF Phases, Records, View, Durable
<1>9. ASSUME NEW u \in Updates, DbBlob(u) PROVE StoreInv'
  <2> u \in Tasks /\ u \in Busy
    BY <1>9 DEF DbBlob, Tasks, Busy
  <2>1. db.conn \in FullConns
    BY <1>9, ViewFull DEF DbBlob, View
  <2>2. fetched[u] \in FullConns
    BY <1>9 DEF DbBlob, Halves
  <2>3. db'.conn = [f \in Fields |->
             IF f = "balance" THEN db.conn[f] ELSE IF f \in Writes[u] THEN u ELSE fetched[u][f]]
    BY <1>9 DEF DbBlob, TypeOK, Data
  <2>4. db'.conn \in FullConns
    BY <2>1, <2>2, <2>3 DEF FullConns, Fields
  <2>5. at' = [at EXCEPT ![u] = "ok"]
    BY <1>9 DEF DbBlob, Goto
  <2>6. phase' = phase /\ backend' = backend /\ backend # "file" /\ opened' = opened /\ file' = file
        /\ mem' = mem /\ fetched' = fetched
    BY <1>9 DEF DbBlob, openVars
  <2>7. /\ Calls' /\ \A v \in Tasks : v # u => at'[v] = at[v]
        /\ ~Overlaps => \A v \in Tasks : v # u => at[v] # "half"
    BY <1>1, <2>5, <2>6, CallsSerial
  <2>8. Halves'
    BY <2>5, <2>6, <2>7 DEF Halves, TypeOK, Tasks, Overlaps
  <2> QED
    BY <1>1, <2>4, <2>6, <2>7, <2>8, NoConnIsNotFull DEF Phases, Records, View, Durable
<1>10. ASSUME NEW t \in Tasks \ Updates, NEW new \in Data, new.conn = mem.conn, FileWrites(t, new, TRUE)
       PROVE  StoreInv'
  <2>1. new.conn \in FullConns
    BY <1>10, ViewFull DEF FileWrites, Running, View
  <2> QED
    BY <1>1, <1>10, <2>1, FileWritesKeep
<1>11. ASSUME NEW t \in Tasks \ Updates, t \in Busy, NEW s \in {"half", "ok"},
              at' = [at EXCEPT ![t] = s], db'.conn = db.conn,
              UNCHANGED <<phase, backend, opened, file, mem, fetched>>
       PROVE  StoreInv'
  <2>1. Calls' /\ \A v \in Updates : at'[v] = at[v]
    BY <1>1, <1>11, CallsSerial DEF Tasks
  <2> QED
    BY <1>1, <1>11, <2>1 DEF Phases, Records, Halves, View, Durable, Overlaps
<1>12. ASSUME NEW t \in Reserves, ReserveRead(t) \/ ReserveStore(t) PROVE StoreInv'
  <2>1. t \in Tasks \ Updates /\ t \in Busy
    BY <1>12, StoreAssumption DEF StoreAssumption, ReserveRead, ReserveStore, Tasks, Busy
  <2>2. CASE ReserveRead(t)
    BY <1>11, <2>1, <2>2 DEF ReserveRead, Goto, openVars, dataVars
  <2>3. CASE ReserveStore(t)
    <3> DEFINE new == [mem EXCEPT !.counter = number[t] + 1]
    <3>1. new \in Data /\ new.conn = mem.conn
      BY <2>3 DEF TypeOK, Data
    <3> HIDE DEF new
    <3>2. CASE FileWrites(t, new, HandedOut(number[t]))
      BY <1>10, <2>1, <3>1, <3>2 DEF FileWrites
    <3>3. CASE ~FileWrites(t, new, HandedOut(number[t]))
      <4>1. db'.conn = db.conn
        BY <2>3, <3>3 DEF ReserveStore, new, TypeOK, Data
      <4> QED
        BY <1>11, <2>1, <2>3, <3>3, <4>1 DEF ReserveStore, new, Goto, openVars
    <3> QED
      BY <3>2, <3>3
  <2> QED
    BY <1>12, <2>2, <2>3
<1>13. ASSUME NEW t \in Spends, FileSpend(t) \/ DbSpend(t) \/ DbSpendCleanup(t) PROVE StoreInv'
  <2>1. t \in Tasks \ Updates /\ t \in Busy
    BY <1>13, StoreAssumption
    DEF StoreAssumption, FileSpend, FileWrites, Running, DbSpend, DbSpendCleanup, Tasks, Busy
  <2>2. CASE FileSpend(t)
    <3> DEFINE new == [mem EXCEPT !.spend = [d \in Days |-> IF d < today THEN 0
                                 ELSE IF d = today THEN @[d] + 1 ELSE @[d]]]
    <3>1. new \in Data /\ new.conn = mem.conn
      BY DEF TypeOK, Data
    <3> HIDE DEF new
    <3>2. FileWrites(t, new, Spent)
      BY <2>2 DEF FileSpend, new
    <3> QED
      BY <1>10, <2>1, <3>1, <3>2 DEF FileWrites
  <2>3. CASE DbSpend(t) \/ DbSpendCleanup(t)
    <3>1. db'.conn = db.conn
      BY <2>3 DEF DbSpend, DbSpendCleanup, TypeOK, Data
    <3> QED
      BY <1>11, <2>1, <2>3, <3>1 DEF DbSpend, DbSpendCleanup, Goto, openVars
  <2> QED
    BY <1>13, <2>2, <2>3
<1>14. CASE UNCHANGED vars
  BY <1>1, <1>14
  DEF vars, openVars, dataVars, taskVars, Phases, Calls, Busy, Records, Halves, View, Durable, Overlaps
<1> QED
  BY <1>2, <1>3, <1>4, <1>5, <1>6, <1>7, <1>8, <1>9, <1>12, <1>13, <1>14, <1>15, <1>16, <1>17
  DEF Next

\* The invariant of the refinement.
LEMMA StoreInvariant == Spec => []StoreInv
<1>1. StoreInv /\ [Next]_vars => StoreInv'
  BY StoreStep
<1> QED
  BY StoreInit, <1>1, PTL DEF Spec

-----------------------------------------------------------------------------
(* The refinement *)

\* ConnStore's variables, by StateStore's.
Seen == IF ~opened THEN NoConn ELSE IF phase = "run" THEN View.conn ELSE Durable.conn
Kept == IF opened THEN Durable.conn ELSE NoConn
Status == [u \in Updates |-> IF at[u] \in {"begun", "written", "half"} THEN "called" ELSE at[u]]
ToDo == [u \in Updates |-> CASE at[u] \in {"idle", "begun", "called"} -> Writes[u]
                              [] at[u] \in {"written", "half"} -> Writes[u] \ {"balance"}
                              [] OTHER -> {}]

\* A step that none of them notices.
StandsStill == UNCHANGED <<backend, phase = "run", Seen, Kept, Status, ToDo, fetched>>

\* Before the first start there is no record, and no update has begun.
LEMMA AbstractInit == Init => Abstract!Init
<1> SUFFICES ASSUME Init PROVE Abstract!Init
  OBVIOUS
<1>1. Writes = [u \in Updates |-> Writes[u]]
  BY StoreAssumption DEF StoreAssumption
<1>2. ToDo = Writes /\ Status = [u \in Updates |-> "idle"]
  BY <1>1 DEF Init, ToDo, Status, Tasks
<1>3. opened = FALSE /\ phase # "run"
  BY DEF Init
<1>4. fetched = [u \in Updates |-> NoConn] /\ Overlaps \in BOOLEAN
  BY StoreAssumption DEF StoreAssumption, Init, Overlaps
<1> QED
  BY <1>2, <1>3, <1>4 DEF Abstract!Init, ToDo, Status

\* A step the abstract store does not see changes none of its variables.
LEMMA StillIsStutter == StandsStill => UNCHANGED Abstract!vars
BY DEF StandsStill, Abstract!vars, Seen, Kept, Status, ToDo, Overlaps

\* Opening the store.
LEMMA BootRefines == StoreInv /\ StoreInv' /\ Boot => Abstract!Open \/ UNCHANGED Abstract!vars
<1> SUFFICES ASSUME StoreInv, StoreInv', Boot PROVE Abstract!Open \/ StandsStill
  BY StillIsStutter
<1> USE DEF StoreInv
<1>1. at' = at /\ Status' = Status /\ ToDo' = ToDo /\ fetched' = fetched /\ backend' = backend
      /\ Overlaps' = Overlaps
  BY DEF Boot, Start, Salt, Version, Migrate, Rename, Run, taskVars, openVars, Status, ToDo, Overlaps
<1>2. CASE Start \/ Salt \/ Version \/ Rename
  <2>1. Durable' = Durable /\ opened' = opened /\ phase # "run" /\ phase' # "run"
    BY <1>2 DEF Start, Salt, Version, Rename, openVars, dataVars, Durable
  <2> QED
    BY <1>1, <2>1 DEF StandsStill, Seen, Kept
<1>3. CASE Migrate
  <2>1. opened' = opened /\ phase # "run" /\ phase' # "run" /\ backend # "file" /\ backend' = backend
    BY <1>3 DEF Migrate, Phases
  <2>2. opened => db' = db
    BY <1>3, <2>1 DEF Migrate, EmptyDb, Records, Durable
  <2> QED
    BY <1>1, <2>1, <2>2 DEF StandsStill, Seen, Kept, Durable
<1>4. CASE Run
  <2>1. phase = "ready" /\ phase' = "run" /\ opened' /\ backend' = backend
    BY <1>4 DEF Run
  <2>2. View'.conn = Durable'.conn
    BY <1>4, <2>1 DEF Run, Phases, View, Durable
  <2>3. View'.conn \in FullConns
    BY <2>1 DEF Records, View
  <2>4. opened => Durable'.conn = Durable.conn
    BY <1>4, <2>1 DEF Run, Phases, Records, View, Durable
  <2>5. Kept' \in (IF Kept = NoConn THEN FullConns ELSE {Kept}) /\ Seen' = Kept'
    BY <2>1, <2>2, <2>3, <2>4 DEF Kept, Seen, Records
  <2>6. Abstract!Records = FullConns
    BY DEF Abstract!Records, FullConns
  <2> QED
    BY <1>1, <2>1, <2>5, <2>6 DEF Abstract!Open, Kept, Seen, Status, ToDo
<1> QED
  BY <1>2, <1>3, <1>4 DEF Boot

\* A write of memory that leaves the record alone, and may reach the file.
LEMMA OtherRefines ==
    ASSUME StoreInv, StoreInv', NEW t \in Tasks \ Updates, NEW new \in Data,
           new.conn = mem.conn, FileWrites(t, new, TRUE)
    PROVE  Abstract!Sync \/ UNCHANGED Abstract!vars
<1> USE DEF StoreInv
<1>1. backend = "file" /\ backend' = "file" /\ phase = "run" /\ phase' = "run"
      /\ opened /\ opened' /\ mem' = new
  BY DEF FileWrites, Running, openVars, Phases
<1>0. fetched' = fetched /\ Overlaps' = Overlaps
  BY <1>1 DEF FileWrites, Overlaps
<1>2. Status' = Status /\ ToDo' = ToDo
  <2>1. \A u \in Updates : at'[u] = at[u]
    BY DEF FileWrites, Goto, TypeOK, Tasks
  <2> QED
    BY <2>1 DEF Status, ToDo
<1>3. Seen' = Seen
  BY <1>1 DEF Seen, View
<1>4. CASE file' = file
  BY <1>0, <1>1, <1>2, <1>3, <1>4, StillIsStutter DEF StandsStill, Kept, Durable
<1>5. CASE file' = new
  <2>1. Kept' = Seen
    BY <1>1, <1>5 DEF Kept, Seen, View, Durable
  <2> QED
    BY <1>0, <1>1, <1>2, <1>3, <2>1 DEF Abstract!Sync, Kept, Seen, Status, ToDo
<1> QED
  BY <1>4, <1>5 DEF FileWrites

\* A statement of a database that leaves the record alone.
LEMMA OtherDbStands ==
    ASSUME StoreInv, NEW t \in Tasks \ Updates, NEW s, at' = [at EXCEPT ![t] = s],
           db'.conn = db.conn, UNCHANGED <<phase, backend, opened, file, mem, fetched>>
    PROVE  UNCHANGED Abstract!vars
<1>1. Status' = Status /\ ToDo' = ToDo
  BY DEF Status, ToDo, StoreInv, TypeOK
<1> QED
  BY <1>1, StillIsStutter DEF StandsStill, Seen, Kept, View, Durable

\* What an update's step does to the record and to its own status: its fields F are
\* written, and the fields G of others written back.
LEMMA WriteRefines ==
    ASSUME StoreInv, StoreInv', NEW u \in Updates, NEW F \in SUBSET Writes[u],
           NEW G \in SUBSET (Fields \ Writes[u]), G # {} => Overlaps /\ fetched[u] # NoConn,
           phase = "run", phase' = "run", backend' = backend, fetched' = fetched,
           Status[u] = "called", Kept' \in {Kept, Seen'},
           Seen' = [f \in Fields |-> IF f \in F THEN u ELSE IF f \in G THEN fetched[u][f] ELSE Seen[f]],
           \/ ToDo' \in {ToDo, [ToDo EXCEPT ![u] = @ \ F]} /\ ToDo'[u] # {} /\ Status' = Status
           \/ /\ ToDo[u] \subseteq F /\ Kept' = Seen'
              /\ ToDo' = [ToDo EXCEPT ![u] = {}] /\ Status' = [Status EXCEPT ![u] = "ok"]
           \/ ToDo' = [ToDo EXCEPT ![u] = {}] /\ Status' = [Status EXCEPT ![u] = "failed"]
    PROVE  Abstract!Write(u)
<1> DEFINE W(ov, rd, s, seenAfter, kept, keptAfter, st, stAfter, td, tdAfter) ==
             /\ st[u] = "called"
             /\ \E FF \in SUBSET Writes[u], GG \in SUBSET (Fields \ Writes[u]) :
                  /\ GG # {} => ov /\ rd[u] # NoConn
                  /\ seenAfter = [f \in Fields |-> IF f \in FF THEN u
                                                  ELSE IF f \in GG THEN rd[u][f] ELSE s[f]]
                  /\ keptAfter \in {kept, seenAfter}
                  /\ \/ /\ tdAfter \in {td, [td EXCEPT ![u] = @ \ FF]} /\ tdAfter[u] # {}
                        /\ stAfter = st
                     \/ /\ td[u] \subseteq FF /\ keptAfter = seenAfter
                        /\ tdAfter = [td EXCEPT ![u] = {}]
                        /\ stAfter = [st EXCEPT ![u] = "ok"]
                     \/ /\ tdAfter = [td EXCEPT ![u] = {}]
                        /\ stAfter = [st EXCEPT ![u] = "failed"]
<1>1. W(Overlaps, fetched, Seen, Seen', Kept, Kept', Status, Status', ToDo, ToDo')
  OBVIOUS
<1>2. Overlaps' = Overlaps
  BY DEF Overlaps
<1> QED
  BY <1>1, <1>2 DEF Abstract!Write, Seen, Kept, Status, ToDo

\* A write that writes nothing back.
LEMMA WriteAlone ==
    ASSUME StoreInv, StoreInv', NEW u \in Updates, NEW F \in SUBSET Writes[u],
           phase = "run", phase' = "run", backend' = backend, fetched' = fetched,
           Status[u] = "called", Kept' \in {Kept, Seen'},
           Seen' = [f \in Fields |-> IF f \in F THEN u ELSE Seen[f]],
           \/ ToDo' \in {ToDo, [ToDo EXCEPT ![u] = @ \ F]} /\ ToDo'[u] # {} /\ Status' = Status
           \/ /\ ToDo[u] \subseteq F /\ Kept' = Seen'
              /\ ToDo' = [ToDo EXCEPT ![u] = {}] /\ Status' = [Status EXCEPT ![u] = "ok"]
           \/ ToDo' = [ToDo EXCEPT ![u] = {}] /\ Status' = [Status EXCEPT ![u] = "failed"]
    PROVE  Abstract!Write(u)
<1> DEFINE G == {}
<1>1. /\ G \in SUBSET (Fields \ Writes[u]) /\ (G # {} => Overlaps /\ fetched[u] # NoConn)
      /\ Seen' = [f \in Fields |-> IF f \in F THEN u ELSE IF f \in G THEN fetched[u][f] ELSE Seen[f]]
  OBVIOUS
<1> HIDE DEF G
<1> QED
  BY <1>1, WriteRefines

\* A handler on the file store changes the connection's object, or gives up.
LEMMA TouchRefines ==
    ASSUME StoreInv, StoreInv', NEW u \in Updates, FileTouch(u) \/ GiveUp(u)
    PROVE  Abstract!Write(u)
<1> USE DEF StoreInv
<1>0. u \in Tasks /\ Writes[u] \subseteq Fields /\ Writes[u] # {}
  BY StoreAssumption DEF StoreAssumption, Tasks
<1>1. phase = "run" /\ phase' = "run" /\ opened /\ opened' /\ backend' = backend /\ fetched' = fetched
      /\ at[u] = "begun" /\ file' = file /\ db' = db
  BY DEF FileTouch, GiveUp, openVars, dataVars, taskVars, Phases
<1>2. Seen = View.conn /\ Seen' = View'.conn /\ Kept' = Kept
  BY <1>1 DEF Seen, Kept, Durable
<1>3. Seen \in [Fields -> Updates \cup {"old", "new"}]
  BY <1>1, <1>2, ViewFull DEF FullConns
<1>4. Status[u] = "called" /\ ToDo[u] = Writes[u]
  BY <1>1 DEF Status, ToDo
<1>5. CASE FileTouch(u)
  <2>1. PICK F \in SUBSET Writes[u] : mem' = [mem EXCEPT !.conn = Merge(@, u, F)]
    BY <1>5 DEF FileTouch
  <2>2. mem'.conn = Merge(mem.conn, u, F) /\ backend = "file" /\ at' = at
    BY <1>5, <2>1 DEF FileTouch, taskVars, TypeOK, Data
  <2>3. Seen' = [f \in Fields |-> IF f \in F THEN u ELSE Seen[f]]
    BY <1>1, <1>2, <2>2 DEF Merge, View
  <2>4. Status' = Status /\ ToDo' = ToDo
    BY <2>2 DEF Status, ToDo
  <2> QED
    BY <1>0, <1>1, <1>2, <1>4, <2>3, <2>4, WriteAlone
<1>6. CASE GiveUp(u)
  <2>1. at' = [at EXCEPT ![u] = "failed"] /\ mem' = mem
    BY <1>6 DEF GiveUp, Goto, dataVars
  <2>2. Seen' = Seen
    BY <1>1, <1>2, <2>1 DEF View
  <2> DEFINE F == {}
  <2>3. F \in SUBSET Writes[u] /\ Seen' = [f \in Fields |-> IF f \in F THEN u ELSE Seen[f]]
    BY <1>3, <2>2
  <2>4. \A v \in Updates : at'[v] = IF v = u THEN "failed" ELSE at[v]
    BY <2>1 DEF TypeOK, Tasks
  <2>5. ToDo' = [ToDo EXCEPT ![u] = {}] /\ Status' = [Status EXCEPT ![u] = "failed"]
    BY <2>4 DEF ToDo, Status
  <2> HIDE DEF F
  <2> QED
    BY <1>1, <1>2, <1>4, <2>3, <2>5, WriteAlone
<1> QED
  BY <1>5, <1>6

\* updateConnection on each backend.
LEMMA UpdateRefines ==
    ASSUME StoreInv, StoreInv', NEW u \in Updates, FileUpdate(u) \/ DbBalance(u) \/ DbBlob(u)
    PROVE  Abstract!Write(u)
<1> USE DEF StoreInv
<1>0. u \in Tasks /\ Writes[u] \subseteq Fields /\ Writes[u] # {} /\ "balance" \in Fields
      /\ Fields \ {"balance"} = BlobFields
  BY StoreAssumption DEF StoreAssumption, Tasks, Fields
<1>1. phase = "run" /\ phase' = "run" /\ opened /\ opened' /\ backend' = backend /\ fetched' = fetched
  BY DEF FileUpdate, DbBalance, DbBlob, FileWrites, Running, openVars, Phases
<1>2. Seen = View.conn /\ Seen' = View'.conn /\ Kept = Durable.conn /\ Kept' = Durable'.conn
  BY <1>1 DEF Seen, Kept
<1>3. View.conn \in [Fields -> Updates \cup {"old", "new"}]
  BY <1>1, ViewFull DEF FullConns
<1>4. \A v \in Updates : v # u => at'[v] = at[v]
  BY <1>0 DEF FileUpdate, DbBalance, DbBlob, FileWrites, Goto, TypeOK, Tasks
<1>5. CASE FileUpdate(u)
  <2>1. at[u] = "called" /\ backend = "file"
    BY <1>5 DEF FileUpdate, FileWrites, Running, Halves, Busy
  <2>2. mem'.conn = Merge(mem.conn, u, Writes[u])
    BY <1>5 DEF FileUpdate, FileWrites, TypeOK, Data
  <2>3. Seen' = [f \in Fields |-> IF f \in Writes[u] THEN u ELSE Seen[f]]
    BY <1>1, <1>2, <2>1, <2>2 DEF Merge, View
  <2>4. \/ at'[u] = "ok" /\ file' = mem'
        \/ at'[u] = "failed" /\ file' = file
    BY <1>0, <1>5 DEF FileUpdate, FileWrites, Goto, TypeOK
  <2>5. Status[u] = "called" /\ ToDo[u] = Writes[u]
    BY <2>1 DEF Status, ToDo
  <2>6. ToDo' = [ToDo EXCEPT ![u] = {}]
    BY <1>4, <2>4 DEF ToDo
  <2>7. \/ Kept' = Seen' /\ Status' = [Status EXCEPT ![u] = "ok"]
        \/ Kept' = Kept /\ Status' = [Status EXCEPT ![u] = "failed"]
    BY <1>1, <1>2, <1>4, <2>1, <2>4 DEF Status, View, Durable
  <2> QED
    BY <1>1, <2>3, <2>5, <2>6, <2>7, WriteAlone
<1>6. CASE DbBalance(u)
  <2>1. at[u] = "called" /\ backend # "file" /\ "balance" \in Writes[u]
    BY <1>6 DEF DbBalance
  <2>2. db'.conn = Merge(db.conn, u, {"balance"})
    BY <1>6 DEF DbBalance, TypeOK, Data
  <2>3. /\ Seen' = [f \in Fields |-> IF f \in {"balance"} THEN u ELSE Seen[f]]
        /\ Kept' = Seen'
    BY <1>1, <1>2, <2>1, <2>2 DEF Merge, View, Durable
  <2>4. at'[u] = IF Writes[u] = {"balance"} THEN "ok" ELSE "written"
    BY <1>0, <1>6 DEF DbBalance, Goto, TypeOK
  <2>5. Status[u] = "called" /\ ToDo[u] = Writes[u] /\ {"balance"} \in SUBSET Writes[u]
    BY <2>1 DEF Status, ToDo
  <2>6. CASE Writes[u] = {"balance"}
    <3>1. ToDo' = [ToDo EXCEPT ![u] = {}] /\ Status' = [Status EXCEPT ![u] = "ok"]
      BY <1>4, <2>4, <2>6 DEF ToDo, Status
    <3> QED
      BY <1>1, <2>3, <2>5, <2>6, <3>1, WriteAlone
  <2>7. CASE Writes[u] # {"balance"}
    <3>1. ToDo' = [ToDo EXCEPT ![u] = @ \ {"balance"}] /\ Status' = Status
      BY <1>4, <2>1, <2>4, <2>7 DEF ToDo, Status
    <3>2. ToDo'[u] # {}
      BY <2>1, <2>4, <2>7 DEF ToDo
    <3> QED
      BY <1>1, <2>3, <2>5, <3>1, <3>2, WriteAlone
  <2> QED
    BY <2>6, <2>7
<1>7. CASE DbBlob(u)
  <2> DEFINE F == Writes[u] \ {"balance"}
             G == BlobFields \ Writes[u]
  <2>1. at[u] = "half" /\ backend # "file" /\ at'[u] = "ok"
    BY <1>0, <1>7 DEF DbBlob, Goto, TypeOK
  <2>2. Status[u] = "called" /\ ToDo[u] = F
    BY <2>1 DEF Status, ToDo
  <2>3. fetched[u] \in FullConns /\ (~Overlaps => \A f \in BlobFields : fetched[u][f] = db.conn[f])
    BY <2>1 DEF Halves
  <2>4. db'.conn = [f \in Fields |->
             IF f = "balance" THEN db.conn[f] ELSE IF f \in Writes[u] THEN u ELSE fetched[u][f]]
    BY <1>7 DEF DbBlob, TypeOK, Data
  <2>5. Seen = db.conn /\ Seen' = db'.conn /\ Kept' = Seen'
    BY <1>1, <1>2, <2>1 DEF View, Durable
  <2>6. ToDo' = [ToDo EXCEPT ![u] = {}] /\ Status' = [Status EXCEPT ![u] = "ok"]
    BY <1>4, <2>1 DEF ToDo, Status
  <2>7. F \in SUBSET Writes[u] /\ G \in SUBSET (Fields \ Writes[u]) /\ ToDo[u] \subseteq F
    BY <1>0, <2>2
  <2>8. CASE Overlaps
    <3>1. \A f \in Fields : f = "balance" \/ f \in BlobFields
      BY <1>0
    <3>2. "balance" \notin F /\ "balance" \notin G
      BY StoreAssumption DEF StoreAssumption
    <3>3. Seen' = [f \in Fields |-> IF f \in F THEN u ELSE IF f \in G THEN fetched[u][f] ELSE Seen[f]]
      BY <2>4, <2>5, <3>1, <3>2
    <3>4. fetched[u] # NoConn
      BY <2>3, NoConnIsNotFull
    <3> HIDE DEF F, G
    <3> QED
      BY <1>1, <2>2, <2>5, <2>6, <2>7, <2>8, <3>3, <3>4, WriteRefines
  <2>9. CASE ~Overlaps
    <3>1. Seen' = [f \in Fields |-> IF f \in F THEN u ELSE Seen[f]]
      BY <1>0, <2>3, <2>4, <2>5, <2>9
    <3> HIDE DEF F, G
    <3> QED
      BY <1>1, <2>2, <2>5, <2>6, <2>7, <3>1, WriteAlone
  <2> QED
    BY <2>8, <2>9
<1> QED
  BY <1>5, <1>6, <1>7

\* A database's read of the record.
LEMMA FetchRefines ==
    ASSUME StoreInv, StoreInv', NEW u \in Updates, DbFetch(u)
    PROVE  Abstract!Read(u)
<1> USE DEF StoreInv
<1>1. /\ phase = "run" /\ opened /\ backend # "file"
      /\ UNCHANGED <<phase, opened, backend, file, mem, db>>
      /\ at' = [at EXCEPT ![u] = "half"] /\ fetched' = [fetched EXCEPT ![u] = db.conn]
      /\ at[u] = IF "balance" \in Writes[u] THEN "written" ELSE "called"
  BY DEF DbFetch, Goto, openVars, dataVars, Phases
<1>2. Seen = db.conn /\ Seen' = Seen /\ Kept' = Kept /\ Overlaps' = Overlaps
  BY <1>1 DEF Seen, Kept, View, Durable, Overlaps
<1>3. \A v \in Updates : at'[v] = IF v = u THEN "half" ELSE at[v]
  BY <1>1 DEF TypeOK, Tasks
<1>4. Status' = Status /\ Status[u] = "called"
  BY <1>1, <1>3 DEF Status
<1>5. ToDo' = ToDo
  <2>1. ASSUME NEW v \in Updates PROVE ToDo'[v] = ToDo[v]
    <3>1. CASE v # u
      BY <1>3, <3>1 DEF ToDo
    <3>2. CASE v = u
      BY <1>1, <1>3, <3>2 DEF ToDo
    <3> QED
      BY <3>1, <3>2
  <2> QED
    BY <2>1 DEF ToDo
<1>6. fetched' = [fetched EXCEPT ![u] = Seen]
  BY <1>1, <1>2
<1> QED
  BY <1>1, <1>2, <1>4, <1>5, <1>6 DEF Abstract!Read, Seen, Kept, Status, ToDo

\* Whatever the process does, the abstract store does it, or stands still.
LEMMA RefinementStep ==
    StoreInv /\ StoreInv' /\ [Next]_vars => [Abstract!Next]_(Abstract!vars)
<1> SUFFICES ASSUME StoreInv, StoreInv', [Next]_vars
             PROVE  Abstract!Next \/ UNCHANGED Abstract!vars
  OBVIOUS
<1> USE DEF StoreInv
<1>1. CASE Boot
  BY <1>1, BootRefines DEF Abstract!Next
<1>2. CASE SaveAll
  <2>1. phase = "run" /\ phase' = "run" /\ opened /\ opened' /\ backend = "file" /\ backend' = "file"
        /\ at' = at /\ mem' = mem /\ file' = mem /\ fetched' = fetched
    BY <1>2 DEF SaveAll, openVars, taskVars, Phases
  <2>2. Abstract!Sync
    BY <2>1 DEF Abstract!Sync, View, Durable, Overlaps
  <2> QED
    BY <2>2 DEF Abstract!Next
<1>3. CASE Midnight \/ UNCHANGED vars
  <2>1. UNCHANGED <<phase, opened, backend, file, mem, db, at, fetched>>
    BY <1>3 DEF Midnight, vars, openVars, dataVars, taskVars
  <2> QED
    BY <2>1, StillIsStutter DEF StandsStill, Seen, Kept, Status, ToDo, View, Durable
<1>4. CASE Crash
  <2>1. /\ phase # "run" => Busy = {} /\ \A t \in Tasks : at[t] # "begun"
        /\ phase = "run" => opened
    BY DEF Calls, Phases
  <2>2. phase' = "down" /\ opened' = opened /\ Durable' = Durable /\ backend' = backend
        /\ fetched' = fetched /\ Overlaps' = Overlaps
        /\ at' = [t \in Tasks |-> IF t \in Busy \/ at[t] = "begun" THEN "lost" ELSE at[t]]
    BY <1>4 DEF Crash, Durable, Overlaps
  <2>3. Updates \subseteq Tasks
    BY DEF Tasks
  <2>4. CASE phase # "run"
    <3>1. \A u \in Updates : at'[u] = at[u]
      BY <2>1, <2>2, <2>3, <2>4
    <3>2. Status' = Status /\ ToDo' = ToDo
      BY <3>1 DEF Status, ToDo
    <3> QED
      BY <2>2, <2>4, <3>2, StillIsStutter DEF StandsStill, Seen, Kept
  <2>5. CASE phase = "run"
    <3>1. \A u \in Updates : at'[u] = IF at[u] \in {"begun", "called", "written", "half"}
                                        THEN "lost" ELSE at[u]
      BY <2>2, <2>3 DEF Busy
    <3>2. Status' = [u \in Updates |-> IF Status[u] = "called" THEN "lost" ELSE Status[u]]
      BY <3>1 DEF Status
    <3>3. ToDo' = [u \in Updates |-> IF Status[u] = "called" THEN {} ELSE ToDo[u]]
      BY <3>1 DEF Status, ToDo, TypeOK
    <3>4. Kept' = Kept /\ Seen' = Kept
      BY <2>1, <2>2, <2>5 DEF Kept, Seen
    <3>5. Abstract!Crash
      BY <2>2, <2>5, <3>2, <3>3, <3>4 DEF Abstract!Crash, Kept, Seen, Status, ToDo
    <3> QED
      BY <3>5 DEF Abstract!Next
  <2> QED
    BY <2>4, <2>5
<1>5. ASSUME NEW t \in Tasks, Call(t) \/ (t \in Updates /\ Begin(t))
      PROVE  Abstract!Next \/ UNCHANGED Abstract!vars
  <2>1. PICK s \in {"begun", "called"} :
          /\ phase = "run" /\ at[t] \in {"idle", "begun"} /\ at' = [at EXCEPT ![t] = s]
          /\ UNCHANGED <<phase, opened, backend, file, mem, db, fetched>>
    BY <1>5 DEF Call, Begin, Goto, openVars, dataVars
  <2>2. Seen' = Seen /\ Kept' = Kept /\ Overlaps' = Overlaps
    BY <2>1 DEF Seen, Kept, View, Durable, Overlaps
  <2>3. \A u \in Updates : at'[u] = IF u = t THEN s ELSE at[u]
    BY <2>1 DEF TypeOK, Tasks
  <2>4. ToDo' = ToDo
    <3>1. \A u \in Updates : ToDo'[u] = ToDo[u]
      BY <2>1, <2>3 DEF ToDo
    <3> QED
      BY <3>1 DEF ToDo
  <2>5. CASE t \in Updates /\ at[t] = "idle"
    <3>1. Status' = [Status EXCEPT ![t] = "called"] /\ Status[t] = "idle"
      BY <2>3, <2>5 DEF Status
    <3>2. Abstract!Call(t)
      BY <2>1, <2>2, <2>4, <3>1 DEF Abstract!Call, Seen, Kept, Status, ToDo
    <3> QED
      BY <2>5, <3>2 DEF Abstract!Next
  <2>6. CASE t \notin Updates \/ at[t] = "begun"
    <3>1. Status' = Status
      BY <2>3, <2>6 DEF Status
    <3> QED
      BY <2>1, <2>2, <2>4, <3>1, StillIsStutter DEF StandsStill
  <2> QED
    BY <2>1, <2>5, <2>6
<1>6. ASSUME NEW u \in Updates,
             FileTouch(u) \/ GiveUp(u) \/ FileUpdate(u) \/ DbBalance(u) \/ DbFetch(u) \/ DbBlob(u)
      PROVE  Abstract!Next
  BY <1>6, TouchRefines, UpdateRefines, FetchRefines DEF Abstract!Next
<1>7. ASSUME NEW t \in Reserves, ReserveRead(t) \/ ReserveStore(t)
      PROVE  Abstract!Next \/ UNCHANGED Abstract!vars
  <2>1. t \in Tasks \ Updates
    BY <1>7, StoreAssumption DEF StoreAssumption, Tasks
  <2>2. CASE ReserveRead(t)
    BY <2>1, <2>2, OtherDbStands DEF ReserveRead, Goto, openVars, dataVars
  <2>3. CASE ReserveStore(t)
    <3> DEFINE new == [mem EXCEPT !.counter = number[t] + 1]
    <3>1. new \in Data /\ new.conn = mem.conn
      BY <2>3 DEF ReserveStore, TypeOK, Data
    <3> HIDE DEF new
    <3>2. CASE FileWrites(t, new, HandedOut(number[t]))
      <4>1. FileWrites(t, new, TRUE)
        BY <3>2 DEF FileWrites
      <4> QED
        BY <2>1, <3>1, <4>1, OtherRefines DEF Abstract!Next
    <3>3. CASE ~FileWrites(t, new, HandedOut(number[t]))
      <4>1. db'.conn = db.conn
        BY <2>3, <3>3 DEF ReserveStore, new, TypeOK, Data
      <4> QED
        BY <2>1, <2>3, <3>3, <4>1, OtherDbStands DEF ReserveStore, new, Goto, openVars
    <3> QED
      BY <3>2, <3>3
  <2> QED
    BY <1>7, <2>2, <2>3
<1>8. ASSUME NEW t \in Spends, FileSpend(t) \/ DbSpend(t) \/ DbSpendCleanup(t)
      PROVE  Abstract!Next \/ UNCHANGED Abstract!vars
  <2>1. t \in Tasks \ Updates
    BY <1>8, StoreAssumption DEF StoreAssumption, Tasks
  <2>2. CASE FileSpend(t)
    <3> DEFINE new == [mem EXCEPT !.spend = [d \in Days |-> IF d < today THEN 0
                                 ELSE IF d = today THEN @[d] + 1 ELSE @[d]]]
    <3>1. new \in Data /\ new.conn = mem.conn
      BY DEF TypeOK, Data
    <3> HIDE DEF new
    <3>2. FileWrites(t, new, Spent)
      BY <2>2 DEF FileSpend, new
    <3>3. FileWrites(t, new, TRUE)
      BY <3>2 DEF FileWrites
    <3> QED
      BY <2>1, <3>1, <3>3, OtherRefines DEF Abstract!Next
  <2>3. CASE DbSpend(t) \/ DbSpendCleanup(t)
    <3>1. db'.conn = db.conn
      BY <2>3 DEF DbSpend, DbSpendCleanup, TypeOK, Data
    <3> QED
      BY <2>1, <2>3, <3>1, OtherDbStands DEF DbSpend, DbSpendCleanup, Goto, openVars
  <2> QED
    BY <1>8, <2>2, <2>3
<1> QED
  BY <1>1, <1>2, <1>3, <1>4, <1>5, <1>6, <1>7, <1>8 DEF Next, Tasks

\* Each backend implements the store of records that the handlers rely on: with
\* any number of calls, fields, failing writes and crashes, through migration and
\* re-encryption, with handlers that change the file store's objects before they
\* call it, and with overlapping calls on MySQL, where alone a call may undo what
\* another wrote, between its own read and its own write.
THEOREM ImplementsConnStoreTheorem == Spec => ImplementsConnStore
<1>1. Spec => []StoreInv
  BY StoreInvariant
<1> QED
  BY <1>1, AbstractInit, RefinementStep, PTL DEF Spec, ImplementsConnStore, Abstract!Spec

-----------------------------------------------------------------------------
(* The key of the columns *)

\* Columns under the legacy key are known by a salt without a version row, also
\* to a start that is about to read that row.
KeyInv ==
    /\ rowKey \in {"none", "legacy", "strong"}
    /\ rowKey = "legacy" => salt /\ ~version /\ (phase = "salted" => hadSalt)
    /\ phase \in {"keyed", "renaming", "ready", "run"} /\ backend # "file"
          => key = "strong" /\ rowKey # "legacy"
    /\ phase \in {"schema", "salted", "keyed", "renaming"} => backend # "file"

\* A process of any version and any earlier start's remains reads its columns
\* with the key they are under.
THEOREM KeyFitsRowsTheorem == Spec => []KeyFitsRows
<1>1. Init => KeyInv
  BY DEF Init, KeyInv
<1>2. KeyInv /\ [Next]_vars => KeyInv'
  <2> SUFFICES ASSUME KeyInv, [Next]_vars PROVE KeyInv'
    OBVIOUS
  <2> USE DEF KeyInv
  <2>1. CASE Boot
    <3>1. CASE Start \/ Salt
      BY <3>1 DEF Start, Salt, openVars
    <3>2. CASE Version
      BY <3>2 DEF Version
    <3>3. CASE Migrate \/ Rename
      BY <3>3 DEF Migrate, Rename, openVars
    <3>4. CASE Run
      BY <3>4 DEF Run, View
    <3> QED
      BY <2>1, <3>1, <3>2, <3>3, <3>4 DEF Boot
  <2>2. CASE Crash
    BY <2>2 DEF Crash
  <2>3. ASSUME UNCHANGED <<openVars, phase>> PROVE KeyInv'
    BY <2>3 DEF openVars
  <2>4. CASE ~Boot /\ ~Crash
    BY <2>3, <2>4
    DEF Next, vars, SaveAll, Midnight, Call, Begin, FileTouch, GiveUp, FileUpdate, FileWrites, DbBalance,
        DbFetch, DbBlob, ReserveRead, ReserveStore, FileSpend, DbSpend, DbSpendCleanup
  <2> QED
    BY <2>1, <2>2, <2>4
<1>3. KeyInv => KeyFitsRows
  BY DEF KeyInv, KeyFitsRows
<1> QED
  BY <1>1, <1>2, <1>3, PTL DEF Spec

-----------------------------------------------------------------------------
(* The old state *)

\* A record as it was before, but for what calls have written.
Carried(conn) == \A f \in Fields : conn[f] \notin {"none", "new"}

\* Where the old proofs are the old record is.  A database without them has an
\* .enc file that was not read, for a later start or for the operator.
Wallets ==
    /\ file.wallet => Carried(file.conn)
    /\ mem.wallet => Carried(mem.conn)
    /\ db.wallet => Carried(db.conn) /\ \A u \in Updates : at[u] = "half" => Carried(fetched[u])
    /\ backend = "file" => ~db.wallet /\ (phase \in {"ready", "run"} => mem.wallet = file.wallet)
    /\ backend # "file" /\ file.wallet /\ ~db.wallet =>
          /\ fileThere /\ phase # "renaming"
          /\ "migrate" \in Faults \/ (db.conn = NoConn /\ phase \notin {"ready", "run"})

\* A record nobody has made carries nothing over.
LEMMA NoConnNotCarried == ~Carried(NoConn)
BY StoreAssumption DEF StoreAssumption, Carried, NoConn, Fields

\* A call's fields are not those of a fresh record.
LEMMA MergeCarried ==
    ASSUME NEW conn, Carried(conn), NEW u \in Updates, NEW F
    PROVE  Carried(Merge(conn, u, F))
BY StoreAssumption DEF StoreAssumption, Carried, Merge

\* Each installation begins with its old state in one place.
LEMMA WalletsInit == Init => Wallets
<1> SUFFICES ASSUME Init PROVE Wallets
  OBVIOUS
<1>1. Old.wallet = TRUE /\ Blank.wallet = FALSE /\ Blank.conn = NoConn /\ Carried(Old.conn)
  BY DEF Old, Blank, NewConn, Carried
<1>2. Old # Blank /\ mem = Blank /\ phase = "down" /\ \A u \in Updates : at[u] # "half"
  BY <1>1 DEF Init, Tasks
<1>3. CASE file = Old
  <2>1. fileThere /\ db = Blank
    BY <1>2, <1>3 DEF Init
  <2> QED
    BY <1>1, <1>2, <1>3, <2>1 DEF Wallets
<1>4. CASE file = Blank
  <2>1. db = Blank \/ (db = Old /\ backend # "file")
    BY DEF Init
  <2> QED
    BY <1>1, <1>2, <1>4, <2>1 DEF Wallets
<1> QED
  BY <1>3, <1>4 DEF Init

\* A write of the file store keeps the old state if what it writes does.
LEMMA FileKeepsWallets ==
    ASSUME StoreInv, Wallets, backend = "file", phase = "run", NEW new, mem' = new, file' \in {file, new},
           new.wallet = mem.wallet, new.wallet => Carried(new.conn),
           UNCHANGED <<backend, phase, db>>, \A u \in Updates : at'[u] # "half"
    PROVE  Wallets'
BY DEF Wallets

\* A step that changes neither proofs nor record.
LEMMA WalletsStay ==
    ASSUME Wallets, UNCHANGED <<backend, phase, file, fileThere, mem>>,
           db'.wallet = db.wallet, db'.conn = db.conn,
           \A u \in Updates : at'[u] = "half" => at[u] = "half" /\ fetched'[u] = fetched[u]
    PROVE  Wallets'
BY DEF Wallets, Carried

\* Opening the store keeps the old state.
LEMMA BootKeepsWallets == StoreInv /\ Wallets /\ Boot => Wallets'
<1> SUFFICES ASSUME StoreInv, Wallets, Boot PROVE Wallets'
  OBVIOUS
<1> USE DEF StoreInv
<1>1. /\ \A u \in Updates : at[u] # "half" /\ at'[u] # "half"
      /\ backend' = backend
  BY DEF Boot, Start, Salt, Version, Migrate, Rename, Run, taskVars, openVars, Calls, Busy, Tasks
<1>2. CASE Start \/ Salt \/ Version
  <2>1. file' = file /\ fileThere' = fileThere /\ db' = db /\ mem' \in {mem, file}
        /\ phase' \notin {"renaming", "run"} /\ (phase' = "ready" => backend = "file" /\ mem' = file)
    BY <1>2 DEF Start, Salt, Version, dataVars
  <2> QED
    BY <1>1, <2>1 DEF Wallets
<1>3. CASE Rename
  <2>1. phase = "renaming" /\ phase' = "ready" /\ backend # "file" /\ UNCHANGED <<file, mem, db>>
    BY <1>3 DEF Rename, Phases
  <2> QED
    BY <1>1, <2>1 DEF Wallets
<1>4. CASE Migrate
  <2>1. backend # "file" /\ UNCHANGED <<file, fileThere, mem>> /\ phase = "keyed"
        /\ phase' \in {"renaming", "ready"}
    BY <1>4 DEF Migrate, Phases
  <2>2. CASE EmptyDb /\ fileThere /\ phase' = "renaming"
    <3>1. db'.wallet = file.wallet /\ db'.conn = file.conn
      BY <1>4, <2>2 DEF Migrate, TypeOK, Data
    <3> QED
      BY <1>1, <2>1, <3>1 DEF Wallets, Carried
  <2>3. CASE EmptyDb /\ fileThere /\ phase' = "ready"
    BY <1>1, <1>4, <2>1, <2>3 DEF Migrate, Wallets
  <2>4. CASE ~(EmptyDb /\ fileThere)
    <3>1. phase' = "ready" /\ db' = db
      BY <1>4, <2>4 DEF Migrate
    <3> QED
      BY <1>1, <2>1, <2>4, <3>1 DEF Wallets, EmptyDb
  <2> QED
    BY <2>1, <2>2, <2>3, <2>4
<1>5. CASE Run
  <2>1. phase = "ready" /\ phase' = "run"
    BY <1>5 DEF Run
  <2>2. CASE View.conn # NoConn
    BY <1>1, <1>5, <2>1, <2>2 DEF Run, Wallets
  <2>3. CASE View.conn = NoConn /\ backend = "file"
    <3>1. mem'.wallet = mem.wallet /\ file' = mem' /\ db' = db
      BY <1>5, <2>3 DEF Run, TypeOK, Data
    <3>2. ~mem.wallet
      BY <2>3, NoConnNotCarried DEF Wallets, View
    <3> QED
      BY <1>1, <2>1, <2>3, <3>1, <3>2 DEF Wallets
  <2>4. CASE View.conn = NoConn /\ backend # "file"
    <3>1. db'.wallet = db.wallet /\ UNCHANGED <<mem, file, fileThere>>
      BY <1>5, <2>4 DEF Run, TypeOK, Data
    <3>2. ~db.wallet
      BY <2>4, NoConnNotCarried DEF Wallets, View
    <3> QED
      BY <1>1, <2>1, <2>4, <3>1, <3>2 DEF Wallets
  <2> QED
    BY <2>2, <2>3, <2>4
<1> QED
  BY <1>2, <1>3, <1>4, <1>5 DEF Boot

\* An update keeps the old state.
LEMMA UpdateKeepsWallets ==
    ASSUME StoreInv, Wallets, NEW u \in Updates,
           \/ Begin(u) \/ FileTouch(u) \/ GiveUp(u) \/ FileUpdate(u)
           \/ DbBalance(u) \/ DbFetch(u) \/ DbBlob(u)
    PROVE  Wallets'
<1> USE DEF StoreInv
<1> u \in Tasks
  BY DEF Tasks
<1>1. CASE Begin(u) \/ GiveUp(u)
  <2>1. \A v \in Updates : at'[v] = "half" => at[v] = "half"
    BY <1>1 DEF Begin, GiveUp, Goto, TypeOK, Tasks
  <2> QED
    BY <1>1, <2>1, WalletsStay DEF Begin, GiveUp, openVars, dataVars
<1>2. CASE FileTouch(u) \/ FileUpdate(u)
  <2>1. backend = "file" /\ phase = "run" /\ UNCHANGED <<backend, phase, db>>
    BY <1>2 DEF FileTouch, FileUpdate, FileWrites, Running, openVars
  <2>2. PICK F : mem' = [mem EXCEPT !.conn = Merge(@, u, F)] /\ file' \in {file, mem'}
    BY <1>2 DEF FileTouch, FileUpdate, FileWrites
  <2>3. mem'.wallet = mem.wallet /\ mem'.conn = Merge(mem.conn, u, F)
    BY <2>2 DEF TypeOK, Data
  <2>4. mem'.wallet => Carried(mem'.conn)
    BY <2>3, MergeCarried DEF Wallets
  <2>5. \A v \in Updates : at'[v] # "half"
    BY <1>2, <2>1 DEF FileTouch, FileUpdate, FileWrites, Goto, taskVars, Halves, TypeOK, Tasks
  <2> QED
    BY <2>1, <2>2, <2>3, <2>4, <2>5, FileKeepsWallets
<1>3. CASE DbBalance(u)
  <2>1. backend # "file" /\ UNCHANGED <<backend, phase, file, fileThere, mem, fetched>>
    BY <1>3 DEF DbBalance, openVars
  <2>2. db'.wallet = db.wallet /\ db'.conn = Merge(db.conn, u, {"balance"}) /\ phase = "run"
    BY <1>3 DEF DbBalance, TypeOK, Data
  <2>3. db.wallet => Carried(db'.conn)
    BY <2>2, MergeCarried DEF Wallets
  <2>4. \A v \in Updates : at'[v] = "half" => at[v] = "half"
    BY <1>3 DEF DbBalance, Goto, TypeOK, Tasks
  <2> QED
    BY <2>1, <2>2, <2>3, <2>4 DEF Wallets
<1>4. CASE DbFetch(u)
  <2>1. UNCHANGED <<backend, phase, file, fileThere, mem, db>> /\ backend # "file"
    BY <1>4 DEF DbFetch, openVars, dataVars
  <2>2. \A v \in Updates : at'[v] = "half" =>
            fetched'[v] = db.conn \/ (at[v] = "half" /\ fetched'[v] = fetched[v])
    BY <1>4 DEF DbFetch, Goto, TypeOK, Tasks
  <2> QED
    BY <2>1, <2>2 DEF Wallets
<1>5. CASE DbBlob(u)
  <2>1. UNCHANGED <<backend, phase, file, fileThere, mem, fetched>> /\ backend # "file" /\ phase = "run"
        /\ at[u] = "half"
    BY <1>5 DEF DbBlob, openVars
  <2>2. db'.wallet = db.wallet /\ db'.conn = [f \in Fields |->
           IF f = "balance" THEN db.conn[f] ELSE IF f \in Writes[u] THEN u ELSE fetched[u][f]]
    BY <1>5 DEF DbBlob, TypeOK, Data
  <2>3. db.wallet => Carried(db'.conn)
    BY <2>1, <2>2, StoreAssumption DEF StoreAssumption, Wallets, Carried
  <2>4. \A v \in Updates : at'[v] = "half" => at[v] = "half"
    BY <1>5 DEF DbBlob, Goto, TypeOK, Tasks
  <2> QED
    BY <2>1, <2>2, <2>3, <2>4 DEF Wallets
<1> QED
  BY <1>1, <1>2, <1>3, <1>4, <1>5

\* Every step keeps the old state.
LEMMA WalletsStep == StoreInv /\ Wallets /\ [Next]_vars => Wallets'
<1> SUFFICES ASSUME StoreInv, Wallets, [Next]_vars PROVE Wallets'
  OBVIOUS
<1> USE DEF StoreInv
<1>1. CASE Boot
  BY <1>1, BootKeepsWallets
<1>2. CASE SaveAll
  <2>1. backend = "file" /\ phase = "run" /\ file' = mem /\ UNCHANGED <<backend, phase, mem, db, at, fetched>>
    BY <1>2 DEF SaveAll, openVars, taskVars
  <2> QED
    BY <2>1 DEF Wallets
<1>3. CASE Midnight \/ UNCHANGED vars
  BY <1>3, WalletsStay DEF Midnight, vars, openVars, dataVars, taskVars
<1>4. CASE Crash
  <2>1. phase' = "down" /\ (\A u \in Updates : at'[u] # "half") /\ mem' = Blank
        /\ UNCHANGED <<backend, file, fileThere, db>>
    BY <1>4 DEF Crash, Busy, Tasks
  <2>2. mem'.wallet = FALSE
    BY <2>1 DEF Blank
  <2>3. phase \in {"renaming"} => backend # "file"
    BY DEF Phases
  <2> QED
    BY <2>1, <2>2 DEF Wallets
<1>5. ASSUME NEW t \in Tasks, Call(t) PROVE Wallets'
  <2>1. \A u \in Updates : at'[u] = "half" => at[u] = "half"
    BY <1>5 DEF Call, Goto, TypeOK, Tasks
  <2> QED
    BY <1>5, <2>1, WalletsStay DEF Call, openVars, dataVars
<1>6. ASSUME NEW u \in Updates,
             \/ Begin(u) \/ FileTouch(u) \/ GiveUp(u) \/ FileUpdate(u)
             \/ DbBalance(u) \/ DbFetch(u) \/ DbBlob(u)
      PROVE  Wallets'
  BY <1>6, UpdateKeepsWallets
<1>7. ASSUME NEW t \in Tasks \ Updates, NEW new \in Data, NEW ghosts, FileWrites(t, new, ghosts),
             new.wallet = mem.wallet, new.conn = mem.conn
      PROVE  Wallets'
  <2>1. backend = "file" /\ phase = "run" /\ mem' = new /\ file' \in {file, new}
        /\ UNCHANGED <<backend, phase, db>>
    BY <1>7 DEF FileWrites, Running, openVars
  <2>2. \A u \in Updates : at'[u] # "half"
    BY <1>7, <2>1 DEF FileWrites, Goto, Halves, TypeOK, Tasks
  <2> QED
    BY <1>7, <2>1, <2>2, FileKeepsWallets DEF Wallets
<1>8. ASSUME NEW t \in Tasks \ Updates, NEW s, at' = [at EXCEPT ![t] = s],
             db'.wallet = db.wallet, db'.conn = db.conn,
             UNCHANGED <<backend, phase, file, fileThere, mem, fetched>>
      PROVE  Wallets'
  <2>1. \A u \in Updates : at'[u] = at[u]
    BY <1>8 DEF TypeOK, Tasks
  <2> QED
    BY <1>8, <2>1, WalletsStay
<1>9. ASSUME NEW t \in Reserves, ReserveRead(t) \/ ReserveStore(t) PROVE Wallets'
  <2>1. t \in Tasks \ Updates
    BY StoreAssumption DEF StoreAssumption, Tasks
  <2>2. CASE ReserveRead(t)
    BY <1>8, <2>1, <2>2 DEF ReserveRead, Goto, openVars, dataVars
  <2>3. CASE ReserveStore(t)
    <3> DEFINE new == [mem EXCEPT !.counter = number[t] + 1]
    <3>1. new \in Data /\ new.wallet = mem.wallet /\ new.conn = mem.conn
      BY DEF TypeOK, Data
    <3> HIDE DEF new
    <3>2. CASE FileWrites(t, new, HandedOut(number[t]))
      <4>1. FileWrites(t, new, TRUE)
        BY <3>2 DEF FileWrites
      <4> QED
        BY <1>7, <2>1, <3>1, <4>1
    <3>3. CASE ~FileWrites(t, new, HandedOut(number[t]))
      <4>1. db'.wallet = db.wallet /\ db'.conn = db.conn
        BY <2>3, <3>3 DEF ReserveStore, new, TypeOK, Data
      <4> QED
        BY <1>8, <2>1, <2>3, <3>3, <4>1 DEF ReserveStore, new, Goto, openVars
    <3> QED
      BY <3>2, <3>3
  <2> QED
    BY <1>9, <2>2, <2>3
<1>10. ASSUME NEW t \in Spends, FileSpend(t) \/ DbSpend(t) \/ DbSpendCleanup(t) PROVE Wallets'
  <2>1. t \in Tasks \ Updates
    BY StoreAssumption DEF StoreAssumption, Tasks
  <2>2. CASE FileSpend(t)
    <3> DEFINE new == [mem EXCEPT !.spend = [d \in Days |-> IF d < today THEN 0
                                 ELSE IF d = today THEN @[d] + 1 ELSE @[d]]]
    <3>1. new \in Data /\ new.wallet = mem.wallet /\ new.conn = mem.conn
      BY DEF TypeOK, Data
    <3> HIDE DEF new
    <3>2. FileWrites(t, new, Spent)
      BY <2>2 DEF FileSpend, new
    <3>3. FileWrites(t, new, TRUE)
      BY <3>2 DEF FileWrites
    <3> QED
      BY <1>7, <2>1, <3>1, <3>3
  <2>3. CASE DbSpend(t) \/ DbSpendCleanup(t)
    <3>1. db'.wallet = db.wallet /\ db'.conn = db.conn
      BY <2>3 DEF DbSpend, DbSpendCleanup, TypeOK, Data
    <3> QED
      BY <1>8, <2>1, <2>3, <3>1 DEF DbSpend, DbSpendCleanup, Goto, openVars
  <2> QED
    BY <1>10, <2>2, <2>3
<1> QED
  BY <1>1, <1>2, <1>3, <1>4, <1>5, <1>6, <1>9, <1>10 DEF Next

\* A migration may be cut short by a crash as often as it will, and fail as often
\* as it will: a store in use has the old proofs and the old record, or the file
\* that a start could not read is still there.
THEOREM OldStateReachableTheorem == Spec => []OldStateReachable
<1>1. StoreInv /\ Wallets /\ [Next]_vars => Wallets'
  BY WalletsStep
<1>2. StoreInv /\ Wallets => OldStateReachable
  <2> SUFFICES ASSUME StoreInv, Wallets, phase = "run", file.wallet \/ db.wallet PROVE OldStateReachable
    BY DEF OldStateReachable
  <2> QED
    BY DEF Wallets, Carried, View, OldStateReachable
<1> QED
  BY WalletsInit, StoreInvariant, <1>1, <1>2, PTL DEF Spec

-----------------------------------------------------------------------------
(* The counters *)

\* A counter stands where no secret has been handed out, or below the end of those
\* that a database forgot.
Past(counter) == high <= counter \/ high <= Forgotten

\* No stored counter lags behind what was handed out, and while no reservations have
\* overlapped whoever has read it will advance it from what it is.
Counters ==
    /\ \A n \in repeated : raced \/ n < Forgotten
    /\ ~raced =>
          /\ Past(Durable.counter)
          /\ phase = "run" => Past(View.counter)
          /\ \A s, t \in Reserves : at[s] = "half" /\ at[t] = "half" => s = t
          /\ \A t \in Reserves : at[t] = "half" => number[t] = View.counter

\* What a step does that is none of a reservation.
CounterStays ==
    /\ UNCHANGED <<high, repeated, raced>>
    /\ \A t \in Reserves : at'[t] = "half" => at[t] = "half" /\ number'[t] = number[t]
    /\ Durable'.counter = Durable.counter \/ (phase = "run" /\ Durable'.counter = View.counter)
    /\ phase' = "run" => View'.counter = IF phase = "run" THEN View.counter ELSE Durable.counter

\* What a step does that is none of a day's sum.
SpendStays ==
    /\ spentOk' = spentOk
    /\ \A t \in Spends : at'[t] = "half" => at[t] = "half" /\ number'[t] = number[t]
    /\ Durable'.spend = Durable.spend \/ (phase = "run" /\ Durable'.spend = View.spend)
    /\ phase' = "run" => View'.spend = IF phase = "run" THEN View.spend ELSE Durable.spend

\* A database does not touch the .enc file's contents.
LEMMA FileStays == [Next]_vars => backend' = backend /\ (backend # "file" => file' = file)
BY DEF Next, Boot, Start, Salt, Version, Migrate, Rename, Run, SaveAll, Midnight, Crash, Call, Begin,
       FileTouch, GiveUp, FileUpdate, FileWrites, Running, DbBalance, DbFetch, DbBlob, ReserveRead,
       ReserveStore, FileSpend, DbSpend, DbSpendCleanup, vars, openVars, dataVars

\* What a database forgets stays the same.
LEMMA ForgottenStays == TypeOK /\ [Next]_vars => Forgotten' = Forgotten /\ Forgotten \in Nat
BY FileStays DEF Forgotten, TypeOK, Data

Same(new, old) == new.counter = old.counter /\ new.spend = old.spend

\* What the steps of neither do.
Quiet ==
    /\ UNCHANGED <<high, repeated, raced, spentOk>>
    /\ \A t \in Reserves \cup Spends : at'[t] = "half" => at[t] = "half" /\ number'[t] = number[t]
    /\ Same(Durable', Durable) \/ (phase = "run" /\ Same(Durable', View))
    /\ phase' = "run" => IF phase = "run" THEN Same(View', View) ELSE Same(View', Durable)

\* Everything but reservations and the day's sum leaves both alone.
LEMMA QuietStep ==
    ASSUME StoreInv, [Next]_vars,
           ~\E t \in Reserves : ReserveRead(t) \/ ReserveStore(t),
           ~\E t \in Spends : FileSpend(t) \/ DbSpend(t) \/ DbSpendCleanup(t)
    PROVE  CounterStays /\ SpendStays /\ (Midnight \/ UNCHANGED <<today, swept>>)
<1> USE DEF StoreInv
<1>1. Quiet => CounterStays /\ SpendStays
  BY DEF Quiet, Same, CounterStays, SpendStays
<1>2. ASSUME Boot PROVE Quiet
  <2>1. UNCHANGED <<backend, today, ghostVars, at, number>>
    BY <1>2 DEF Boot, Start, Salt, Version, Migrate, Rename, Run, openVars, taskVars
  <2>2. Same(file', file) /\ Same(db', db)
    <3> USE DEF Same
    <3>1. CASE Run
      BY <3>1 DEF Run, Phases, View, TypeOK, Data
    <3>2. CASE Migrate
      BY <3>2 DEF Migrate, TypeOK, Data
    <3> QED
      BY <1>2, <3>1, <3>2 DEF Boot, Start, Salt, Version, Rename, dataVars
  <2>3. phase' = "run" => Same(mem', mem) /\ phase = "ready"
    BY <1>2 DEF Boot, Start, Salt, Version, Migrate, Rename, Run, Same, TypeOK, Data
  <2>4. phase' = "run" /\ backend = "file" => mem = file
    BY <2>3 DEF Phases
  <2>5. Same(Durable', Durable) /\ (phase' = "run" => Same(View', Durable) /\ phase # "run")
    BY <2>1, <2>2, <2>3, <2>4 DEF Same, Durable, View
  <2> QED
    BY <2>1, <2>5 DEF Quiet, ghostVars
<1>3. ASSUME SaveAll PROVE Quiet
  <2>1. backend = "file" /\ phase = "run" /\ file' = mem
        /\ UNCHANGED <<backend, phase, mem, db, at, number, today, ghostVars>>
    BY <1>3 DEF SaveAll, openVars, taskVars
  <2>3. Durable' = View /\ View' = View
    BY <2>1 DEF View, Durable
  <2> QED
    BY <2>1, <2>3 DEF Quiet, Same, ghostVars
<1>4. ASSUME Midnight \/ UNCHANGED vars PROVE Quiet
  <2>1. UNCHANGED <<backend, phase, file, mem, db, at, number, high, repeated, raced, spentOk>>
    BY <1>4 DEF Midnight, vars, openVars, dataVars, taskVars, ghostVars
  <2>2. Durable' = Durable /\ View' = View
    BY <2>1 DEF View, Durable
  <2> QED
    BY <2>1, <2>2 DEF Quiet, Same
<1>5. ASSUME Crash PROVE Quiet
  <2>1. phase' = "down" /\ (\A t \in Tasks : at'[t] # "half")
        /\ UNCHANGED <<backend, file, db, today, ghostVars>>
    BY <1>5 DEF Crash, Busy
  <2>3. Durable' = Durable
    BY <2>1 DEF Durable
  <2>4. \A t \in Reserves \cup Spends : at'[t] # "half"
    BY <2>1 DEF Tasks
  <2> QED
    BY <2>1, <2>3, <2>4 DEF Quiet, Same, ghostVars
<1>6. ASSUME NEW t \in Tasks, Call(t) PROVE Quiet
  <2>1. at' = [at EXCEPT ![t] = "called"]
        /\ UNCHANGED <<backend, phase, file, mem, db, number, today, ghostVars>>
    BY <1>6 DEF Call, Goto, openVars, dataVars
  <2>2. \A s \in Tasks : at'[s] = "half" => at[s] = "half"
    BY <2>1 DEF TypeOK
  <2> QED
    BY <2>1, <2>2 DEF Quiet, Same, View, Durable, Tasks, ghostVars
<1>7. ASSUME NEW u \in Updates,
             \/ Begin(u) \/ FileTouch(u) \/ GiveUp(u) \/ FileUpdate(u)
             \/ DbBalance(u) \/ DbFetch(u) \/ DbBlob(u)
      PROVE  Quiet
  <2>0. u \in Tasks /\ u \notin Reserves \cup Spends
    BY StoreAssumption DEF StoreAssumption, Tasks
  <2>1. \A t \in Reserves \cup Spends : at'[t] = at[t]
    BY <1>7, <2>0
    DEF Begin, FileTouch, GiveUp, FileUpdate, FileWrites, DbBalance, DbFetch, DbBlob, Goto, taskVars,
        TypeOK, Tasks
  <2>2. UNCHANGED <<backend, phase, number, today, ghostVars>> /\ phase = "run"
    BY <1>7
    DEF Begin, FileTouch, GiveUp, FileUpdate, FileWrites, Running, DbBalance, DbFetch, DbBlob, taskVars,
        openVars
  <2>3. Same(mem', mem) /\ Same(db', db)
    <3> USE DEF Same
    <3>1. mem' = mem \/ \E F : mem' = [mem EXCEPT !.conn = Merge(@, u, F)]
      BY <1>7
      DEF Begin, FileTouch, GiveUp, FileUpdate, FileWrites, DbBalance, DbFetch, DbBlob, dataVars
    <3>2. Same(mem', mem)
      BY <3>1 DEF TypeOK, Data
    <3>3. Same(db', db)
      BY <1>7
      DEF Begin, FileTouch, GiveUp, FileUpdate, FileWrites, DbBalance, DbFetch, DbBlob, dataVars, TypeOK, Data
    <3> QED
      BY <3>2, <3>3
  <2>4. file' \in {file, mem'} /\ (file' = file \/ backend = "file")
    BY <1>7
    DEF Begin, FileTouch, GiveUp, FileUpdate, FileWrites, Running, DbBalance, DbFetch, DbBlob, dataVars
  <2>5. Same(View', View) /\ (Same(Durable', Durable) \/ Same(Durable', View))
    BY <2>2, <2>3, <2>4 DEF Same, View, Durable
  <2> QED
    BY <2>1, <2>2, <2>5 DEF Quiet, ghostVars
<1>8. Quiet
  <2>1. CASE \E u \in Updates : \/ Begin(u) \/ FileTouch(u) \/ GiveUp(u) \/ FileUpdate(u)
                               \/ DbBalance(u) \/ DbFetch(u) \/ DbBlob(u)
    BY <1>7, <2>1
  <2>2. CASE \E t \in Tasks : Call(t)
    BY <1>6, <2>2
  <2>3. \/ Boot \/ SaveAll \/ Midnight \/ Crash \/ UNCHANGED vars
        \/ \E t \in Tasks : Call(t)
        \/ \E u \in Updates : \/ Begin(u) \/ FileTouch(u) \/ GiveUp(u) \/ FileUpdate(u)
                             \/ DbBalance(u) \/ DbFetch(u) \/ DbBlob(u)
    BY DEF Next
  <2> QED
    BY <1>2, <1>3, <1>4, <1>5, <2>1, <2>2, <2>3
<1>9. Midnight \/ UNCHANGED <<today, swept>>
  <2>1. ghostVars' = ghostVars => swept' = swept
    BY DEF ghostVars
  <2> QED
    BY <2>1
    DEF Next, Boot, Start, Salt, Version, Migrate, Rename, Run, SaveAll, Crash, Call, Begin, FileTouch,
        GiveUp, FileUpdate, FileWrites, DbBalance, DbFetch, DbBlob, vars
<1> QED
  BY <1>1, <1>8, <1>9

\* A step that is none of a reservation keeps the counters.
LEMMA CountersKept ==
    ASSUME StoreInv, StoreInv', Counters, CounterStays, Forgotten' = Forgotten
    PROVE  Counters'
<1>1. \A n \in repeated' : raced' \/ n < Forgotten'
  BY DEF Counters, CounterStays
<1>2. CASE ~raced
  <2>1. Past(Durable.counter) /\ (phase = "run" => Past(View.counter))
    BY <1>2 DEF Counters
  <2>2. /\ high' <= Durable'.counter \/ high' <= Forgotten'
        /\ phase' = "run" => high' <= View'.counter \/ high' <= Forgotten'
    BY <2>1 DEF CounterStays, Past
  <2>3. \A t \in Reserves : at'[t] = "half" => phase = "run" /\ phase' = "run"
    BY DEF CounterStays, StoreInv, Calls, Busy, Tasks
  <2>4. \A t \in Reserves : at'[t] = "half" => number'[t] = View'.counter
    BY <1>2, <2>3 DEF Counters, CounterStays
  <2>5. \A s, t \in Reserves : at'[s] = "half" /\ at'[t] = "half" => s = t
    BY <1>2 DEF Counters, CounterStays
  <2> QED
    BY <1>1, <2>2, <2>4, <2>5 DEF Counters, Past
<1>3. CASE raced
  BY <1>1, <1>3 DEF Counters, CounterStays
<1> QED
  BY <1>2, <1>3

\* The file store's write of the counters, on its way to one of the day's sums.
LEMMA SpendLeavesCounters ==
    ASSUME StoreInv, [Next]_vars, NEW t \in Spends, FileSpend(t) \/ DbSpend(t) \/ DbSpendCleanup(t)
    PROVE  CounterStays
<1> USE DEF StoreInv
<1>0. t \in Tasks /\ t \notin Reserves
  BY StoreAssumption DEF StoreAssumption, Tasks
<1>1. UNCHANGED <<backend, phase, high, repeated, raced>> /\ phase = "run"
  BY DEF FileSpend, FileWrites, Running, DbSpend, DbSpendCleanup, Spent, openVars, ghostVars
<1>2. \A r \in Reserves : at'[r] = at[r] /\ number'[r] = number[r]
  BY <1>0 DEF FileSpend, FileWrites, DbSpend, DbSpendCleanup, Goto, TypeOK, Tasks
<1>3. CASE FileSpend(t)
  <2> DEFINE new == [mem EXCEPT !.spend = [d \in Days |-> IF d < today THEN 0
                               ELSE IF d = today THEN @[d] + 1 ELSE @[d]]]
  <2>1. new.counter = mem.counter
    BY DEF TypeOK, Data
  <2> HIDE DEF new
  <2>2. FileWrites(t, new, Spent)
    BY <1>3 DEF FileSpend, new
  <2>3. backend = "file" /\ mem' = new /\ file' \in {file, new}
    BY <2>2 DEF FileWrites, Running
  <2> QED
    BY <1>1, <1>2, <2>1, <2>3 DEF CounterStays, View, Durable
<1>4. CASE DbSpend(t) \/ DbSpendCleanup(t)
  <2>1. db'.counter = db.counter /\ backend # "file"
    BY <1>4 DEF DbSpend, DbSpendCleanup, TypeOK, Data
  <2> QED
    BY <1>1, <1>2, <2>1 DEF CounterStays, View, Durable
<1> QED
  BY <1>3, <1>4

\* A reservation's step keeps the counters.
LEMMA ReserveKeepsCounters ==
    ASSUME StoreInv, StoreInv', Counters, Forgotten' = Forgotten, Forgotten \in Nat,
           NEW t \in Reserves, ReserveRead(t) \/ ReserveStore(t)
    PROVE  Counters'
<1> USE DEF StoreInv
<1>0. t \in Tasks /\ phase = "run" /\ phase' = "run" /\ backend' = backend
  BY DEF ReserveRead, ReserveStore, FileWrites, Running, openVars, Tasks
<1>1. number[t] \in Nat /\ high \in Nat /\ View.counter \in Nat
  BY DEF TypeOK, View, Data
<1>2. CASE ReserveRead(t)
  <2>1. UNCHANGED <<file, mem, db, high, repeated>> /\ at' = [at EXCEPT ![t] = "half"]
        /\ number' = [number EXCEPT ![t] = View.counter]
    BY <1>2 DEF ReserveRead, Goto, dataVars
  <2>2. raced' <=> (raced \/ \E r \in Reserves : at[r] = "half")
    BY <1>2 DEF ReserveRead
  <2>3. \A r \in Reserves : /\ at'[r] = IF r = t THEN "half" ELSE at[r]
                            /\ number'[r] = IF r = t THEN View.counter ELSE number[r]
    BY <2>1 DEF TypeOK, Tasks
  <2>4. View' = View /\ Durable' = Durable
    BY <1>0, <2>1 DEF View, Durable
  <2>5. \A n \in repeated' : raced' \/ n < Forgotten'
    BY <2>1, <2>2 DEF Counters
  <2>6. CASE raced'
    BY <2>5, <2>6 DEF Counters
  <2>7. CASE ~raced'
    <3>1. ~raced /\ \A r \in Reserves : at[r] # "half"
      BY <2>2, <2>7
    <3>2. (Past(Durable.counter))' /\ (Past(View.counter))'
      BY <1>0, <2>1, <2>4, <3>1 DEF Counters, Past
    <3>3. /\ \A r, s \in Reserves : at'[r] = "half" /\ at'[s] = "half" => r = s
          /\ \A r \in Reserves : at'[r] = "half" => number'[r] = View'.counter
      BY <2>3, <2>4, <3>1
    <3> QED
      BY <2>5, <3>2, <3>3 DEF Counters
  <2> QED
    BY <2>6, <2>7
<1>3. CASE ReserveStore(t)
  <2>1. PICK s \in {"ok", "failed"} : at' = [at EXCEPT ![t] = s]
    BY <1>3 DEF ReserveStore, FileWrites, Goto
  <2>2. \A r \in Reserves : (at'[r] = "half" => at[r] = "half" /\ r # t) /\ number'[r] = number[r]
    BY <1>3, <2>1 DEF ReserveStore, FileWrites, TypeOK, Tasks
  <2>3. raced' = raced
    BY <1>3 DEF ReserveStore, FileWrites, HandedOut, ghostVars
  <2>4. at[t] = "half"
    BY <1>3 DEF ReserveStore
  <2>5. \/ HandedOut(number[t]) /\ Durable'.counter = number[t] + 1
        \/ UNCHANGED ghostVars /\ Durable' = Durable
    <3> DEFINE new == [mem EXCEPT !.counter = number[t] + 1]
    <3>1. new.counter = number[t] + 1 /\ [db EXCEPT !.counter = number[t] + 1].counter = number[t] + 1
      BY DEF TypeOK, Data
    <3>2. \/ FileWrites(t, new, HandedOut(number[t]))
          \/ /\ backend # "file" /\ db' = [db EXCEPT !.counter = number[t] + 1]
             /\ HandedOut(number[t])
      BY <1>3 DEF ReserveStore
    <3> HIDE DEF new
    <3>3. CASE FileWrites(t, new, HandedOut(number[t]))
      <4>1. \/ file' = new /\ HandedOut(number[t])
            \/ file' = file /\ UNCHANGED ghostVars
        BY <3>3 DEF FileWrites
      <4>2. Durable' = file' /\ Durable = file
        BY <1>0, <3>3 DEF FileWrites, Running, Durable
      <4>3. CASE file' = new /\ HandedOut(number[t])
        BY <3>1, <4>2, <4>3
      <4>4. CASE file' = file /\ UNCHANGED ghostVars
        BY <4>2, <4>4
      <4> QED
        BY <4>1, <4>3, <4>4
    <3> QED
      BY <1>0, <3>1, <3>2, <3>3 DEF Durable
  <2>6. View'.counter = number[t] + 1
    BY <1>0, <1>3 DEF ReserveStore, FileWrites, Running, View, TypeOK, Data
  <2>7. CASE raced
    <3>1. \A n \in repeated' : raced' \/ n < Forgotten'
      BY <2>3, <2>7
    <3> QED
      BY <2>3, <2>7, <3>1 DEF Counters
  <2>8. CASE ~raced
    <3>1. number[t] = View.counter /\ (high <= number[t] \/ high <= Forgotten)
          /\ \A r \in Reserves : at[r] = "half" => r = t
      BY <1>0, <2>4, <2>8 DEF Counters, Past
    <3>2. /\ \A n \in repeated' : n < Forgotten'
          /\ high' <= number[t] + 1 \/ high' <= Forgotten'
      <4>1. CASE HandedOut(number[t])
        <5>1. /\ repeated' = IF number[t] < high THEN repeated \cup {number[t]} ELSE repeated
              /\ high' = IF number[t] + 1 > high THEN number[t] + 1 ELSE high
          BY <4>1 DEF HandedOut
        <5>2. number[t] < high => number[t] < Forgotten
          BY <1>1, <3>1
        <5>3. \A n \in repeated : n < Forgotten
          BY <2>8 DEF Counters
        <5>4. \A n \in repeated' : n < Forgotten'
          BY <5>1, <5>2, <5>3
        <5>5. high' <= number[t] + 1 \/ high' <= Forgotten'
          BY <1>1, <3>1, <5>1
        <5> QED
          BY <5>4, <5>5
      <4>2. CASE UNCHANGED ghostVars
        BY <1>1, <2>8, <3>1, <4>2 DEF Counters, ghostVars
      <4> QED
        BY <2>5, <4>1, <4>2
    <3>3. (Past(View.counter))'
      BY <2>6, <3>2 DEF Past
    <3>4. (Past(Durable.counter))'
      BY <2>5, <2>8, <3>2 DEF Past, Counters, ghostVars
    <3>5. \A r \in Reserves : at'[r] # "half"
      BY <2>2, <3>1
    <3> QED
      BY <3>2, <3>3, <3>4, <3>5 DEF Counters
  <2> QED
    BY <2>7, <2>8
<1> QED
  BY <1>2, <1>3

\* However many reservations there are, crashes, failing writes and migrations
\* among them: a counter that is handed out twice is one of a file whose place a
\* database took, or two reservations have overlapped.
THEOREM CountersNeverRepeatTheorem == Spec => []CountersNeverRepeat
<1>1. Init => Counters
  <2> SUFFICES ASSUME Init PROVE Counters
    OBVIOUS
  <2>1. Old # Blank /\ Old.counter = OldCounter /\ Old.wallet = TRUE /\ Blank.counter = 0
    BY DEF Old, Blank
  <2>2. repeated = {} /\ phase # "run" /\ \A t \in Reserves : at[t] # "half"
    BY DEF Init, Tasks
  <2>3. Past(Durable.counter)
    <3>1. CASE file = Old
      BY <2>1, <3>1, StoreAssumption DEF StoreAssumption, Init, Past, Durable, Forgotten
    <3>2. CASE file = Blank
      BY <2>1, <3>2, StoreAssumption DEF StoreAssumption, Init, Past, Durable
    <3> QED
      BY <3>1, <3>2 DEF Init
  <2> QED
    BY <2>2, <2>3 DEF Counters
<1>2. StoreInv /\ StoreInv' /\ Counters /\ [Next]_vars => Counters'
  <2> SUFFICES ASSUME StoreInv, StoreInv', Counters, [Next]_vars PROVE Counters'
    OBVIOUS
  <2>1. Forgotten' = Forgotten /\ Forgotten \in Nat
    BY ForgottenStays DEF StoreInv
  <2>2. CASE \E t \in Reserves : ReserveRead(t) \/ ReserveStore(t)
    BY <2>1, <2>2, ReserveKeepsCounters
  <2>3. CASE \E t \in Spends : FileSpend(t) \/ DbSpend(t) \/ DbSpendCleanup(t)
    BY <2>1, <2>3, SpendLeavesCounters, CountersKept
  <2> QED
    BY <2>1, <2>2, <2>3, QuietStep, CountersKept
<1>3. Counters => CountersNeverRepeat
  BY DEF Counters, CountersNeverRepeat
<1> QED
  BY <1>1, <1>2, <1>3, StoreInvariant, PTL DEF Spec

-----------------------------------------------------------------------------
(* The daily spend *)

\* What was acknowledged today is stored, unless a clean-up of an earlier day has
\* come since, and nothing was acknowledged on a later day.
DaySpend ==
    /\ swept \/ spentOk[today] <= Durable.spend[today]
    /\ phase = "run" => swept \/ spentOk[today] <= View.spend[today]
    /\ \A d \in Days : d > today => spentOk[d] = 0
    /\ \A t \in Spends : at[t] = "half" => backend # "file" /\ number[t] <= today

\* A reservation leaves the day's sum alone.
LEMMA ReserveLeavesSpend ==
    ASSUME StoreInv, NEW t \in Reserves, ReserveRead(t) \/ ReserveStore(t)
    PROVE  SpendStays /\ UNCHANGED <<today, swept>>
<1> USE DEF StoreInv
<1>0. t \in Tasks /\ t \notin Spends
  BY StoreAssumption DEF StoreAssumption, Tasks
<1>1. UNCHANGED <<backend, phase, spentOk, today, swept>> /\ phase = "run"
  BY DEF ReserveRead, ReserveStore, FileWrites, Running, HandedOut, openVars, ghostVars
<1>2. \A r \in Spends : at'[r] = at[r] /\ number'[r] = number[r]
  BY <1>0 DEF ReserveRead, ReserveStore, FileWrites, Goto, TypeOK, Tasks
<1>3. CASE ReserveRead(t)
  <2>1. View' = View /\ Durable' = Durable
    BY <1>1, <1>3 DEF ReserveRead, View, Durable, dataVars
  <2> QED
    BY <1>1, <1>2, <2>1 DEF SpendStays
<1>4. CASE ReserveStore(t)
  <2> DEFINE new == [mem EXCEPT !.counter = number[t] + 1]
  <2>1. new.spend = mem.spend
    BY DEF TypeOK, Data
  <2> HIDE DEF new
  <2>2. CASE FileWrites(t, new, HandedOut(number[t]))
    <3>1. backend = "file" /\ mem' = new /\ file' \in {file, new}
      BY <2>2 DEF FileWrites, Running
    <3> QED
      BY <1>1, <1>2, <2>1, <3>1 DEF SpendStays, View, Durable
  <2>3. CASE ~FileWrites(t, new, HandedOut(number[t]))
    <3>1. db'.spend = db.spend /\ backend # "file"
      BY <1>4, <2>3 DEF ReserveStore, new, TypeOK, Data
    <3> QED
      BY <1>1, <1>2, <3>1 DEF SpendStays, View, Durable
  <2> QED
    BY <2>2, <2>3
<1> QED
  BY <1>3, <1>4

\* A step that is none of a day's sum keeps what counts.
LEMMA DaySpendKept ==
    ASSUME StoreInv, StoreInv', DaySpend, SpendStays, backend' = backend, UNCHANGED <<today, swept>>
    PROVE  DaySpend'
<1>1. phase' = "run" /\ phase # "run" => swept \/ spentOk[today] <= View'.spend[today]
  BY DEF DaySpend, SpendStays
<1>2. phase' = "run" => swept \/ spentOk[today] <= View'.spend[today]
  BY <1>1 DEF DaySpend, SpendStays
<1>3. swept \/ spentOk[today] <= Durable'.spend[today]
  BY DEF DaySpend, SpendStays
<1>4. \A d \in Days : d > today' => spentOk'[d] = 0
  BY DEF DaySpend, SpendStays
<1>5. \A t \in Spends : at'[t] = "half" => backend' # "file" /\ number'[t] <= today'
  BY DEF DaySpend, SpendStays
<1> QED
  BY <1>2, <1>3, <1>4, <1>5 DEF DaySpend, SpendStays

\* A step of addDailySpend keeps what counts.
LEMMA SpendKeepsDaySpend ==
    ASSUME StoreInv, DaySpend, NEW t \in Spends, FileSpend(t) \/ DbSpend(t) \/ DbSpendCleanup(t)
    PROVE  DaySpend'
<1> USE DEF StoreInv
<1>0. t \in Tasks /\ phase = "run" /\ phase' = "run" /\ backend' = backend /\ today' = today
      /\ today \in Days /\ Days \subseteq Nat
  BY StoreAssumption
  DEF StoreAssumption, FileSpend, FileWrites, Running, DbSpend, DbSpendCleanup, openVars, Tasks, TypeOK
<1>1. spentOk[today] \in Nat /\ mem.spend[today] \in Nat /\ db.spend[today] \in Nat
      /\ file.spend[today] \in Nat
  BY <1>0 DEF TypeOK, Data
<1>2. ASSUME Spent
      PROVE  /\ spentOk'[today] = spentOk[today] + 1 /\ swept' = swept
             /\ \A d \in Days : d > today => spentOk'[d] = 0
  BY <1>0, <1>2 DEF Spent, TypeOK, DaySpend
<1>3. CASE FileSpend(t)
  <2> DEFINE new == [mem EXCEPT !.spend = [d \in Days |-> IF d < today THEN 0
                               ELSE IF d = today THEN @[d] + 1 ELSE @[d]]]
  <2>1. new.spend[today] = mem.spend[today] + 1
    BY <1>0 DEF TypeOK, Data
  <2> HIDE DEF new
  <2>2. FileWrites(t, new, Spent)
    BY <1>3 DEF FileSpend, new
  <2>3. backend = "file" /\ mem' = new
        /\ (\/ file' = new /\ Spent
            \/ file' = file /\ UNCHANGED ghostVars)
    BY <2>2 DEF FileWrites, Running
  <2>4. \A s \in Spends : at'[s] # "half"
    BY <2>2, <2>3 DEF FileWrites, Goto, DaySpend, TypeOK, Tasks
  <2>5. CASE file' = new /\ Spent
    <3>1. swept' \/ spentOk'[today] <= new.spend[today]
      BY <1>0, <1>1, <1>2, <2>1, <2>3, <2>5 DEF DaySpend, View
    <3> QED
      BY <1>0, <1>2, <2>3, <2>4, <2>5, <3>1 DEF DaySpend, View, Durable
  <2>6. CASE file' = file /\ UNCHANGED ghostVars
    <3>1. swept \/ spentOk[today] <= new.spend[today]
      BY <1>0, <1>1, <2>1, <2>3 DEF DaySpend, View
    <3> QED
      BY <1>0, <2>3, <2>4, <2>6, <3>1 DEF DaySpend, View, Durable, ghostVars
  <2> QED
    BY <2>3, <2>5, <2>6
<1>4. CASE DbSpend(t)
  <2>1. backend # "file" /\ Spent /\ db'.spend[today] = db.spend[today] + 1
        /\ \A s \in Spends : (at'[s] = "half" => s = t \/ at[s] = "half")
                             /\ number'[s] = IF s = t THEN today ELSE number[s]
    BY <1>4 DEF DbSpend, Goto, TypeOK, Data, Tasks
  <2>2. swept' \/ spentOk'[today] <= db'.spend[today]
    BY <1>0, <1>1, <1>2, <2>1 DEF DaySpend, View
  <2>3. \A s \in Spends : at'[s] = "half" => number'[s] <= today
    BY <1>0, <2>1 DEF DaySpend
  <2> QED
    BY <1>0, <1>2, <2>1, <2>2, <2>3 DEF DaySpend, View, Durable
<1>5. CASE DbSpendCleanup(t)
  <2>1. backend # "file" /\ spentOk' = spentOk /\ number' = number
        /\ db'.spend[today] = (IF today = number[t] THEN db.spend[today] ELSE 0)
        /\ \A s \in Spends : at'[s] = "half" => at[s] = "half"
    BY <1>0, <1>5 DEF DbSpendCleanup, Goto, TypeOK, Data, Tasks
  <2>2. swept' <=> (swept \/ number[t] # today)
    BY <1>5 DEF DbSpendCleanup
  <2>3. swept' \/ spentOk[today] <= db'.spend[today]
    BY <1>0, <2>1, <2>2 DEF DaySpend, View
  <2> QED
    BY <1>0, <2>1, <2>3 DEF DaySpend, View, Durable
<1> QED
  BY <1>3, <1>4, <1>5

\* What addDailySpend has acknowledged counts for the rest of the day, crash or
\* not, unless a MySQL call from before midnight cleans up after it.
THEOREM SpendIsCountedTheorem == Spec => []SpendIsCounted
<1>1. Init => DaySpend
  BY StoreAssumption DEF StoreAssumption, Init, DaySpend, Durable, Old, Blank, NoSpend, Tasks
<1>2. StoreInv /\ StoreInv' /\ DaySpend /\ [Next]_vars => DaySpend'
  <2> SUFFICES ASSUME StoreInv, StoreInv', DaySpend, [Next]_vars PROVE DaySpend'
    OBVIOUS
  <2>1. backend' = backend
    BY FileStays
  <2>2. CASE \E t \in Reserves : ReserveRead(t) \/ ReserveStore(t)
    BY <2>1, <2>2, ReserveLeavesSpend, DaySpendKept
  <2>3. CASE \E t \in Spends : FileSpend(t) \/ DbSpend(t) \/ DbSpendCleanup(t)
    BY <2>3, SpendKeepsDaySpend
  <2>4. CASE Midnight
    <3>1. today' = today + 1 /\ today' \in Days /\ Days \subseteq Nat /\ today \in Days
          /\ UNCHANGED <<backend, phase, file, mem, db, at, number, spentOk>>
      BY <2>4, StoreAssumption
      DEF StoreAssumption, StoreInv, TypeOK, Midnight, openVars, dataVars, taskVars
    <3>2. spentOk'[today'] = 0
      BY <3>1 DEF DaySpend
    <3>3. Durable'.spend[today'] \in Nat /\ View'.spend[today'] \in Nat
      BY <3>1 DEF StoreInv, TypeOK, Data, Durable, View
    <3>4. \A t \in Spends : number[t] <= today => number[t] <= today'
      BY <3>1 DEF StoreInv, TypeOK
    <3>5. \A d \in Days : d > today' => spentOk'[d] = 0
      BY <3>1 DEF DaySpend
    <3> QED
      BY <3>1, <3>2, <3>3, <3>4, <3>5 DEF DaySpend
  <2> QED
    BY <2>1, <2>2, <2>3, <2>4, QuietStep, DaySpendKept
<1>3. StoreInv /\ DaySpend => SpendIsCounted
  <2> SUFFICES ASSUME StoreInv, DaySpend, phase = "run" PROVE View.spend[today] >= spentOk[today] \/ swept
    BY DEF SpendIsCounted
  <2>1. View.spend[today] \in Nat /\ spentOk[today] \in Nat
    BY DEF StoreInv, TypeOK, Data, View
  <2> QED
    BY <2>1 DEF DaySpend
<1> QED
  BY <1>1, <1>2, <1>3, StoreInvariant, PTL DEF Spec
=============================================================================
