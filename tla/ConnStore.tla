------------------------------ MODULE ConnStore ------------------------------
(***************************************************************************)
(* What the rest of NUTbits relies on when it calls updateConnection, on     *)
(* whichever backend: while the call runs its fields are written; when it    *)
(* returns without an error all have been and are durable; a crash leaves    *)
(* what is durable, and a restart reads exactly that.                        *)
(*                                                                         *)
(* It does not promise that the fields of one call are written together,    *)
(* nor that a call that fails wrote none.  Where calls overlap, a call may   *)
(* write the other fields back as it read them, once it was under way.       *)
(***************************************************************************)
EXTENDS Naturals

CONSTANTS
    Fields,    \* the fields of a connection's record
    Updates,   \* calls of updateConnection
    Writes,    \* the fields each of them writes
    Origin,    \* what a field may hold before any of them
    Nothing    \* before the first start there is no record

VARIABLES
    overlap,   \* calls may overlap in this store
    open,      \* the store is initialised
    seen,      \* the record a reader gets
    durable,   \* the record a restart would get
    status,    \* of each call: "idle", "called", "ok", "failed", "lost"
    todo,      \* the fields a call has still to write
    read       \* the record as a call has read it

vars == <<overlap, open, seen, durable, status, todo, read>>

Records == [Fields -> Updates \cup Origin]

Init ==
    /\ overlap \in BOOLEAN
    /\ open = FALSE
    /\ seen = Nothing /\ durable = Nothing
    /\ status = [u \in Updates |-> "idle"]
    /\ todo = Writes
    /\ read = [u \in Updates |-> Nothing]

\* The first start finds or makes a record; a later one reads the durable one.
Open ==
    /\ ~open
    /\ open' = TRUE
    /\ durable' \in (IF durable = Nothing THEN Records ELSE {durable})
    /\ seen' = durable'
    /\ UNCHANGED <<overlap, status, todo, read>>

Call(u) ==
    /\ open
    /\ status[u] = "idle"
    /\ status' = [status EXCEPT ![u] = "called"]
    /\ UNCHANGED <<overlap, open, seen, durable, todo, read>>

Read(u) ==
    /\ open
    /\ status[u] = "called"
    /\ read' = [read EXCEPT ![u] = seen]
    /\ UNCHANGED <<overlap, open, seen, durable, status, todo>>

\* Some of the call's fields are written, and where calls overlap some of the
\* others are written back.  The call returns when its fields have all been
\* written and are durable, or it fails, which may leave them in memory alone.
Write(u) ==
    /\ open
    /\ status[u] = "called"
    /\ \E F \in SUBSET Writes[u], G \in SUBSET (Fields \ Writes[u]) :
         /\ G # {} => overlap /\ read[u] # Nothing
         /\ seen' = [f \in Fields |-> IF f \in F THEN u ELSE IF f \in G THEN read[u][f] ELSE seen[f]]
         /\ durable' \in {durable, seen'}
         /\ \/ /\ todo' \in {todo, [todo EXCEPT ![u] = @ \ F]} /\ todo'[u] # {}
               /\ UNCHANGED status
            \/ /\ todo[u] \subseteq F /\ durable' = seen'
               /\ todo' = [todo EXCEPT ![u] = {}]
               /\ status' = [status EXCEPT ![u] = "ok"]
            \/ /\ todo' = [todo EXCEPT ![u] = {}]
               /\ status' = [status EXCEPT ![u] = "failed"]
    /\ UNCHANGED <<overlap, open, read>>

\* The file store writes the whole state now and then.
Sync ==
    /\ open
    /\ durable' = seen
    /\ UNCHANGED <<overlap, open, seen, status, todo, read>>

Crash ==
    /\ open
    /\ open' = FALSE
    /\ seen' = durable
    /\ status' = [u \in Updates |-> IF status[u] = "called" THEN "lost" ELSE status[u]]
    /\ todo' = [u \in Updates |-> IF status[u] = "called" THEN {} ELSE todo[u]]
    /\ UNCHANGED <<overlap, durable, read>>

Next == Open \/ Sync \/ Crash \/ \E u \in Updates : Call(u) \/ Read(u) \/ Write(u)

Spec == Init /\ [][Next]_vars
=============================================================================
