------------------------------ MODULE CommandLine ------------------------------
(***************************************************************************)
(* The commands of nutbits, typed in a shell or started from the terminal UI: *)
(* each reads what it needs, asks the operator, and sends one request.  The   *)
(* operator names a connection by the number seen in an earlier listing, or   *)
(* picks it from the command's own.  A request is waited for fifteen seconds; *)
(* the service carries it out all the same.                                  *)
(***************************************************************************)
EXTENDS Service

CONSTANTS
    Operators,
    Commands,   \* those used in this instance
    Cancelled,  \* what an escaped prompt comes back with
    Amounts,    \* sats that may be asked for
    Waits,      \* bound: whether a request may outlast the client's patience
    MaxCommands \* bound: commands run

AllCommands == {"connections", "detail", "connect", "revoke", "fund", "withdraw", "restore"}

ASSUME CommandAssumption ==
    /\ Commands \subseteq AllCommands /\ Amounts \subseteq Nat \ {0}
    /\ Waits \in BOOLEAN /\ MaxCommands \in Nat

VARIABLES
    seen,   \* seen[s]: the numbers of connections that shell s was shown last
    cmd,    \* cmd[s]: the command it runs
    posts,  \* requests at the service (by: the shell that waits, if it still does)
    typed   \* commands so far

commandVars == <<seen, cmd, posts, typed>>

NoKey == "none"
NoCommand == [kind |-> "none", step |-> "shell", want |-> NoKey, arg |-> 0, force |-> FALSE,
              list |-> {}, key |-> NoKey, sum |-> 0]

CommandInit ==
    /\ seen = [s \in Operators |-> {}] /\ cmd = [s \in Operators |-> NoCommand]
    /\ posts = {} /\ typed = 0

-----------------------------------------------------------------------------
(* Prompts: what each may come back with.  Escape cancels all of them.      *)

select(options)  == options \cup {Cancelled}
multiSelect(all) == SUBSET all \cup {Cancelled}
input(valid)     == valid \cup {Cancelled}
confirm          == BOOLEAN \cup {Cancelled}

Step(s, c)  == cmd' = [cmd EXCEPT ![s] = c]
Back(s) == Step(s, NoCommand)
StaysServed == UNCHANGED serviceVars

-----------------------------------------------------------------------------
(* Commands that only show something *)

Ids(rows_) == {<<r.id, r.key>> : r \in ToSet(rows_)}

TypeNext == typed < MaxCommands /\ typed' = typed + 1

\* nutbits connections
List(s) ==
    /\ "connections" \in Commands /\ cmd[s].kind = "none" /\ running /\ TypeNext
    /\ seen' = [seen EXCEPT ![s] = Ids(ConnectionsAnswer)]
    /\ UNCHANGED <<cmd, posts>> /\ StaysServed

\* nutbits connections <label>: the first of the export's.
Detail(s, c) ==
    LET found == ExportAnswer(Label[c])
    IN  /\ "detail" \in Commands /\ cmd[s].kind = "none" /\ running /\ TypeNext
        /\ seen' = [seen EXCEPT ![s] = IF found = <<>> THEN @ ELSE Ids(<<found[1]>>)]
        /\ UNCHANGED <<cmd, posts>> /\ StaysServed

-----------------------------------------------------------------------------
(* Commands on a connection *)

OnOne == {"revoke", "fund", "withdraw"} \cap Commands

\* The operator means connection c, and names it by its number or not at all.
Type(s, kind, c, arg, force) ==
    /\ cmd[s].kind = "none" /\ TypeNext
    /\ Step(s, [NoCommand EXCEPT !.kind = kind, !.step = "fetching", !.want = c, !.arg = arg,
                                 !.force = force])
    /\ UNCHANGED <<seen, posts>> /\ StaysServed

\* The rows a command is about.
Offered(kind) ==
    {r \in ToSet(ConnectionsAnswer) :
        /\ kind \in {"fund", "withdraw"} => r.dedicated
        /\ kind = "withdraw" => r.sats > 0}

Numbered(list, arg) == {r \in list : r.id = arg}

\* With a number: the row that has it now.
Chosen(c, r) ==
    [c EXCEPT !.key = r.key, !.step = IF c.kind # "revoke" THEN "amount"
                                      ELSE IF c.force THEN "sending" ELSE "confirming"]

Fetch(s) ==
    LET c == cmd[s]
        list == Offered(c.kind)
    IN  /\ c.step = "fetching" /\ UNCHANGED <<seen, posts, typed>> /\ StaysServed
        /\ \/ /\ running /\ list # {}
              /\ \/ c.arg = 0 /\ Step(s, [c EXCEPT !.step = "selecting", !.list = list])
                 \/ c.arg # 0 /\ (\E r \in Numbered(list, c.arg) : Step(s, Chosen(c, r)))
                 \/ c.arg # 0 /\ Numbered(list, c.arg) = {} /\ Back(s)
           \/ running /\ list = {} /\ Back(s)
           \/ Back(s)

\* The operator picks the connection by its label, or leaves it.
Select(s) ==
    LET c == cmd[s]
    IN  /\ c.step = "selecting" /\ UNCHANGED <<seen, posts, typed>> /\ StaysServed
        /\ \E choice \in select(c.list) :
              \/ choice = Cancelled /\ Back(s)
              \/ /\ choice # Cancelled /\ choice.label = Label[c.want]
                 /\ Step(s, [Chosen(c, choice) EXCEPT !.list = {}])

\* "Revoke <label>?": the operator agrees when that is the one.
Confirm(s) ==
    LET c == cmd[s]
    IN  /\ c.step = "confirming" /\ UNCHANGED <<seen, posts, typed>> /\ StaysServed
        /\ \E ok \in confirm :
              \/ /\ ok = TRUE /\ Label[c.key] = Label[c.want]
                 /\ Step(s, [c EXCEPT !.step = "sending"])
              \/ ok # TRUE /\ Back(s)

\* Fund asks for a sum; withdraw may ask for all there is, which is sent as 0.
Amount(s) ==
    LET c == cmd[s]
    IN  /\ c.step = "amount" /\ UNCHANGED <<seen, posts, typed>> /\ StaysServed
        /\ \E n \in input(Amounts \cup IF c.kind = "withdraw" THEN {0} ELSE {}) :
              \/ n = Cancelled /\ Back(s)
              \/ n # Cancelled /\ Step(s, [c EXCEPT !.step = "sending", !.sum = n])

-----------------------------------------------------------------------------
(* nutbits connect: a name, permissions, the kind of balance, limits, an     *)
(* address, a mint, and a last question.                                    *)

\* A shared balance has to be asked for twice, and every question answered.
Dedicated(a) == a.choice \/ a.sure # TRUE
Answers == [perms : multiSelect({"pay", "receive"}), choice : select(BOOLEAN),
            sure : confirm, ok : confirm]
Goes(a) == a.perms \notin {Cancelled, {}} /\ a.choice # Cancelled /\ a.ok = TRUE
Wanted == {Dedicated(a) : a \in {a \in Answers : Goes(a)}}

connect(s, c) ==
    /\ "connect" \in Commands /\ cmd[s].kind = "none" /\ TypeNext
    /\ \/ (c \in Isolated) \in Wanted
          /\ Step(s, [NoCommand EXCEPT !.kind = "connect", !.step = "sending", !.want = c, !.key = c])
       \/ (\E a \in Answers : ~Goes(a)) /\ Back(s)
    /\ UNCHANGED <<seen, posts>> /\ StaysServed

restore(s) ==
    /\ "restore" \in Commands /\ cmd[s].kind = "none" /\ TypeNext
    /\ \E ok \in confirm :
          \/ ok = TRUE /\ Step(s, [NoCommand EXCEPT !.kind = "restore", !.step = "sending"])
          \/ ok # TRUE /\ Back(s)
    /\ UNCHANGED <<seen, posts>> /\ StaysServed

-----------------------------------------------------------------------------
(* Requests *)

Send(s) ==
    LET c == cmd[s]
    IN  /\ c.step = "sending" /\ UNCHANGED <<seen, typed>> /\ StaysServed
        /\ \/ /\ running /\ posts' = posts \cup {[by |-> s, c |-> c, nth |-> typed]}
              /\ Step(s, [c EXCEPT !.step = "waiting"])
           \/ ~running /\ UNCHANGED posts /\ Back(s)

Reply(p) ==
    IF p.by \in Operators THEN Back(p.by) ELSE UNCHANGED cmd

\* The connection a request is about.  Mutant: the number is looked up again.
TargetByNumber(p) ==
    IF p.c.arg \in DOMAIN ConnectionsAnswer THEN ConnectionsAnswer[p.c.arg].key ELSE p.c.key
Target(p) == p.c.key

\* What is done for it, when nothing forbids it.
Done(p) ==
    LET k == Target(p)
        n == p.c.sum
    IN  CASE p.c.kind = "connect"  -> CreateRow(k)
          [] p.c.kind = "revoke"   -> RevokeRow(k)
          [] p.c.kind = "fund"     -> CanFund(k, n) /\ Allot(k, allot[k] + n)
          [] p.c.kind = "withdraw" -> CanWithdraw(k, n) /\ Allot(k, allot[k] - Withdrawn(k, n))

RequestRefused(p) ==
    CASE p.c.kind = "connect"  -> p.c.key \in ToSet(rows)
      [] p.c.kind = "revoke"   -> FALSE
      [] p.c.kind = "fund"     -> ~CanFund(Target(p), p.c.sum)
      [] p.c.kind = "withdraw" -> ~CanWithdraw(Target(p), p.c.sum)
      [] p.c.kind = "restore"  -> restoring

\* A request is carried out, or refused.
Serve(p) ==
    /\ running /\ UNCHANGED <<seen, typed>>
    /\ \/ p.c.kind # "restore" /\ Done(p) /\ posts' = posts \ {p} /\ Reply(p)
       \/ /\ p.c.kind = "restore" /\ p.c.step = "sending" /\ RestoreBegins
          /\ posts' = (posts \ {p}) \cup {[p EXCEPT !.c.step = "running"]}
          /\ UNCHANGED cmd
       \/ /\ p.c.step = "running" /\ RestoreEnds /\ posts' = posts \ {p} /\ Reply(p)
       \/ /\ p.c.step = "sending" /\ RequestRefused(p) /\ posts' = posts \ {p} /\ Reply(p)
          /\ StaysServed

\* Fifteen seconds have passed, or the service has gone with the request.
TimesOut(s) ==
    /\ cmd[s].step = "waiting" /\ Back(s)
    /\ Waits \/ ~running
    /\ posts' = {IF p.by = s THEN [p EXCEPT !.by = NoKey] ELSE p : p \in posts}
    /\ UNCHANGED <<seen, typed>> /\ StaysServed

\* What a stopped service had not done it never does.
Dropped ==
    /\ ~running /\ \E p \in posts : p.by = NoKey /\ posts' = posts \ {p}
    /\ UNCHANGED <<seen, cmd, typed>> /\ StaysServed

CommandSteps ==
    \/ \E s \in Operators :
        \/ List(s) \/ (\E c \in Conns : Detail(s, c) \/ connect(s, c)) \/ restore(s)
        \/ \E kind \in OnOne, force \in BOOLEAN :
              /\ force => kind = "revoke"
              /\ \/ \E n \in seen[s] : Type(s, kind, n[2], n[1], force)
                 \/ \E c \in ToSet(Live) : Type(s, kind, c, 0, force)
        \/ Fetch(s) \/ Select(s) \/ Confirm(s) \/ Amount(s) \/ Send(s) \/ TimesOut(s)
    \/ \E p \in posts : Serve(p)
    \/ Dropped

CommandNext == CommandSteps \/ (ServiceSteps /\ UNCHANGED commandVars)

CommandSpec == ServiceInit /\ CommandInit /\ [][CommandNext]_<<serviceVars, commandVars>>

-----------------------------------------------------------------------------

Served(p) == p \in posts /\ p \notin posts' /\ running'
Touched(k) == k \in revoked' \ revoked \/ allot'[k] # allot[k]

\* A connection that was shown to the operator, picked from the command's list or
\* named in its question, is the one that is revoked, funded or withdrawn from,
\* whatever is made, revoked or renumbered until the request is carried out.
ActsOnShown ==
    [][\A p \in posts :
          /\ Served(p) /\ p.c.kind \in OnOne
          /\ p.c.arg = 0 \/ (p.c.kind = "revoke" /\ ~p.c.force)
          => \A k \in Conns : Touched(k) => Label[k] = Label[p.c.want]]_serviceVars

-----------------------------------------------------------------------------
(* What the commands say and does not hold; checked in configurations of    *)
(* their own.                                                              *)

\* The number of the last listing is the connection's.
ActsOnNamed ==
    [][\A p \in posts :
          Served(p) /\ p.c.kind \in OnOne =>
            \A k \in Conns : Touched(k) => k = p.c.want]_serviceVars

\* "Failed": nothing was done.
FailedIsUndone ==
    [][\A p \in posts : Served(p) /\ p.by = NoKey => UNCHANGED <<rows, revoked, allot, sats>>]_serviceVars
=============================================================================
