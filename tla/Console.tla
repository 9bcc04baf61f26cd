------------------------------- MODULE Console -------------------------------
(***************************************************************************)
(* The browser console's page of connections over ApiServer: lists that are *)
(* fetched by a timer and after each action and may arrive in any order,    *)
(* the revoke dialog, the dialog that shows a connection's string, creation *)
(* through the wizard, a token that a restart of the service invalidates.   *)
(***************************************************************************)
EXTENDS ApiServer

CONSTANTS
    Fetches,    \* list requests that may be under way at once
    MaxOpens    \* bound: how often a dialog is opened

ASSUME ConsoleAssumption == MaxOpens \in Nat

VARIABLES
    page,       \* the token in localStorage
    view,       \* connectionsStore.connections
    fetch,      \* what each list request brings: nothing, an error or a list
    target,     \* revokeTarget, with the row it was picked from
    shown,      \* nwcModalConn: the connection and the string shown for it
    strings,    \* answers to export?id=... that are under way
    opens

pageVars == <<page, view, fetch, target, shown, strings, opens>>
vars == <<srvVars, pageVars>>

NoFetch == [got |-> "nothing", list |-> <<>>]
Denied  == [got |-> "error", list |-> <<>>]
Got(l)  == [got |-> "list", list |-> l]
NoTarget == [key |-> None, pos |-> 0]
NoModal == [key |-> None, string |-> None]

\* The page of connections is opened, or has shown its list before.
Init ==
    /\ SrvInit
    /\ page = Token /\ view \in {<<>>, Listed}
    /\ fetch = [f \in Fetches |-> NoFetch]
    /\ target = NoTarget
    /\ shown = NoModal /\ strings = {} /\ opens = 0

Authorised == page = Token

-----------------------------------------------------------------------------
(* The list *)

\* GET /connections reaches the service, from the timer or after an action.
Fetch(f) ==
    /\ fetch[f] = NoFetch
    /\ fetch' = [fetch EXCEPT ![f] = IF Authorised THEN Got(Listed) ELSE Denied]
    /\ UNCHANGED <<srvVars, page, view, target, shown, strings, opens>>

\* The answer arrives: the list is replaced, an error leaves it as it is.
Arrive(f) ==
    /\ fetch[f] # NoFetch
    /\ view' = IF fetch[f] = Denied THEN view ELSE fetch[f].list
    /\ fetch' = [fetch EXCEPT ![f] = NoFetch]
    /\ UNCHANGED <<srvVars, page, target, shown, strings, opens>>

\* Mutant: a page with a token asks for no other.
ReloadKeepsToken ==
    /\ ~Authorised
    /\ view' = <<>> /\ fetch' = [f \in Fetches |-> NoFetch]
    /\ target' = NoTarget /\ shown' = NoModal /\ strings' = {}
    /\ UNCHANGED <<srvVars, page, opens>>

\* A page that shows it has lost the service is loaded again: status, 401, and
\* the token the bootstrap gives a local browser.
Reload ==
    /\ ~Authorised
    /\ page' = Token
    /\ view' = <<>> /\ fetch' = [f \in Fetches |-> NoFetch]
    /\ target' = NoTarget /\ shown' = NoModal /\ strings' = {}
    /\ UNCHANGED <<srvVars, opens>>

-----------------------------------------------------------------------------
(* The dialogs *)

\* The wizard's last step posts; so may the command line.
WizardCreate(r) == Authorised /\ Create(r) /\ UNCHANGED pageVars

OpenRevoke(i) ==
    /\ target = NoTarget /\ opens < MaxOpens
    /\ opens' = opens + 1
    /\ target' = [key |-> view[i], pos |-> i]
    /\ UNCHANGED <<srvVars, page, view, fetch, shown, strings>>

CloseRevoke ==
    /\ target # NoTarget /\ target' = NoTarget
    /\ UNCHANGED <<srvVars, page, view, fetch, shown, strings, opens>>

\* Mutant: the row of the list as it is now.
RevokeTargetRow == IF target.pos \in DOMAIN view THEN view[target.pos] ELSE target.key

\* confirmRevoke passes the public key of the row the dialog was opened on.
RevokeTarget == target.key

ConfirmRevoke ==
    /\ target # NoTarget /\ Authorised
    /\ Delete(RevokeTarget)
    /\ target' = NoTarget
    /\ UNCHANGED <<page, view, fetch, shown, strings, opens>>

\* The dialog opens with what the list has; the string comes from the export,
\* asked for by the row's number.
OpenString(i) ==
    /\ opens < MaxOpens /\ Authorised
    /\ opens' = opens + 1
    /\ shown' = [key |-> view[i], string |-> None]
    /\ strings' = strings \cup Exported(i)
    /\ UNCHANGED <<srvVars, page, view, fetch, target>>

\* Its answer is put into whatever dialog is open.
StringArrives(k) ==
    /\ k \in strings
    /\ strings' = strings \ {k}
    /\ shown' = [shown EXCEPT !.string = k]
    /\ UNCHANGED <<srvVars, page, view, fetch, target, opens>>

-----------------------------------------------------------------------------
Service == SrvNext /\ UNCHANGED pageVars

Next ==
    \/ Service
    \/ \E r \in Creates : WizardCreate(r)
    \/ \E f \in Fetches : Fetch(f) \/ Arrive(f)
    \/ Reload
    \/ \E i \in DOMAIN view : OpenRevoke(i) \/ OpenString(i)
    \/ CloseRevoke \/ ConfirmRevoke
    \/ \E k \in Keys : StringArrives(k)

Spec == Init /\ [][Next]_vars

\* Awaits settle, the timer ticks, an answer arrives or is given up, and the
\* operator reloads a page that has lost the service.
Fairness ==
    /\ \A r \in Requests : WF_vars(Handler(r) /\ UNCHANGED pageVars)
    /\ \A k \in Keys : WF_vars(RevokeStored(k) /\ UNCHANGED pageVars)
    /\ \A f \in Fetches : WF_vars(Fetch(f)) /\ WF_vars(Arrive(f))
    /\ WF_vars(Reload)

FairSpec == Spec /\ Fairness

-----------------------------------------------------------------------------
(* Properties *)

\* Every variable holds a value of its kind.
TypeOK ==
    /\ SrvTypeOK
    /\ page \in Nat /\ view \in Seq(Keys)
    /\ fetch \in [Fetches -> [got : {"nothing", "error", "list"}, list : Seq(Keys)]]
    /\ target \in [key : Keys \cup {None}, pos : Nat]
    /\ shown \in [key : Keys \cup {None}, string : Keys \cup {None}]
    /\ strings \in SUBSET Keys /\ opens \in Nat

\* The console revokes only the connection the operator opened the dialog on,
\* although rows come, go and move in the list while it is open.
RevokeHitsChosen ==
    [][\A k \in Keys : info'[k].revoked /\ ~info[k].revoked => k = target.key]_vars

\* Whatever order answers arrive in and however the service was restarted, the
\* list ends up showing the connections there are.
ListConverges == <>[](view = Listed)

\* The dialog shows the string of the connection it was opened on.
ShownIsChosen == shown.string \in {None, shown.key}

\* "To see it again: nutbits connections <id>": the number the reply gives is
\* the one the export knows the new connection by.
SeenAgain ==
    \A r \in Creates :
        (at[r] = "answered" /\ ~row[r].revoked) => Exported(ReplyId(r)) = {r}
=============================================================================
