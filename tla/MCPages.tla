------------------------------- MODULE MCPages -------------------------------
(***************************************************************************)
(* The console's page of connections, the dealings with money and those who  *)
(* read the log, in one instance: they share no state, so a behaviour is one *)
(* of Console, of MoneyPages or of LogTail, chosen at the start, while the    *)
(* other two stand still.                                                   *)
(***************************************************************************)
EXTENDS Console, MoneyPages, LogTail

CONSTANTS i1, i2, c1

\* The store lists rows by their keys.
ByKey == <<i2, c1, i1>>

VARIABLE scene

pagesVars == <<scene, vars, moneyVars, logVars>>

PagesInit ==
    /\ scene \in {"connections", "money", "log"}
    /\ Init /\ MoneyInit /\ LogInit
    \* what stands still stands in one place
    /\ scene # "connections" => view = Listed
    /\ scene # "money" => /\ active = CHOOSE m \in Mints : TRUE
                          /\ tool = CHOOSE t \in Tools : TRUE
    /\ scene # "log" => viewer = CHOOSE v \in Viewers : TRUE

PagesNext ==
    \/ scene = "connections" /\ Next /\ UNCHANGED <<scene, moneyVars, logVars>>
    \/ scene = "money" /\ MoneyNext /\ UNCHANGED <<scene, vars, logVars>>
    \/ scene = "log" /\ LogNext /\ UNCHANGED <<scene, vars, moneyVars>>

\* Console's fairness, of steps that are enabled where it stands still only in
\* name: there the page asks for nothing.
PagesFairness ==
    /\ \A r \in Requests : WF_vars(Handler(r) /\ UNCHANGED pageVars)
    /\ \A k \in Keys : WF_vars(RevokeStored(k) /\ UNCHANGED pageVars)
    /\ \A f \in Fetches : WF_vars(scene = "connections" /\ Fetch(f)) /\ WF_vars(Arrive(f))
    /\ WF_vars(Reload)
    /\ MoneyFairness /\ LogFairness

PagesSpec == PagesInit /\ [][PagesNext]_pagesVars /\ PagesFairness
=============================================================================
