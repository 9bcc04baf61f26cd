------------------------------ MODULE MCClients ------------------------------
(***************************************************************************)
(* The terminal UI's panels, its charts and the commands of a shell, over    *)
(* one service: a behaviour has one of the three, chosen at the start.       *)
(***************************************************************************)
EXTENDS Panels, CommandLine

CONSTANTS c1, c2, m1, m2, Twins

TwoMints == <<m1, m2>>
OldRows == <<c1, c2>>
Names == [c \in Conns |-> IF Twins THEN "same" ELSE ToString(c)]

\* A payment with its fee, and one of the API's.
OldLog == <<[by |-> c1, way |-> "out", state |-> "settled", fee |-> 1],
            [by |-> c1, way |-> "in", state |-> "pending", fee |-> 0],
            [by |-> Api, way |-> "out", state |-> "failed", fee |-> 0]>>

Symmetry == Permutations(Operators)

VARIABLE scene

clientVars == <<scene, serviceVars, panelVars, commandVars>>

ClientsInit ==
    /\ ServiceInit /\ PanelsInit /\ CommandInit /\ scene \in {"panels", "charts", "shell"}

ClientsNext ==
    /\ UNCHANGED scene
    /\ \/ scene = "panels" /\ ServiceSteps /\ UNCHANGED <<panelVars, commandVars>>
       \/ scene = "shell" /\ (ServiceStops \/ ServiceStarts \/ \E m \in ToSet(Sites) : Failover(m))
          /\ UNCHANGED <<panelVars, commandVars>>
       \/ /\ scene = "panels" /\ UNCHANGED <<serviceVars, commandVars>>
          /\ Splash \/ Answered \/ Fails \/ Drawn \/ \E p \in Opened : Open(p)
       \/ /\ scene = "charts" /\ UNCHANGED <<serviceVars, commandVars>>
          /\ Splash \/ \E k \in Collectors : CollectData(k)
       \/ /\ scene = "charts" /\ UNCHANGED <<panelVars, commandVars>>
          /\ \/ Invoice(Api) \/ \E c \in ToSet(Live) : Spend(c, TRUE)
             \/ ServiceStops \/ ServiceStarts \/ \E c \in ToSet(Live) : RevokeRow(c)
       \/ scene = "shell" /\ CommandSteps /\ UNCHANGED panelVars

ClientsSpec == ClientsInit /\ [][ClientsNext]_clientVars
=============================================================================
