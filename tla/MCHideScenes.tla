---------------------------- MODULE MCHideScenes ----------------------------
(* Two scenes of HideList in one run: two clients at a time, who name the   *)
(* processes of one package, and one client at a time, who names every kind *)
(* of target.                                                               *)
EXTENDS MCHideList

VARIABLE scene

SceneTargets == MCTwoTargets \cup MCTargets
SceneValid == MCTwoTargets \cup MCValid

TwoClients ==
    /\ \A t \in Threads : arg[t] \subseteq MCTwoTargets
    /\ db \subseteq MCTwoTargets /\ installed \subseteq {"app"}
OneClient == Cardinality({t \in Threads : pc[t] # "idle"}) <= 1

ScenesInit == HistInit /\ ((scene = "two" /\ TwoClients) \/ (scene = "one" /\ OneClient))
ScenesNext == HistNext /\ UNCHANGED scene /\ IF scene = "two" THEN TwoClients' ELSE OneClient'
ScenesSpec == ScenesInit /\ [][ScenesNext]_<<vars, crowded, scene>>
=============================================================================
