----------------------------- MODULE MCSuScenes -----------------------------
(* Two scenes of SuAccess in one run: several requests of two apps that     *)
(* race through the cache, and one request of every kind of uid under every *)
(* setting while the database changes.                                      *)
EXTENDS MCSuAccess, FiniteSets

VARIABLE scene

SceneUids == CacheUids \cup PolicyUids
SceneRows == CacheRows \cup PolicyRowsUsed
SceneInit == {p \in [SceneUids -> PolicyRowsUsed \cup {NoRow}] :
                 \A u \in SceneUids \ {10050, 1010050} : p[u] = NoRow}

Busy == {t \in Threads : pc[t] # "idle"}
Stored(rows) == \A t \in Threads : store[t] \in rows \cup {NoRow}

RaceScene ==
    /\ changes = 0 /\ Stored(CacheRows)
    /\ \A t \in Busy : uid[t] \in CacheUids
PolicyScene ==
    /\ Cardinality(Busy) <= 1 /\ Stored(PolicyRowsUsed)
    /\ \A t \in Busy : uid[t] \in PolicyUids
    /\ \A u \in SceneUids : policies[u] \in PolicyRowsUsed \cup {NoRow}

ScenesInit ==
    /\ Init
    /\ \/ /\ scene = "race" /\ settings \in CacheSettings /\ installed \in CacheInstalled
          /\ requester = NoPkg /\ \A u \in SceneUids : policies[u] = NoRow
       \/ /\ scene = "policy" /\ installed \notin CacheInstalled
          /\ policies[10050] = policies[1010050]

ScenesNext ==
    /\ Next /\ UNCHANGED scene
    /\ IF scene = "race" THEN RaceScene' ELSE PolicyScene'

ScenesSpec == ScenesInit /\ [][ScenesNext]_<<vars, scene>>
=============================================================================
