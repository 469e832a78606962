----------------------------- MODULE MCSuAccess -----------------------------
(* Instances of SuAccess for TLC.                                           *)
EXTENDS SuAccess, TLC

CONSTANTS t1, t2, t3, official, hidden

Row(p, l, u) == [policy |-> p, log |-> l, notify |-> l, until |-> u]
Cfg(r, m) == [root_access |-> r, multiuser_mode |-> m]

\* ---- several requests of two apps, one manager, short-lived and lasting rows
CacheThreads == {t1, t2, t3}
CacheUids == {10050, 10051}
CachePkgs == {official}
CachePkgAppId == official :> 10001
CacheRows == {Row(ALLOW, TRUE, 1)}
CacheSettings == {Cfg(ROOT_ACCESS_APPS_AND_ADB, MULTIUSER_MODE_OWNER_ONLY)}
CacheInit == {[u \in CacheUids |-> NoRow]}
CacheInstalled == {{<<0, official>>}}
CacheSymmetry == Permutations(CacheThreads)

\* ---- one app whose prompt hangs
LiveThreads == {t1, t2}
LiveUids == {10050}
LiveInit == {[u \in LiveUids |-> NoRow]}

\* ---- root next to an app, while root access may be turned off
RootUids == {0, 10050}
RootInit == {[u \in RootUids |-> NoRow]}
EditSettings == {Cfg(ROOT_ACCESS_APPS_AND_ADB, MULTIUSER_MODE_OWNER_ONLY),
                 Cfg(ROOT_ACCESS_DISABLED, MULTIUSER_MODE_OWNER_ONLY)}

\* ---- every kind of uid under every setting
PolicyThreads == {t1}
PolicyUids == {0, 2000, 10002, 10050, 1010050, 1010001}
PolicyPkgs == {official, hidden}
PolicyPkgAppId == official :> 10001 @@ hidden :> 10002
PolicyRowsUsed == {Row(ALLOW, FALSE, -1)}
PolicySettings == Settings
PolicyInit == {p \in [PolicyUids -> PolicyRowsUsed \cup {NoRow}] :
                 \A u \in PolicyUids \ {10050, 1010050} : p[u] = NoRow}
PolicyInstalled == {{}, {<<0, official>>}, {<<0, hidden>>, <<10, official>>}}
=============================================================================
