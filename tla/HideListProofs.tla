--------------------------- MODULE HideListProofs ---------------------------
(* Proofs about HideList for any number of request threads, any targets and *)
(* any packages.                                                            *)
EXTENDS HideList, TLAPS

(***************************************************************************)
(* The inductive invariant.                                                *)
(***************************************************************************)

\* What is known of a request under way: launch does not ask whether hide is
\* enabled, and only what validate accepted is inserted.
RequestInv ==
    \A t \in Threads : /\ pc[t] = "check" => op[t] # "launch"
                       /\ pc[t] = "insert" => arg[t] \subseteq Valid

\* The lock is held through launch_jokerhide and nowhere else, and as long as
\* it is held hide is not enabled.
LockInv ==
    /\ \A t \in Threads : pc[t] \in {"select", "start"} <=> lock = t
    /\ lock # NoThread => ~hide_state

\* Somebody is about to rebuild uid_proc_map.
Refreshing == \E t \in Threads : pc[t] \in {"map", "delete"}

\* MapFresh, with the events that really lead to a rebuild, or to missed.
FreshInv ==
    /\ (hide_state /\ Mapped(hide_set) \ uid_proc_map # {}) =>
            event \in {"packages", "buried"} \/ missed \/ Refreshing
    /\ uid_proc_map \ hide_set # {} => Refreshing

\* A row is not in hide_set only while a request about it is between its
\* change of the list and its change of the table.  It holds as soon as
\* init_list has read the table, before hide is enabled.
Pending(x) == \E t \in Threads : pc[t] \in {"add", "delete"} /\ x \in arg[t]
ForgetInv ==
    (hide_state \/ \E t \in Threads : pc[t] = "start") =>
        \A x \in db \ hide_set : x \in undeleted \/ Pending(x)

IInv == TypeOK /\ RequestInv /\ LockInv /\ FreshInv /\ ForgetInv

(***************************************************************************)
(* Types.                                                                  *)
(***************************************************************************)

\* Goto keeps the types of what it assigns.
LEMMA GotoType ==
    ASSUME TypeOK, NEW t \in Threads, NEW l \in Labels, Goto(t, l)
    PROVE  /\ pc' \in [Threads -> Labels] /\ op' \in [Threads -> Ops]
           /\ arg' \in [Threads -> SUBSET Targets]
BY DEF TypeOK, Goto, requestVars, Ops

\* So does SetHideSet.
LEMMA SetType ==
    ASSUME TypeOK, NEW t \in Threads, NEW S \in SUBSET Targets, SetHideSet(t, S)
    PROVE  hide_set' \subseteq Targets /\ raced' \in [Threads -> BOOLEAN]
<1>1. hide_set' \subseteq Targets
  BY DEF SetHideSet
<1>2. raced' \in [Threads -> BOOLEAN]
  BY Zenon DEF SetHideSet
<1>. QED  BY <1>1, <1>2

\* Each action preserves the types, and what is known of a request.
LEMMA TypeStep == TypeOK /\ RequestInv /\ [Next]_vars => TypeOK' /\ RequestInv'
<1>. SUFFICES ASSUME TypeOK, RequestInv, [Next]_vars
              PROVE  TypeOK' /\ RequestInv'
  OBVIOUS
<1>. USE DEF requestVars, listVars, monitorVars, dbVars
<1>1. ASSUME NEW t \in Threads, Request(t) \/ RequestRmProc(t)
      PROVE  TypeOK' /\ RequestInv'
  BY <1>1 DEF TypeOK, RequestInv, Request, RequestRmProc, Labels, Ops
<1>2. ASSUME NEW t \in Threads, CheckEnabled(t)
      PROVE  TypeOK' /\ RequestInv'
  <2>. DEFINE l == IF op[t] = "auto" THEN IF hide_state \/ ~hideCfg THEN "idle" ELSE "launch"
                   ELSE IF hide_state THEN FirstLabel[op[t]] ELSE "idle"
  <2>1. Goto(t, l)
    BY <1>2 DEF CheckEnabled
  <2>2. l \in {"idle", "launch", "scan", "erase", "stop", "ls"}
    BY <1>2 DEF CheckEnabled, TypeOK, RequestInv, Ops, FirstLabel
  <2>. HIDE DEF l
  <2>3. l \in Labels
    BY <2>2 DEF Labels
  <2>. QED  BY <1>2, <2>1, <2>2, <2>3, GotoType, ZenonT(60) DEF TypeOK, RequestInv, CheckEnabled, Goto
<1>3. ASSUME NEW t \in Threads,
             LaunchRefused(t) \/ Launch(t) \/ StartMonitor(t) \/ StartMonitorFails(t)
      PROVE  TypeOK' /\ RequestInv'
  BY <1>3 DEF TypeOK, RequestInv, LaunchRefused, Launch, StartMonitor, StartMonitorFails,
              Goto, Labels, Ops
<1>4. ASSUME NEW t \in Threads, InitList(t)
      PROVE  TypeOK' /\ RequestInv'
  <2>1. hide_set \cup db \cup Default \in SUBSET Targets
    BY TargetAssumption DEF TypeOK
  <2>. QED  BY <1>4, <2>1, SetType DEF TypeOK, RequestInv, InitList, Goto, Labels, Ops
<1>5. ASSUME NEW t \in Threads, InitListFails(t)
      PROVE  TypeOK' /\ RequestInv'
  <2>1. PICK rows \in SUBSET db : SetHideSet(t, hide_set \cup rows)
    BY <1>5 DEF InitListFails
  <2>2. hide_set \cup rows \in SUBSET Targets
    BY <2>1, TargetAssumption DEF TypeOK
  <2>. QED  BY <1>5, <2>1, <2>2, SetType DEF TypeOK, RequestInv, InitListFails, Goto, Labels, Ops
<1>6. ASSUME NEW t \in Threads, Stop(t)
      PROVE  TypeOK' /\ RequestInv'
  <2>1. hide_set' \subseteq Targets /\ raced' \in [Threads -> BOOLEAN]
    BY <1>6, SetType DEF Stop, TypeOK
  <2>. QED  BY <1>6, <2>1 DEF TypeOK, RequestInv, Stop, Goto, Labels, Ops
<1>7. ASSUME NEW t \in Threads, UpdateUidMap(t)
      PROVE  TypeOK' /\ RequestInv'
  BY <1>7 DEF TypeOK, RequestInv, UpdateUidMap, Mapped, Goto, Labels, Ops
<1>8. ASSUME NEW t \in Threads, AddScan(t)
      PROVE  TypeOK' /\ RequestInv'
  BY <1>8 DEF TypeOK, RequestInv, AddScan, Goto, Labels, Ops
<1>9. ASSUME NEW t \in Threads, Insert(t)
      PROVE  TypeOK' /\ RequestInv'
  BY <1>9 DEF TypeOK, RequestInv, Insert, Goto, Labels, Ops
<1>10. ASSUME NEW t \in Threads, AddHideSet(t)
       PROVE  TypeOK' /\ RequestInv'
  <2>1. hide_set \cup arg[t] \in SUBSET Targets
    BY DEF TypeOK
  <2>. QED  BY <1>10, <2>1, SetType DEF TypeOK, RequestInv, AddHideSet, Goto, Labels, Ops
<1>11. ASSUME NEW t \in Threads, Erase(t)
       PROVE  TypeOK' /\ RequestInv'
  <2>1. hide_set \ arg[t] \in SUBSET Targets
    BY DEF TypeOK
  <2>. QED  BY <1>11, <2>1, SetType DEF TypeOK, RequestInv, Erase, Goto, Labels, Ops
<1>12. ASSUME NEW t \in Threads, Delete(t)
       PROVE  TypeOK' /\ RequestInv'
  BY <1>12 DEF TypeOK, RequestInv, Delete, Goto, Labels, Ops
<1>13. ASSUME NEW t \in Threads, Ls(t)
       PROVE  TypeOK' /\ RequestInv'
  BY <1>13 DEF TypeOK, RequestInv, Ls, Goto, Labels, Ops
<1>14. ASSUME NEW t \in Threads, DaemonDies(t)
       PROVE  TypeOK' /\ RequestInv'
  BY <1>14 DEF TypeOK, RequestInv, DaemonDies, Labels, Ops
<1>15. ASSUME SetupInotify \/ OtherChange
       PROVE  TypeOK' /\ RequestInv'
  BY <1>15 DEF TypeOK, RequestInv, SetupInotify, OtherChange
<1>16. ASSUME PackagesChange
       PROVE  TypeOK' /\ RequestInv'
  BY <1>16 DEF TypeOK, RequestInv, PackagesChange
<1>17. ASSUME InotifyEvent
       PROVE  TypeOK' /\ RequestInv'
  BY <1>17 DEF TypeOK, RequestInv, InotifyEvent, Mapped
<1>18. ASSUME UNCHANGED vars
       PROVE  TypeOK' /\ RequestInv'
  BY <1>18 DEF TypeOK, RequestInv, vars
<1>. QED  BY <1>1, <1>2, <1>3, <1>4, <1>5, <1>6, <1>7, <1>8, <1>9, <1>10, <1>11, <1>12, <1>13,
             <1>14, <1>15, <1>16, <1>17, <1>18 DEF Next, Step

(***************************************************************************)
(* The lock.                                                               *)
(***************************************************************************)

\* hide_enabled leads to one of these labels.
LEMMA CheckTo ==
    ASSUME TypeOK, RequestInv, NEW t \in Threads, CheckEnabled(t)
    PROVE  /\ pc' = [pc EXCEPT ![t] = pc'[t]]
           /\ pc'[t] \in {"idle", "launch", "scan", "erase", "stop", "ls"}
BY DEF TypeOK, RequestInv, CheckEnabled, Goto, Ops, FirstLabel

\* Each action preserves LockInv.
LEMMA LockStep == TypeOK /\ RequestInv /\ LockInv /\ [Next]_vars => LockInv'
<1>. SUFFICES ASSUME TypeOK, RequestInv, LockInv, [Next]_vars
              PROVE  LockInv'
  OBVIOUS
<1>. USE DEF requestVars, listVars, monitorVars, dbVars
<1>1. ASSUME NEW t \in Threads, Request(t) \/ RequestRmProc(t)
      PROVE  LockInv'
  BY <1>1 DEF TypeOK, LockInv, Request, RequestRmProc
<1>2. ASSUME NEW t \in Threads, CheckEnabled(t)
      PROVE  LockInv'
  BY <1>2, CheckTo DEF TypeOK, LockInv, CheckEnabled
<1>3. ASSUME NEW t \in Threads, LaunchRefused(t) \/ Launch(t)
      PROVE  LockInv'
  BY <1>3, ThreadAssumption DEF TypeOK, LockInv, LaunchRefused, Launch, Goto
<1>4. ASSUME NEW t \in Threads, InitList(t) \/ InitListFails(t)
      PROVE  LockInv'
  BY <1>4, ThreadAssumption DEF TypeOK, LockInv, InitList, InitListFails, Goto
<1>5. ASSUME NEW t \in Threads, StartMonitor(t) \/ StartMonitorFails(t)
      PROVE  LockInv'
  BY <1>5, ThreadAssumption DEF TypeOK, LockInv, StartMonitor, StartMonitorFails, Goto
<1>6. ASSUME NEW t \in Threads, Stop(t) \/ UpdateUidMap(t)
      PROVE  LockInv'
  BY <1>6 DEF TypeOK, LockInv, Stop, UpdateUidMap, Goto
<1>7. ASSUME NEW t \in Threads,
             AddScan(t) \/ Insert(t) \/ AddHideSet(t) \/ Erase(t) \/ Delete(t) \/ Ls(t)
      PROVE  LockInv'
  BY <1>7 DEF TypeOK, LockInv, AddScan, Insert, AddHideSet, Erase, Delete, Ls, Goto
<1>8. ASSUME NEW t \in Threads, DaemonDies(t)
      PROVE  LockInv'
  BY <1>8, ThreadAssumption DEF TypeOK, LockInv, DaemonDies
<1>9. ASSUME SetupInotify \/ PackagesChange \/ OtherChange \/ InotifyEvent
      PROVE  LockInv'
  BY <1>9 DEF LockInv, SetupInotify, PackagesChange, OtherChange, InotifyEvent
<1>10. ASSUME UNCHANGED vars
       PROVE  LockInv'
  BY <1>10 DEF LockInv, vars
<1>. QED  BY <1>1, <1>2, <1>3, <1>4, <1>5, <1>6, <1>7, <1>8, <1>9, <1>10 DEF Next, Step

(***************************************************************************)
(* The map.                                                                *)
(***************************************************************************)

\* A thread that is not about to rebuild the map may move on: whoever was
\* about to rebuild it still is.
LEMMA StillRefreshing ==
    ASSUME TypeOK, NEW t \in Threads, pc[t] \notin {"map", "delete"},
           NEW l, pc' = [pc EXCEPT ![t] = l], Refreshing
    PROVE  Refreshing'
BY DEF TypeOK, Refreshing

\* Each action preserves FreshInv.
LEMMA FreshStep == TypeOK /\ RequestInv /\ LockInv /\ FreshInv /\ [Next]_vars => FreshInv'
<1>. SUFFICES ASSUME TypeOK, RequestInv, LockInv, FreshInv, [Next]_vars
              PROVE  FreshInv'
  OBVIOUS
<1>. USE DEF requestVars, listVars, monitorVars, dbVars
<1>1. ASSUME NEW t \in Threads, Request(t) \/ RequestRmProc(t)
      PROVE  FreshInv'
  <2>1. Refreshing => Refreshing'
    BY <1>1, StillRefreshing DEF Request, RequestRmProc
  <2>. QED  BY <1>1, <2>1 DEF FreshInv, Mapped, Request, RequestRmProc
<1>2. ASSUME NEW t \in Threads, CheckEnabled(t)
      PROVE  FreshInv'
  <2>1. Refreshing => Refreshing'
    BY <1>2, CheckTo, StillRefreshing DEF CheckEnabled
  <2>. QED  BY <1>2, <2>1 DEF FreshInv, Mapped, CheckEnabled
<1>3. ASSUME NEW t \in Threads, LaunchRefused(t) \/ Launch(t) \/ StartMonitorFails(t)
      PROVE  FreshInv'
  <2>1. Refreshing => Refreshing'
    BY <1>3, StillRefreshing DEF LaunchRefused, Launch, StartMonitorFails, Goto
  <2>. QED  BY <1>3, <2>1 DEF FreshInv, Mapped, LaunchRefused, Launch, StartMonitorFails
<1>4. ASSUME NEW t \in Threads, InitList(t) \/ InitListFails(t)
      PROVE  FreshInv'
  <2>1. Refreshing => Refreshing'
    BY <1>4, StillRefreshing DEF InitList, InitListFails, Goto
  <2>2. ~hide_state /\ ~hide_state'
    BY <1>4, ThreadAssumption DEF LockInv, InitList, InitListFails
  <2>3. hide_set \subseteq hide_set' /\ uid_proc_map' = uid_proc_map
    BY <1>4 DEF InitList, InitListFails, SetHideSet
  <2>. QED  BY <2>1, <2>2, <2>3 DEF FreshInv
<1>5. ASSUME NEW t \in Threads, StartMonitor(t)
      PROVE  FreshInv'
  BY <1>5 DEF TypeOK, StartMonitor, Goto, FreshInv, Refreshing
<1>6. ASSUME NEW t \in Threads, Stop(t)
      PROVE  FreshInv'
  <2>1. Refreshing => Refreshing'
    BY <1>6, StillRefreshing DEF Stop, Goto
  <2>. QED  BY <1>6, <2>1 DEF FreshInv, Stop, SetHideSet
<1>7. ASSUME NEW t \in Threads, UpdateUidMap(t)
      PROVE  FreshInv'
  BY <1>7 DEF UpdateUidMap, FreshInv, Mapped
<1>8. ASSUME NEW t \in Threads, AddScan(t) \/ Insert(t) \/ Ls(t)
      PROVE  FreshInv'
  <2>1. Refreshing => Refreshing'
    BY <1>8, StillRefreshing DEF AddScan, Insert, Ls, Goto
  <2>. QED  BY <1>8, <2>1 DEF FreshInv, Mapped, AddScan, Insert, Ls
<1>9. ASSUME NEW t \in Threads, AddHideSet(t) \/ Delete(t)
      PROVE  FreshInv'
  BY <1>9 DEF TypeOK, AddHideSet, Delete, Goto, FreshInv, Refreshing
<1>10. ASSUME NEW t \in Threads, Erase(t)
       PROVE  FreshInv'
  <2>1. Refreshing => Refreshing'
    BY <1>10, StillRefreshing DEF Erase, Goto
  <2>2. CASE arg[t] \cap hide_set = {}
    <3>1. hide_set' = hide_set
      BY <1>10, <2>2 DEF Erase, SetHideSet
    <3>. QED  BY <1>10, <2>1, <3>1 DEF FreshInv, Erase, Mapped
  <2>3. CASE arg[t] \cap hide_set # {}
    BY <1>10, <2>3 DEF TypeOK, Erase, Goto, FreshInv, Refreshing
  <2>. QED  BY <2>2, <2>3
<1>11. ASSUME NEW t \in Threads, DaemonDies(t)
       PROVE  FreshInv'
  BY <1>11 DEF DaemonDies, FreshInv
<1>12. ASSUME SetupInotify
       PROVE  FreshInv'
  BY <1>12 DEF SetupInotify, FreshInv, Refreshing, Mapped
<1>13. ASSUME OtherChange
       PROVE  FreshInv'
  BY <1>13 DEF OtherChange, FreshInv, Refreshing, Mapped
<1>14. ASSUME PackagesChange
       PROVE  FreshInv'
  BY <1>14 DEF TypeOK, PackagesChange, FreshInv, Refreshing
<1>15. ASSUME InotifyEvent
       PROVE  FreshInv'
  BY <1>15 DEF TypeOK, InotifyEvent, FreshInv, Refreshing, Mapped
<1>16. ASSUME UNCHANGED vars
       PROVE  FreshInv'
  BY <1>16 DEF FreshInv, Refreshing, Mapped, vars
<1>. QED  BY <1>1, <1>2, <1>3, <1>4, <1>5, <1>6, <1>7, <1>8, <1>9, <1>10, <1>11, <1>12, <1>13,
             <1>14, <1>15, <1>16 DEF Next, Step

(***************************************************************************)
(* The list and the table.                                                 *)
(***************************************************************************)

\* A thread whose request is not pending may move on: what is pending stays so.
LEMMA StillPending ==
    ASSUME TypeOK, NEW t \in Threads, pc[t] \notin {"add", "delete"},
           NEW l, pc' = [pc EXCEPT ![t] = l],
           \A u \in Threads \ {t} : arg'[u] = arg[u], NEW x, Pending(x)
    PROVE  Pending(x)'
BY DEF TypeOK, Pending

\* The steps that leave the list and the table alone, and start nothing.
LEMMA ForgetKept ==
    ASSUME TypeOK, ForgetInv, NEW t \in Threads, pc[t] \notin {"add", "delete"},
           NEW l, pc' = [pc EXCEPT ![t] = l], l # "start",
           \A u \in Threads \ {t} : arg'[u] = arg[u],
           UNCHANGED <<hide_state, hide_set, db, undeleted>>
    PROVE  ForgetInv'
<1>1. \A x : Pending(x) => Pending(x)'
  BY StillPending
<1>2. (\E u \in Threads : pc[u] = "start")' => \E u \in Threads : pc[u] = "start"
  BY DEF TypeOK
<1>. QED  BY <1>1, <1>2 DEF ForgetInv

\* Each action preserves ForgetInv.
LEMMA ForgetStep == TypeOK /\ RequestInv /\ LockInv /\ ForgetInv /\ [Next]_vars => ForgetInv'
<1>. SUFFICES ASSUME TypeOK, RequestInv, LockInv, ForgetInv, [Next]_vars
              PROVE  ForgetInv'
  OBVIOUS
<1>. USE DEF requestVars, listVars, monitorVars, dbVars
<1>1. ASSUME NEW t \in Threads, Request(t) \/ RequestRmProc(t)
      PROVE  ForgetInv'
  <2>1. PICK l \in Labels : l # "start" /\ pc' = [pc EXCEPT ![t] = l]
    BY <1>1 DEF Request, RequestRmProc, Labels
  <2>. QED  BY <1>1, <2>1, ForgetKept DEF TypeOK, Request, RequestRmProc
<1>2. ASSUME NEW t \in Threads, CheckEnabled(t)
      PROVE  ForgetInv'
  BY <1>2, CheckTo, ForgetKept DEF TypeOK, CheckEnabled, Goto
<1>3. ASSUME NEW t \in Threads, LaunchRefused(t) \/ Launch(t) \/ StartMonitorFails(t)
      PROVE  ForgetInv'
  BY <1>3, ForgetKept DEF TypeOK, LaunchRefused, Launch, StartMonitorFails, Goto
<1>4. ASSUME NEW t \in Threads, InitList(t)
      PROVE  ForgetInv'
  <2>1. db' \ hide_set' = {}
    BY <1>4 DEF InitList, SetHideSet
  <2>. QED  BY <2>1 DEF ForgetInv
<1>5. ASSUME NEW t \in Threads, InitListFails(t)
      PROVE  ForgetInv'
  <2>1. lock = t /\ ~hide_state
    BY <1>5, ThreadAssumption DEF LockInv, InitListFails
  <2>2. \A u \in Threads : pc'[u] # "start"
    BY <1>5, <2>1 DEF TypeOK, LockInv, InitListFails, Goto
  <2>. QED  BY <1>5, <2>1, <2>2 DEF ForgetInv, InitListFails
<1>6. ASSUME NEW t \in Threads, StartMonitor(t)
      PROVE  ForgetInv'
  <2>1. \A x : Pending(x) => Pending(x)'
    BY <1>6, StillPending DEF StartMonitor, Goto
  <2>. QED  BY <1>6, <2>1 DEF ForgetInv, StartMonitor
<1>7. ASSUME NEW t \in Threads, Stop(t)
      PROVE  ForgetInv'
  <2>1. ~hide_state' /\ \A u \in Threads : pc'[u] # "start"
    BY <1>7, ThreadAssumption DEF TypeOK, LockInv, Stop, Goto
  <2>. QED  BY <2>1 DEF ForgetInv
<1>8. ASSUME NEW t \in Threads, UpdateUidMap(t) \/ AddScan(t) \/ Ls(t)
      PROVE  ForgetInv'
  BY <1>8, ForgetKept DEF TypeOK, UpdateUidMap, AddScan, Ls, Goto
<1>9. ASSUME NEW t \in Threads, Insert(t)
      PROVE  ForgetInv'
  <2>1. CASE db' = db
    BY <1>9, <2>1, ForgetKept DEF TypeOK, Insert, Goto
  <2>2. CASE Goto(t, "add") /\ db' = db \cup arg[t]
    <3>1. \A x : Pending(x) => Pending(x)'
      BY <1>9, <2>2, StillPending DEF Insert, Goto
    <3>2. \A x \in arg[t] : Pending(x)'
      BY <2>2 DEF TypeOK, Pending, Goto
    <3>3. (\E u \in Threads : pc[u] = "start")' => \E u \in Threads : pc[u] = "start"
      BY <2>2 DEF TypeOK, Goto
    <3>. QED  BY <1>9, <2>2, <3>1, <3>2, <3>3 DEF ForgetInv, Insert
  <2>. QED  BY <1>9, <2>1, <2>2 DEF Insert
<1>10. ASSUME NEW t \in Threads, AddHideSet(t)
       PROVE  ForgetInv'
  <2>1. \A x : Pending(x) => Pending(x)' \/ x \in arg[t]
    BY <1>10 DEF TypeOK, Pending, AddHideSet, Goto
  <2>2. (\E u \in Threads : pc[u] = "start")' => \E u \in Threads : pc[u] = "start"
    BY <1>10 DEF TypeOK, AddHideSet, Goto
  <2>. QED  BY <1>10, <2>1, <2>2 DEF ForgetInv, AddHideSet, SetHideSet
<1>11. ASSUME NEW t \in Threads, Erase(t)
       PROVE  ForgetInv'
  <2>1. \A x : Pending(x) => Pending(x)'
    BY <1>11, StillPending DEF TypeOK, Erase, Goto
  <2>2. (\E u \in Threads : pc[u] = "start")' => \E u \in Threads : pc[u] = "start"
    BY <1>11 DEF TypeOK, Erase, Goto
  <2>3. \A x \in arg[t] \cap hide_set : Pending(x)'
    BY <1>11 DEF TypeOK, Erase, Goto, Pending
  <2>4. hide_set' = hide_set \ arg[t]
    BY <1>11 DEF Erase, SetHideSet
  <2>. QED  BY <1>11, <2>1, <2>2, <2>3, <2>4 DEF ForgetInv, Erase
<1>12. ASSUME NEW t \in Threads, Delete(t)
       PROVE  ForgetInv'
  <2>1. \A x : Pending(x) => Pending(x)' \/ x \in arg[t]
    BY <1>12 DEF TypeOK, Pending, Delete, Goto
  <2>2. (\E u \in Threads : pc[u] = "start")' => \E u \in Threads : pc[u] = "start"
    BY <1>12 DEF TypeOK, Delete, Goto
  <2>. QED  BY <1>12, <2>1, <2>2 DEF ForgetInv, Delete
<1>13. ASSUME NEW t \in Threads, DaemonDies(t)
       PROVE  ForgetInv'
  BY <1>13 DEF DaemonDies, ForgetInv
<1>14. ASSUME SetupInotify \/ PackagesChange \/ OtherChange \/ InotifyEvent \/ UNCHANGED vars
       PROVE  ForgetInv'
  BY <1>14 DEF ForgetInv, Pending, SetupInotify, PackagesChange, OtherChange, InotifyEvent, vars
<1>. QED  BY <1>1, <1>2, <1>3, <1>4, <1>5, <1>6, <1>7, <1>8, <1>9, <1>10, <1>11, <1>12, <1>13,
             <1>14 DEF Next, Step

(***************************************************************************)
(* The theorems.                                                           *)
(***************************************************************************)

\* The invariant holds at first and is inductive.
LEMMA Invariance == Spec => []IInv
<1>1. Init => IInv
  <2>. SUFFICES ASSUME Init PROVE IInv
    OBVIOUS
  <2>1. TypeOK
    BY TargetAssumption DEF Init, TypeOK, Labels, Ops
  <2>2. RequestInv /\ LockInv /\ FreshInv /\ ForgetInv
    BY ThreadAssumption DEF Init, RequestInv, LockInv, FreshInv, ForgetInv
  <2>. QED  BY <2>1, <2>2 DEF IInv
<1>2. IInv /\ [Next]_vars => IInv'
  BY TypeStep, LockStep, FreshStep, ForgetStep DEF IInv
<1>. QED  BY <1>1, <1>2, PTL DEF Spec

\* The variables of the hide list keep their types; in particular only targets
\* that validate accepts are ever stored.
THEOREM TypeCorrect == Spec => []TypeOK
<1>1. IInv => TypeOK
  BY DEF IInv
<1>. QED  BY <1>1, Invariance, PTL

\* Whoever holds hide_state_lock is in init_list or starting the monitor, and
\* so never waits for it.
THEOREM LockHolderRuns == Spec => []HolderRuns
<1>1. IInv => HolderRuns
  BY DEF IInv, TypeOK, LockInv, HolderRuns
<1>. QED  BY <1>1, Invariance, PTL

\* uid_proc_map is stale only while somebody is about to rebuild it.
THEOREM MapIsFresh == Spec => []MapFresh
<1>1. IInv => MapFresh
  BY DEF IInv, FreshInv, Refreshing, MapFresh
<1>. QED  BY <1>1, Invariance, PTL

\* Concurrent launch, stop, add and rm requests lose no row of the table.
THEOREM NoTargetForgotten == Spec => []NothingForgotten
<1>1. IInv => NothingForgotten
  BY DEF IInv, ForgetInv, Pending, NothingForgotten
<1>. QED  BY <1>1, Invariance, PTL

(***************************************************************************)
(* One client at a time.                                                   *)
(***************************************************************************)

\* add_list hides what is stored, and rm_list deletes what is not hidden.
BackInv ==
    /\ hide_set \subseteq db \cup Default
    /\ \A t \in Threads : /\ pc[t] = "add" => arg[t] \subseteq db
                          /\ pc[t] = "delete" => arg[t] \cap hide_set = {}

\* Each action preserves it when no other request is under way.
LEMMA BackStep == TypeOK /\ RequestInv /\ Alone /\ BackInv /\ [Next]_vars => BackInv'
<1>. SUFFICES ASSUME TypeOK, RequestInv, Alone, BackInv, [Next]_vars
              PROVE  BackInv'
  OBVIOUS
<1>1. ASSUME NEW t \in Threads, CheckEnabled(t)
      PROVE  BackInv'
  <2>1. pc'[t] \notin {"add", "delete"} /\ \A u \in Threads \ {t} : pc'[u] = pc[u]
    BY <1>1, CheckTo DEF TypeOK
  <2>2. \A u \in Threads \ {t} : arg'[u] = arg[u]
    BY <1>1 DEF TypeOK, CheckEnabled, Goto, requestVars
  <2>. QED  BY <1>1, <2>1, <2>2 DEF BackInv, CheckEnabled, listVars, dbVars
<1>2. ASSUME NEW t \in Threads, Request(t) \/ RequestRmProc(t)
      PROVE  BackInv'
  BY <1>2 DEF TypeOK, BackInv, Request, RequestRmProc, listVars, dbVars
<1>3. ASSUME NEW t \in Threads, LaunchRefused(t) \/ Launch(t)
      PROVE  BackInv'
  BY <1>3 DEF TypeOK, BackInv, LaunchRefused, Launch, Goto, requestVars, listVars, dbVars
<1>4. ASSUME NEW t \in Threads, InitList(t) \/ InitListFails(t)
      PROVE  BackInv'
  BY <1>4 DEF TypeOK, Alone, BackInv, InitList, InitListFails, SetHideSet, Goto, requestVars, dbVars
<1>5. ASSUME NEW t \in Threads, StartMonitor(t) \/ StartMonitorFails(t) \/ UpdateUidMap(t) \/ AddScan(t) \/ Ls(t)
      PROVE  BackInv'
  BY <1>5 DEF TypeOK, BackInv, StartMonitor, StartMonitorFails, UpdateUidMap, AddScan, Ls, Goto,
              requestVars, listVars, dbVars
<1>6. ASSUME NEW t \in Threads, Stop(t)
      PROVE  BackInv'
  BY <1>6 DEF TypeOK, BackInv, Stop, SetHideSet, Goto, requestVars
<1>7. ASSUME NEW t \in Threads, Insert(t)
      PROVE  BackInv'
  BY <1>7 DEF TypeOK, BackInv, Insert, Goto, requestVars, listVars
<1>8. ASSUME NEW t \in Threads, AddHideSet(t)
      PROVE  BackInv'
  BY <1>8 DEF TypeOK, Alone, BackInv, AddHideSet, SetHideSet, Goto, requestVars, dbVars
<1>9. ASSUME NEW t \in Threads, Erase(t)
      PROVE  BackInv'
  BY <1>9 DEF TypeOK, Alone, BackInv, Erase, SetHideSet, Goto, requestVars, dbVars
<1>10. ASSUME NEW t \in Threads, Delete(t)
       PROVE  BackInv'
  BY <1>10 DEF TypeOK, Alone, BackInv, Delete, Goto, requestVars, listVars
<1>11. ASSUME NEW t \in Threads, DaemonDies(t)
       PROVE  BackInv'
  BY <1>11 DEF TypeOK, BackInv, DaemonDies
<1>12. ASSUME SetupInotify \/ PackagesChange \/ OtherChange \/ InotifyEvent \/ UNCHANGED vars
       PROVE  BackInv'
  BY <1>12 DEF BackInv, SetupInotify, PackagesChange, OtherChange, InotifyEvent, vars, requestVars,
               listVars, dbVars
<1>. QED  BY <1>1, <1>2, <1>3, <1>4, <1>5, <1>6, <1>7, <1>8, <1>9, <1>10, <1>11, <1>12 DEF Next, Step

\* As long as one client asks at a time, whatever fails in between, nothing is
\* hidden but what is stored and the defaults.
THEOREM BackedWhenAlone == HistSpec => []BackedIfAlone
<1>. DEFINE HistInv == crowded \in BOOLEAN /\ (~crowded => Alone /\ BackInv)
<1>1. HistInit => HistInv
  BY DEF HistInit, Init, BackInv, Alone
<1>2. TypeOK /\ RequestInv /\ HistInv /\ [HistNext]_<<vars, crowded>> => HistInv'
  <2>. SUFFICES ASSUME TypeOK, RequestInv, HistInv, [HistNext]_<<vars, crowded>>
                PROVE  HistInv'
    OBVIOUS
  <2>1. CASE HistNext
    <3>1. crowded' \in BOOLEAN /\ (~crowded' => ~crowded /\ Alone')
      BY <2>1 DEF HistNext
    <3>2. ~crowded => BackInv'
      BY <2>1, BackStep DEF HistNext
    <3>. QED  BY <3>1, <3>2
  <2>2. CASE UNCHANGED <<vars, crowded>>
    BY <2>2 DEF Alone, BackInv, vars
  <2>. QED  BY <2>1, <2>2
<1>3. HistInv => BackedIfAlone
  BY DEF BackInv, SetBacked, BackedIfAlone
<1>4. HistSpec => Spec
  <2>1. HistInit => Init
    BY DEF HistInit
  <2>2. [HistNext]_<<vars, crowded>> => [Next]_vars
    BY DEF HistNext
  <2>. QED  BY <2>1, <2>2, PTL DEF HistSpec, Spec
<1>5. IInv => TypeOK /\ RequestInv
  BY DEF IInv
<1>. QED  BY <1>1, <1>2, <1>3, <1>4, <1>5, Invariance, PTL DEF HistSpec
=============================================================================
