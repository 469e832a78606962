------------------------------ MODULE HideList ------------------------------
(* The hide list of the daemon (jokerhide/hide_utils.cpp) under concurrent  *)
(* requests (jokerhide_handler): the list in memory, the table hidelist in  *)
(* the database, and the map from uids to processes that proc_monitor asks. *)
(*                                                                          *)
(* hide_state_lock is taken and released piecewise, the database is written *)
(* outside of it, and add_list and ls_list read hide_set without it.        *)
EXTENDS Integers, FiniteSets

CONSTANTS
    Threads,     \* threads of request_handler
    Targets,     \* <<package, process>> pairs
    Valid,       \* the ones validate accepts
    Default,     \* the ones init_list adds by itself
    Isolated,    \* the package ISOLATED_MAGIC
    NoThread

ASSUME ThreadAssumption == NoThread \notin Threads
ASSUME TargetAssumption == Valid \subseteq Targets /\ Default \subseteq Targets

Ops == {"launch", "stop", "add", "rm", "ls", "auto"}
Pkg(x) == x[1]
Pkgs == {Pkg(x) : x \in Targets}

VARIABLES
    pc,           \* where each thread is
    op, arg,      \* its request; the targets it names
    raced,        \* hide_set was written while the thread read it unlocked
    lock,         \* holder of hide_state_lock
    hide_state, hide_set,
    uid_proc_map, \* the targets found in the map
    watching,     \* proc_monitor has set up inotify
    event,        \* what SIGIO will find: the first event, and what it buries
    missed,       \* packages.xml changed while hide was on and nobody noticed
    installed,    \* packages with a data directory
    db,           \* rows of the table hidelist
    hideCfg,      \* the setting jokerhide
    undeleted,    \* rows whose DELETE failed
    crowded       \* history: two requests have been under way at a time

requestVars == <<op, arg>>
listVars == <<hide_state, hide_set, uid_proc_map>>
monitorVars == <<watching, event, missed, installed>>
dbVars == <<db, hideCfg, undeleted>>
vars == <<pc, op, arg, raced, lock, hide_state, hide_set, uid_proc_map, watching, event,
          missed, installed, db, hideCfg, undeleted>>

Init ==
    /\ pc = [t \in Threads |-> "idle"]
    /\ op = [t \in Threads |-> "ls"] /\ arg = [t \in Threads |-> {}]
    /\ raced = [t \in Threads |-> FALSE] /\ lock = NoThread
    /\ hide_state = FALSE /\ hide_set = {} /\ uid_proc_map = {}
    /\ watching = FALSE /\ event = "none" /\ missed = FALSE
    /\ installed \in SUBSET (Pkgs \ {Isolated})
    /\ db \in SUBSET (Valid \ Default) /\ hideCfg \in BOOLEAN /\ undeleted = {}

\* A thread moves on; "idle" answers the request and ends the thread.
Goto(t, l) ==
    /\ pc' = [pc EXCEPT ![t] = l]
    /\ IF l = "idle" THEN op' = [op EXCEPT ![t] = "ls"] /\ arg' = [arg EXCEPT ![t] = {}]
       ELSE UNCHANGED requestVars
Reading(t) == pc[t] \in {"scan", "ls"}

\* hide_set changes: whoever reads it now without the lock reads garbage.
SetHideSet(t, S) ==
    /\ hide_set' = S
    /\ raced' = [u \in Threads |-> raced[u] \/ (u # t /\ Reading(u) /\ S # hide_set)]

(***************************************************************************)
(* jokerhide_handler                                                       *)
(***************************************************************************)

Request(t) ==
    /\ pc[t] = "idle"
    /\ \E o \in Ops :
        /\ op' = [op EXCEPT ![t] = o]
        /\ \E x \in Targets :
            arg' = [arg EXCEPT ![t] =
                IF o = "add" THEN {x}
                ELSE IF o = "rm" THEN {y \in Targets : Pkg(y) = Pkg(x)} ELSE {}]
        /\ pc' = [pc EXCEPT ![t] = IF o = "launch" THEN "launch" ELSE "check"]
    /\ UNCHANGED <<raced, lock, listVars, monitorVars, dbVars>>

\* rm with a process names one target.
RequestRmProc(t) ==
    /\ pc[t] = "idle" /\ pc' = [pc EXCEPT ![t] = "check"]
    /\ op' = [op EXCEPT ![t] = "rm"]
    /\ \E x \in Targets : arg' = [arg EXCEPT ![t] = {x}]
    /\ UNCHANGED <<raced, lock, listVars, monitorVars, dbVars>>

FirstLabel == [add |-> "scan", rm |-> "erase", stop |-> "stop", ls |-> "ls", auto |-> "idle"]

\* hide_enabled; auto_start_jokerhide asks the other way round.
CheckEnabled(t) ==
    /\ pc[t] = "check" /\ lock = NoThread
    /\ Goto(t, IF op[t] = "auto" THEN IF hide_state \/ ~hideCfg THEN "idle" ELSE "launch"
               ELSE IF hide_state THEN FirstLabel[op[t]] ELSE "idle")
    /\ UNCHANGED <<raced, lock, listVars, monitorVars, dbVars>>

(***************************************************************************)
(* launch_jokerhide, stop_jokerhide                                        *)
(***************************************************************************)

\* Already enabled, no mount namespaces, or no /proc.
LaunchRefused(t) ==
    /\ pc[t] = "launch" /\ lock = NoThread
    /\ Goto(t, "idle")
    /\ UNCHANGED <<raced, lock, listVars, monitorVars, dbVars>>

Launch(t) ==
    /\ pc[t] = "launch" /\ lock = NoThread /\ ~hide_state
    /\ lock' = t /\ Goto(t, "select")
    /\ UNCHANGED <<raced, listVars, monitorVars, dbVars>>

InitList(t) ==
    /\ pc[t] = "select" /\ Goto(t, "start")
    /\ SetHideSet(t, hide_set \cup db \cup Default)
    /\ UNCHANGED <<lock, hide_state, uid_proc_map, monitorVars, dbVars>>

\* The query fails after some rows.
InitListFails(t) ==
    /\ pc[t] = "select" /\ Goto(t, "idle") /\ lock' = NoThread
    /\ \E rows \in SUBSET db : SetHideSet(t, hide_set \cup rows)
    /\ UNCHANGED <<hide_state, uid_proc_map, monitorVars, dbVars>>

StartMonitorKeepsLock(t) ==
    /\ pc[t] = "start" /\ Goto(t, "map")
    /\ hide_state' = TRUE /\ hideCfg' = TRUE
    /\ UNCHANGED <<raced, lock, hide_set, uid_proc_map, monitorVars, db, undeleted>>

\* The thread of proc_monitor is created; the lock is given up before
\* update_uid_map takes it again.
StartMonitor(t) ==
    /\ pc[t] = "start" /\ Goto(t, "map")
    /\ hide_state' = TRUE /\ hideCfg' = TRUE /\ lock' = NoThread
    /\ UNCHANGED <<raced, hide_set, uid_proc_map, monitorVars, db, undeleted>>

StartMonitorFails(t) ==
    /\ pc[t] = "start" /\ Goto(t, "idle") /\ lock' = NoThread
    /\ UNCHANGED <<raced, listVars, monitorVars, dbVars>>

StopKeepsState(t) ==
    /\ pc[t] = "stop" /\ lock = NoThread /\ Goto(t, "idle")
    /\ SetHideSet(t, {}) /\ uid_proc_map' = {} /\ watching' = FALSE
    /\ event' = "none" /\ missed' = FALSE /\ hideCfg' = FALSE
    /\ UNCHANGED <<lock, hide_state, installed, db, undeleted>>

Stop(t) ==
    /\ pc[t] = "stop" /\ lock = NoThread /\ Goto(t, "idle")
    /\ IF hide_state
       THEN SetHideSet(t, {}) /\ uid_proc_map' = {} /\ watching' = FALSE
            /\ event' = "none" /\ missed' = FALSE
       ELSE UNCHANGED <<hide_set, raced, uid_proc_map, watching, event, missed>>
    /\ hide_state' = FALSE /\ hideCfg' = FALSE
    /\ UNCHANGED <<lock, installed, db, undeleted>>

(***************************************************************************)
(* update_uid_map, add_list, rm_list, ls_list                              *)
(***************************************************************************)

Mapped(S) == {x \in S : Pkg(x) \in installed \cup {Isolated}}

UpdateUidMap(t) ==
    /\ pc[t] = "map" /\ lock = NoThread /\ Goto(t, "idle")
    /\ uid_proc_map' = Mapped(hide_set) /\ missed' = FALSE
    /\ UNCHANGED <<raced, lock, hide_state, hide_set, watching, event, installed, dbVars>>

\* validate; then the list is searched, without the lock.
AddScan(t) ==
    /\ pc[t] = "scan" /\ raced' = [raced EXCEPT ![t] = FALSE]
    /\ \/ Goto(t, "idle") /\ (~(arg[t] \subseteq Valid) \/ arg[t] \subseteq hide_set \/ raced[t])
       \/ Goto(t, "insert") /\ arg[t] \subseteq Valid /\ (~(arg[t] \subseteq hide_set) \/ raced[t])
    /\ UNCHANGED <<lock, listVars, monitorVars, dbVars>>

InsertUnchecked(t) ==
    /\ pc[t] = "insert" /\ Goto(t, "add")
    /\ \/ arg[t] \cap db = {} /\ db' = db \cup arg[t]
       \/ db' = db
    /\ UNCHANGED <<raced, lock, listVars, monitorVars, hideCfg, undeleted>>

\* INSERT: <<package, process>> is the table's primary key.
Insert(t) ==
    /\ pc[t] = "insert"
    /\ \/ Goto(t, "add") /\ arg[t] \cap db = {} /\ db' = db \cup arg[t]
       \/ Goto(t, "idle") /\ db' = db
    /\ UNCHANGED <<raced, lock, listVars, monitorVars, hideCfg, undeleted>>

AddHideSet(t) ==
    /\ pc[t] = "add" /\ lock = NoThread /\ Goto(t, "map")
    /\ SetHideSet(t, hide_set \cup arg[t])
    /\ UNCHANGED <<lock, hide_state, uid_proc_map, monitorVars, dbVars>>

Erase(t) ==
    /\ pc[t] = "erase" /\ lock = NoThread
    /\ Goto(t, IF arg[t] \cap hide_set = {} THEN "idle" ELSE "delete")
    /\ SetHideSet(t, hide_set \ arg[t])
    /\ UNCHANGED <<lock, hide_state, uid_proc_map, monitorVars, dbVars>>

DeleteNoRefresh(t) ==
    /\ pc[t] = "delete" /\ Goto(t, "idle")
    /\ db' = db \ arg[t] /\ undeleted' = undeleted \ arg[t]
    /\ UNCHANGED <<raced, lock, listVars, monitorVars, hideCfg>>

\* DELETE; an error is logged and forgotten.
Delete(t) ==
    /\ pc[t] = "delete" /\ Goto(t, "map")
    /\ \/ db' = db \ arg[t] /\ undeleted' = undeleted \ arg[t]
       \/ db' = db /\ undeleted' = undeleted \cup (db \cap arg[t])
    /\ UNCHANGED <<raced, lock, listVars, monitorVars, hideCfg>>

Ls(t) ==
    /\ pc[t] = "ls" /\ Goto(t, "idle")
    /\ raced' = [raced EXCEPT ![t] = FALSE]
    /\ UNCHANGED <<lock, listVars, monitorVars, dbVars>>

(***************************************************************************)
(* Around the list.                                                        *)
(***************************************************************************)

\* setup_inotify, in the new thread.
SetupInotify ==
    /\ hide_state /\ ~watching /\ watching' = TRUE
    /\ UNCHANGED <<pc, requestVars, raced, lock, listVars, event, missed, installed, dbVars>>

\* An app is installed or removed, and packages.xml is written.
PackagesChange ==
    /\ \E p \in Pkgs \ {Isolated} :
        installed' = IF p \in installed THEN installed \ {p} ELSE installed \cup {p}
    /\ event' = IF ~watching THEN event
                ELSE [none |-> "packages", packages |-> "packages", other |-> "buried",
                      buried |-> "buried"][event]
    /\ missed' = (missed \/ (hide_state /\ ~watching))
    /\ UNCHANGED <<pc, requestVars, raced, lock, listVars, watching, dbVars>>

\* app_process is run, or another file of /data/system is written.
OtherChange ==
    /\ watching /\ event = "none" /\ event' = "other"
    /\ UNCHANGED <<pc, requestVars, raced, lock, listVars, watching, missed, installed, dbVars>>

\* inotify_event in the monitor's thread: one read takes all events there are,
\* but only the first one is looked at.
InotifyEvent ==
    /\ event # "none" /\ event' = "none"
    /\ IF event = "packages"
       THEN lock = NoThread /\ uid_proc_map' = Mapped(hide_set) /\ missed' = FALSE
       ELSE uid_proc_map' = uid_proc_map /\ missed' = (missed \/ event = "buried")
    /\ UNCHANGED <<pc, requestVars, raced, lock, hide_state, hide_set, watching, installed, dbVars>>

\* A reader follows a node that was freed: the daemon may die of it.
DaemonDies(t) ==
    /\ raced[t]
    /\ pc' = [u \in Threads |-> "idle"] /\ raced' = [u \in Threads |-> FALSE]
    /\ lock' = NoThread
    /\ hide_state' = FALSE /\ hide_set' = {} /\ uid_proc_map' = {}
    /\ watching' = FALSE /\ event' = "none" /\ missed' = FALSE
    /\ op' = [u \in Threads |-> "ls"] /\ arg' = [u \in Threads |-> {}]
    /\ UNCHANGED <<installed, dbVars>>

Step(t) ==
    \/ CheckEnabled(t) \/ LaunchRefused(t) \/ Launch(t) \/ InitList(t) \/ InitListFails(t)
    \/ StartMonitor(t) \/ StartMonitorFails(t) \/ Stop(t) \/ UpdateUidMap(t)
    \/ AddScan(t) \/ Insert(t) \/ AddHideSet(t) \/ Erase(t) \/ Delete(t) \/ Ls(t)

Next ==
    \/ \E t \in Threads : Request(t) \/ RequestRmProc(t) \/ Step(t) \/ DaemonDies(t)
    \/ SetupInotify \/ PackagesChange \/ OtherChange \/ InotifyEvent

Spec == Init /\ [][Next]_vars

\* The same, with a record of whether requests ever overlapped.
Alone == \A t, u \in Threads : pc[t] # "idle" /\ pc[u] # "idle" => t = u
HistInit == Init /\ crowded = FALSE
HistNext == Next /\ crowded' = (crowded \/ ~Alone')
HistSpec == HistInit /\ [][HistNext]_<<vars, crowded>>

(***************************************************************************)
(* Properties.                                                             *)
(***************************************************************************)

Labels == {"idle", "check", "launch", "select", "start", "stop", "map", "scan", "insert", "add",
           "erase", "delete", "ls"}

\* Every variable keeps its type.
TypeOK ==
    /\ pc \in [Threads -> Labels] /\ op \in [Threads -> Ops]
    /\ arg \in [Threads -> SUBSET Targets] /\ raced \in [Threads -> BOOLEAN]
    /\ lock \in Threads \cup {NoThread}
    /\ hide_state \in BOOLEAN /\ hide_set \subseteq Targets /\ uid_proc_map \subseteq Targets
    /\ watching \in BOOLEAN /\ event \in {"none", "packages", "other", "buried"} /\ missed \in BOOLEAN
    /\ installed \subseteq Pkgs
    /\ db \subseteq Valid /\ hideCfg \in BOOLEAN /\ undeleted \subseteq Valid

\* A target stored in the database is in effect: while hide is enabled a row
\* is in hide_set, unless a request about it is under way or its DELETE failed;
\* enabling, disabling, adding and removing at the same time loses none.
NothingForgotten ==
    (hide_state /\ \A t \in Threads : pc[t] = "idle") => db \ hide_set \subseteq undeleted

\* The map proc_monitor asks is stale only while somebody is about to refresh
\* it: a target of an installed package is missing, or a string_view into an
\* erased entry is left, only until that thread's update_uid_map.  (missed: an
\* event came before inotify was set up, or behind another one.)
MapFresh ==
    /\ (hide_state /\ Mapped(hide_set) \ uid_proc_map # {}) =>
            event # "none" \/ missed \/ \E t \in Threads : pc[t] \in {"map", "delete"}
    /\ uid_proc_map \ hide_set # {} => \E t \in Threads : pc[t] \in {"map", "delete"}

\* What is hidden is what is stored, plus the defaults: add_list stores a
\* target before it hides it, rm_list takes it out before it deletes the row.
SetBacked ==
    (\A t \in Threads : pc[t] = "idle") => hide_set \subseteq db \cup Default

\* Two clients at a time can break that for good; as long as the daemon has
\* had one at a time it holds, whichever statement of the database failed.
BackedIfAlone == ~crowded => SetBacked

\* hide_state_lock is not recursive: who holds it is in init_list or about to
\* start the monitor, and never waits for it, so that every waiting request and
\* the monitor go on sooner or later; nobody leaves with it.
HolderRuns == lock # NoThread => pc[lock] \in {"select", "start"}

\* hide_utils.cpp:20 "Locks the variables above": hide_set is not written while
\* another thread reads it.
LockCovers == \A t \in Threads : ~raced[t]
=============================================================================
