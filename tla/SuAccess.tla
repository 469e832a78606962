------------------------------ MODULE SuAccess ------------------------------
(* How the root daemon decides a superuser request.                         *)
(*                                                                          *)
(* Every accepted SUPERUSER request runs su_daemon_handler on a thread of   *)
(* its own (su/su_daemon.cpp).  get_su_info shares decisions of the last    *)
(* seconds through one cached su_info object, reads the policy database and *)
(* may ask the manager app through a FIFO (su/connect.cpp).                 *)
(*                                                                          *)
(* Abstractions.  A su_info object is named by the thread that allocated    *)
(* it, since a thread allocates at most one.  Time stamps are kept as ages  *)
(* (the time since the stamp, saturating at the bound they are compared     *)
(* with), so time is not bounded.  The database is read one query per step. *)
EXTENDS Integers

CONSTANTS
    Threads,       \* request threads of the daemon, one superuser request each
    Uids,          \* the uids that issue requests
    Pkgs,          \* package names that may be the manager
    Official,      \* JAVA_PACKAGE_NAME
    PkgAppId,      \* Linux app id of each package
    Rows,          \* rows the manager may write in the table policies
    SettingsUsed,  \* values the table settings takes
    InitPolicies,  \* contents of the table policies to start from
    InstalledSets, \* sets of <<user, package>> that may be installed
    Fresh,         \* is_fresh: 3000 ms, in ticks
    PromptTimeout, \* app_request: 70 s, in ticks
    MaxChanges,    \* bound on the changes of the database by others
    NoThread, NoRow, NoPkg

\* policy_t, include/db.hpp
QUERY == 0
DENY == 1
ALLOW == 2

\* values of root_access and multiuser_mode, include/db.hpp
ROOT_ACCESS_DISABLED == 0
ROOT_ACCESS_APPS_ONLY == 1
ROOT_ACCESS_ADB_ONLY == 2
ROOT_ACCESS_APPS_AND_ADB == 3
MULTIUSER_MODE_OWNER_ONLY == 0
MULTIUSER_MODE_OWNER_MANAGED == 1
MULTIUSER_MODE_USER == 2

UID_ROOT == 0
UID_SHELL == 2000
AppId(u) == u % 100000
UserId(u) == u \div 100000

SuAccesses == [policy : {QUERY, DENY, ALLOW}, log : BOOLEAN, notify : BOOLEAN]
DEFAULT_SU_ACCESS == [policy |-> QUERY, log |-> TRUE, notify |-> TRUE]
SILENT_SU_ACCESS == [policy |-> ALLOW, log |-> FALSE, notify |-> FALSE]
NO_SU_ACCESS == [policy |-> DENY, log |-> FALSE, notify |-> FALSE]

Settings == [root_access : 0 .. 3, multiuser_mode : 0 .. 2]
\* A row of the table policies; until is what is left of its lifetime,
\* -1 for the rows whose column until is 0: they never expire.
Lifetimes == Nat \cup {-1}
PolicyRows == [policy : {DENY, ALLOW}, log : BOOLEAN, notify : BOOLEAN,
               until : Lifetimes]

ASSUME UidAssumption == Uids \subseteq Nat
ASSUME PkgAssumption == Official \in Pkgs /\ NoPkg \notin Pkgs /\ PkgAppId \in [Pkgs -> Nat]
ASSUME RowAssumption == Rows \subseteq PolicyRows /\ NoRow \notin PolicyRows
ASSUME InitAssumption == /\ SettingsUsed \subseteq Settings
                         /\ InitPolicies \subseteq [Uids -> Rows \cup {NoRow}]
ASSUME ThreadAssumption == NoThread \notin Threads
ASSUME BoundAssumption == Fresh \in Nat \ {0} /\ PromptTimeout \in Nat \ {0} /\ MaxChanges \in Nat

VARIABLES
    \* ---- the daemon's threads
    pc,         \* where each thread is in su_daemon_handler
    uid,        \* credential->uid of each thread's client
    ref,        \* ctx.info: the su_info object the thread holds
    verdict,    \* what the client was told
    report,     \* app_log or app_notify sent for the request
    \* ---- shared by the threads
    cached,     \* the cached su_info
    cacheLock,  \* holder of cache_lock
    info,       \* the su_info objects
    age,        \* time since timestamp of the cached su_info, the only one read
    infoLock,   \* holder of the lock of each su_info
    \* ---- the prompt of each thread: its FIFO, its timer, and the manager
    fifo, waited, manager, store,
    prompts,    \* history: app_request calls made for each su_info
    \* ---- the database and the installed packages
    settings, requester, installed, policies, changes

threadVars == <<pc, uid, ref, verdict, report>>
promptVars == <<fifo, waited, manager, store, prompts>>
dbVars == <<settings, requester, installed, policies, changes>>
vars == <<pc, uid, ref, verdict, report, cached, cacheLock, info, age, infoLock,
          fifo, waited, manager, store, prompts,
          settings, requester, installed, policies, changes>>

NewInfo(u) == [uid |-> u, access |-> DEFAULT_SU_ACCESS,
               cfg |-> [root_access |-> ROOT_ACCESS_APPS_AND_ADB,
                        multiuser_mode |-> MULTIUSER_MODE_OWNER_ONLY],
               str |-> NoPkg, st_uid |-> 0]

Init ==
    /\ pc = [t \in Threads |-> "idle"]
    /\ uid = [t \in Threads |-> UID_ROOT]
    /\ ref = [t \in Threads |-> NoThread]
    /\ verdict = [t \in Threads |-> "none"]
    /\ report = [t \in Threads |-> "none"]
    /\ cached = NoThread /\ cacheLock = NoThread
    /\ info = [t \in Threads |-> NewInfo(UID_ROOT)]
    /\ age = Fresh
    /\ infoLock = [t \in Threads |-> NoThread]
    /\ fifo = [t \in Threads |-> "none"]
    /\ waited = [t \in Threads |-> 0]
    /\ manager = [t \in Threads |-> "none"]
    /\ store = [t \in Threads |-> NoRow]
    /\ prompts = [t \in Threads |-> 0]
    /\ settings \in SettingsUsed
    /\ requester \in Pkgs \cup {NoPkg}
    /\ installed \in InstalledSets
    /\ policies \in InitPolicies
    /\ changes = 0

Goto(t, l) == pc' = [pc EXCEPT ![t] = l]

(***************************************************************************)
(* get_su_info, the cache.                                                 *)
(***************************************************************************)

\* A client of uid u sends SUPERUSER; its thread enters su_daemon_handler.
Request(t, u) ==
    /\ pc[t] = "idle"
    /\ Goto(t, "cache_wait")
    /\ uid' = [uid EXCEPT ![t] = u]
    /\ UNCHANGED <<ref, verdict, report, cached, cacheLock, info, age, infoLock,
                   promptVars, dbVars>>

\* Mutant: the request does not wait for cache_lock.
LockCacheNoWait(t) ==
    /\ pc[t] = "cache_wait"
    /\ cacheLock' = t
    /\ Goto(t, "lookup")
    /\ UNCHANGED <<uid, ref, verdict, report, cached, info, age, infoLock,
                   promptVars, dbVars>>

LockCache(t) ==
    /\ pc[t] = "cache_wait"
    /\ cacheLock = NoThread
    /\ cacheLock' = t
    /\ Goto(t, "lookup")
    /\ UNCHANGED <<uid, ref, verdict, report, cached, info, age, infoLock,
                   promptVars, dbVars>>

\* is_fresh() of the cached object
IsFresh == age < Fresh

\* Mutant: the object of a decision that is not fresh is used again.
LookupReuses(t) ==
    /\ pc[t] = "lookup"
    /\ IF cached = NoThread \/ info[cached].uid # uid[t]
       THEN cached' = t /\ info' = [info EXCEPT ![t] = NewInfo(uid[t])] /\ age' = Fresh
       ELSE /\ info' = IF IsFresh THEN info ELSE [info EXCEPT ![cached] = NewInfo(uid[t])]
            /\ UNCHANGED <<cached, age>>
    /\ Goto(t, "take")
    /\ UNCHANGED <<uid, ref, verdict, report, cacheLock, infoLock, promptVars, dbVars>>

Lookup(t) ==
    /\ pc[t] = "lookup"
    /\ IF \/ cached = NoThread
          \/ info[cached].uid # uid[t]
          \/ ~IsFresh
       THEN /\ cached' = t
            /\ info' = [info EXCEPT ![t] = NewInfo(uid[t])]
            /\ age' = Fresh
       ELSE UNCHANGED <<cached, info, age>>
    /\ Goto(t, "take")
    /\ UNCHANGED <<uid, ref, verdict, report, cacheLock, infoLock, promptVars, dbVars>>

\* Mutant: cache_lock is still held when the thread waits for the su_info.
TakeKeepsCacheLock(t) ==
    /\ pc[t] = "take"
    /\ age' = 0
    /\ ref' = [ref EXCEPT ![t] = cached]
    /\ Goto(t, "info_wait")
    /\ UNCHANGED <<uid, verdict, report, cached, cacheLock, info, infoLock,
                   promptVars, dbVars>>

\* refresh() the cached object, keep a reference to it, release cache_lock.
Take(t) ==
    /\ pc[t] = "take"
    /\ age' = 0
    /\ ref' = [ref EXCEPT ![t] = cached]
    /\ cacheLock' = NoThread
    /\ Goto(t, "info_wait")
    /\ UNCHANGED <<uid, verdict, report, cached, info, infoLock, promptVars, dbVars>>

(***************************************************************************)
(* get_su_info, the decision, under the lock of the su_info.               *)
(***************************************************************************)

\* Mutant: the su_info is used without its lock.
LockInfoRace(t) ==
    /\ pc[t] = "info_wait"
    /\ infoLock' = [infoLock EXCEPT ![ref[t]] = t]
    /\ Goto(t, "check")
    /\ UNCHANGED <<uid, ref, verdict, report, cached, cacheLock, info, age,
                   promptVars, dbVars>>

LockInfo(t) ==
    /\ pc[t] = "info_wait"
    /\ infoLock[ref[t]] = NoThread
    /\ infoLock' = [infoLock EXCEPT ![ref[t]] = t]
    /\ Goto(t, "check")
    /\ UNCHANGED <<uid, ref, verdict, report, cached, cacheLock, info, age,
                   promptVars, dbVars>>

\* The return of get_su_info: the guard of the su_info's lock is destroyed.
Return(t) ==
    /\ infoLock' = [infoLock EXCEPT ![ref[t]] = NoThread]
    /\ Goto(t, "answer")

UseDecided(t) ==
    /\ pc[t] = "check"
    /\ info[ref[t]].access.policy # QUERY
    /\ Return(t)
    /\ UNCHANGED <<uid, ref, verdict, report, cached, cacheLock, info, age,
                   promptVars, dbVars>>

\* What the queries and the decision leave alone.
DecideUnchanged == UNCHANGED <<uid, ref, verdict, report, cached, cacheLock, age,
                               promptVars, dbVars>>

\* The settings of the rows a query returned before it ended or failed: the
\* others keep their defaults.
Merged(cfg, got) == [k \in DOMAIN settings |-> IF k \in got THEN settings[k] ELSE cfg[k]]

\* get_db_settings, at the start of database_check, which does not look at
\* what the queries return.
ReadSettings(t) ==
    /\ pc[t] = "check"
    /\ info[ref[t]].access.policy = QUERY
    /\ \E got \in SUBSET DOMAIN settings : info' = [info EXCEPT ![ref[t]].cfg = Merged(@, got)]
    /\ Goto(t, "strings")
    /\ UNCHANGED infoLock /\ DecideUnchanged

\* get_db_strings, or its failure.
ReadStrings(t) ==
    /\ pc[t] = "strings"
    /\ \E pkg \in {requester, info[ref[t]].str} : info' = [info EXCEPT ![ref[t]].str = pkg]
    /\ Goto(t, "policy")
    /\ UNCHANGED infoLock /\ DecideUnchanged

\* The local uid of database_check: the key of the policy row; 0 stands for
\* the -1 of a secondary user in owner-only mode (neither is looked up).
PolicyUid(i) ==
    CASE i.cfg.multiuser_mode = MULTIUSER_MODE_OWNER_ONLY ->
             IF UserId(i.uid) # 0 THEN 0 ELSE i.uid
      [] i.cfg.multiuser_mode = MULTIUSER_MODE_OWNER_MANAGED -> AppId(i.uid)
      [] i.cfg.multiuser_mode = MULTIUSER_MODE_USER -> i.uid

OwnerOnlyDenied(i) ==
    i.cfg.multiuser_mode = MULTIUSER_MODE_OWNER_ONLY /\ UserId(i.uid) # 0

\* get_uid_policy: the row of u that has not expired, if there is one.
LiveRow(u) ==
    IF u \in Uids /\ policies[u] # NoRow
    THEN IF policies[u].until # 0 THEN policies[u] ELSE NoRow
    ELSE NoRow

\* get_uid_policy, or its failure, which is like no row.
ReadPolicy(t) ==
    LET i == info[ref[t]]
        found == IF PolicyUid(i) > 0 THEN LiveRow(PolicyUid(i)) ELSE NoRow
    IN  /\ pc[t] = "policy"
        /\ \E row \in {found, NoRow} :
            info' = [info EXCEPT ![ref[t]].access =
               IF OwnerOnlyDenied(i) THEN NO_SU_ACCESS
               ELSE IF row = NoRow THEN @
               ELSE [policy |-> row.policy, log |-> row.log, notify |-> row.notify]]
        /\ Goto(t, "decide")
        /\ UNCHANGED infoLock /\ DecideUnchanged

\* validate_manager: the package named in the database if it is installed for
\* the user, else the official one, else no manager.
ManagerPkg(pkg, user) ==
    IF pkg # NoPkg /\ <<user, pkg>> \in installed THEN pkg
    ELSE IF <<user, Official>> \in installed THEN Official
    ELSE NoPkg

Validated(i) ==
    LET user == UserId(PolicyUid(i))
        pkg == ManagerPkg(i.str, user)
    IN  IF i.access.log \/ i.access.notify
        THEN [i EXCEPT !.str = pkg,
                       !.st_uid = IF pkg = NoPkg THEN 0 ELSE user * 100000 + PkgAppId[pkg]]
        ELSE i

\* "If it's root or the manager, allow it silently"
IsRootOrManager(i) == i.uid = UID_ROOT \/ AppId(i.uid) = AppId(i.st_uid)

\* The switch on cfg[ROOT_ACCESS].
RootAccessDenied(i) ==
    \/ i.cfg.root_access = ROOT_ACCESS_DISABLED
    \/ i.cfg.root_access = ROOT_ACCESS_ADB_ONLY /\ i.uid # UID_SHELL
    \/ i.cfg.root_access = ROOT_ACCESS_APPS_ONLY /\ i.uid = UID_SHELL

\* Mutant: a stored policy is obeyed before the setting root_access is looked at.
DecisionRowFirst(i) ==
    IF IsRootOrManager(i) THEN SILENT_SU_ACCESS
    ELSE IF i.access.policy # QUERY THEN i.access
    ELSE IF RootAccessDenied(i) \/ i.str = NoPkg THEN NO_SU_ACCESS
    ELSE i.access

\* The access after the checks that follow database_check.
Decision(i) ==
    IF IsRootOrManager(i) THEN SILENT_SU_ACCESS
    ELSE IF RootAccessDenied(i) THEN NO_SU_ACCESS
    ELSE IF i.access.policy = QUERY /\ i.str = NoPkg THEN NO_SU_ACCESS
    ELSE i.access

\* Mutant: an undetermined request is answered without asking the manager.
DecideNoPrompt(t) ==
    LET i == Validated(info[ref[t]])
    IN  /\ pc[t] = "decide"
        /\ info' = [info EXCEPT ![ref[t]] = [i EXCEPT !.access = Decision(i)]]
        /\ Return(t)
        /\ DecideUnchanged

\* The end of database_check, then the checks of get_su_info.
Decide(t) ==
    LET i == Validated(info[ref[t]])
        access == Decision(i)
    IN  /\ pc[t] = "decide"
        /\ info' = [info EXCEPT ![ref[t]] = [i EXCEPT !.access = access]]
        /\ IF access.policy # QUERY
           THEN Return(t)
           ELSE Goto(t, "request") /\ UNCHANGED infoLock
        /\ DecideUnchanged

(***************************************************************************)
(* app_request: asking the manager through a FIFO.                         *)
(***************************************************************************)

PromptUnchanged == UNCHANGED <<uid, ref, verdict, report, cached, cacheLock, age, dbVars>>

\* mkfifo, chown, and exec_cmd, whose fallbacks all may fail to reach the app.
SendRequest(t) ==
    /\ pc[t] = "request"
    /\ fifo' = [fifo EXCEPT ![t] = "made"]
    /\ prompts' = [prompts EXCEPT ![ref[t]] = @ + 1]
    /\ Goto(t, "open")
    /\ UNCHANGED <<info, infoLock, waited, manager, store>> /\ PromptUnchanged

\* The manager opens the FIFO for writing (SuRequestHandler.init) and meets
\* the daemon's open for reading: both return, poll starts its timer.
ManagerOpens(t) ==
    /\ pc[t] = "open" /\ fifo[t] = "made"
    /\ fifo' = [fifo EXCEPT ![t] = "open"]
    /\ manager' = [manager EXCEPT ![t] = "prompt"]
    /\ Goto(t, "poll")
    /\ UNCHANGED <<info, infoLock, waited, store, prompts>> /\ PromptUnchanged

\* Mutant: a request whose FIFO cannot be opened is sent again.
OpenFailsRetries(t) ==
    /\ pc[t] = "open"
    /\ fifo' = [fifo EXCEPT ![t] = "failed"]
    /\ Goto(t, "request")
    /\ UNCHANGED <<info, infoLock, waited, manager, store, prompts>> /\ PromptUnchanged

\* The daemon's open fails; poll ignores the descriptor -1 and only waits.
OpenFails(t) ==
    /\ pc[t] = "open"
    /\ fifo' = [fifo EXCEPT ![t] = "failed"]
    /\ Goto(t, "poll")
    /\ UNCHANGED <<info, infoLock, waited, manager, store, prompts>> /\ PromptUnchanged

\* SuRequestHandler.respond: the answer is written, if the daemon still reads,
\* and then a row is stored unless the choice is for this time only.
ManagerResponds(t, row, keep) ==
    /\ manager[t] = "prompt"
    /\ manager' = [manager EXCEPT ![t] = IF keep THEN "store" ELSE "gone"]
    /\ store' = [store EXCEPT ![t] = IF keep THEN row ELSE @]
    /\ fifo' = [fifo EXCEPT ![t] = IF @ # "open" THEN @
                                   ELSE IF row.policy = ALLOW THEN "allow" ELSE "deny"]
    /\ UNCHANGED <<pc, info, infoLock, waited, prompts>> /\ PromptUnchanged

\* The manager dies or gives up: its end of the FIFO is closed unwritten.
ManagerCloses(t) ==
    /\ manager[t] = "prompt"
    /\ manager' = [manager EXCEPT ![t] = "gone"]
    /\ fifo' = [fifo EXCEPT ![t] = IF @ = "open" THEN "hup" ELSE @]
    /\ UNCHANGED <<pc, info, infoLock, waited, store, prompts>> /\ PromptUnchanged

\* policyDB.update with the uid of the user the manager runs for (get_user).
StoreKey(i) ==
    IF i.cfg.multiuser_mode = MULTIUSER_MODE_USER THEN i.uid ELSE AppId(i.uid)

ManagerStores(t) ==
    LET u == StoreKey(info[ref[t]])
    IN  /\ manager[t] = "store"
        /\ manager' = [manager EXCEPT ![t] = "gone"]
        /\ policies' = IF u \in Uids THEN [policies EXCEPT ![u] = store[t]] ELSE policies
        /\ store' = [store EXCEPT ![t] = NoRow]
        /\ UNCHANGED <<threadVars, cached, cacheLock, info, age, infoLock, fifo, waited,
                       prompts, settings, requester, installed, changes>>

\* Mutant: the -1 of a read that failed is taken for a policy.
PollReadyUnchecked(t) ==
    /\ pc[t] = "poll"
    /\ fifo[t] \in {"allow", "deny", "hup"}
    /\ info' = [info EXCEPT ![ref[t]].access.policy =
                   IF fifo[t] = "allow" THEN ALLOW ELSE IF fifo[t] = "deny" THEN DENY ELSE -1]
    /\ fifo' = [fifo EXCEPT ![t] = "unlinked"]
    /\ waited' = [waited EXCEPT ![t] = 0]
    /\ Return(t)
    /\ UNCHANGED <<manager, store, prompts>> /\ PromptUnchanged

\* poll reports the answer or the hang-up; read_int_be fails on a hang-up.
PollReady(t) ==
    /\ pc[t] = "poll"
    /\ fifo[t] \in {"allow", "deny", "hup"}
    /\ info' = [info EXCEPT ![ref[t]].access.policy =
                   IF fifo[t] = "allow" THEN ALLOW ELSE DENY]
    /\ fifo' = [fifo EXCEPT ![t] = "unlinked"]
    /\ waited' = [waited EXCEPT ![t] = 0]
    /\ Return(t)
    /\ UNCHANGED <<manager, store, prompts>> /\ PromptUnchanged

\* Mutant: the path of the timeout forgets to release the lock.
PollTimeoutKeepsLock(t) ==
    /\ pc[t] = "poll"
    /\ fifo[t] \in {"open", "failed"}
    /\ waited[t] >= PromptTimeout
    /\ info' = [info EXCEPT ![ref[t]].access.policy = DENY]
    /\ fifo' = [fifo EXCEPT ![t] = "unlinked"]
    /\ waited' = [waited EXCEPT ![t] = 0]
    /\ Goto(t, "answer")
    /\ UNCHANGED <<infoLock, manager, store, prompts>> /\ PromptUnchanged

PollTimeout(t) ==
    /\ pc[t] = "poll"
    /\ fifo[t] \in {"open", "failed"}
    /\ waited[t] >= PromptTimeout
    /\ info' = [info EXCEPT ![ref[t]].access.policy = DENY]
    /\ fifo' = [fifo EXCEPT ![t] = "unlinked"]
    /\ waited' = [waited EXCEPT ![t] = 0]
    /\ Return(t)
    /\ UNCHANGED <<manager, store, prompts>> /\ PromptUnchanged

\* The rest of su_daemon_handler reads info->access without its lock: the
\* report to the manager, then the refusal or the root shell.
Answer(t) ==
    LET access == info[ref[t]].access
    IN  /\ pc[t] = "answer"
        /\ report' = [report EXCEPT ![t] = IF access.log THEN "log"
                                           ELSE IF access.notify THEN "notify" ELSE @]
        /\ verdict' = [verdict EXCEPT ![t] =
                          IF access.policy = DENY THEN "denied" ELSE "granted"]
        /\ Goto(t, "done")
        /\ UNCHANGED <<uid, ref, cached, cacheLock, info, age, infoLock, promptVars, dbVars>>

(***************************************************************************)
(* The environment: the clock, the manager editing the database with       *)
(* "magisk --sqlite" (exec_sql), packages coming and going.                *)
(***************************************************************************)

Tick ==
    /\ age' = IF age < Fresh THEN age + 1 ELSE age
    /\ waited' = [t \in Threads |->
           IF pc[t] = "poll" /\ waited[t] < PromptTimeout THEN waited[t] + 1 ELSE waited[t]]
    /\ policies' = [u \in Uids |->
           IF policies[u] = NoRow \/ policies[u].until <= 0 THEN policies[u]
           ELSE [policies[u] EXCEPT !.until = @ - 1]]
    /\ UNCHANGED <<threadVars, cached, cacheLock, info, infoLock, fifo, manager, store,
                   prompts, settings, requester, installed, changes>>

EditDatabase ==
    /\ changes < MaxChanges
    /\ changes' = changes + 1
    /\ \/ settings' \in SettingsUsed /\ UNCHANGED <<requester, policies, installed>>
       \/ requester' \in Pkgs \cup {NoPkg} /\ UNCHANGED <<settings, policies, installed>>
       \/ \E u \in Uids, r \in Rows \cup {NoRow} :
             /\ policies' = [policies EXCEPT ![u] = r]
             /\ UNCHANGED <<settings, requester, installed>>
       \/ installed' \in InstalledSets /\ UNCHANGED <<settings, requester, policies>>
    /\ UNCHANGED <<threadVars, cached, cacheLock, info, age, infoLock, promptVars>>

\* The steps of the thread itself, which the scheduler takes sooner or later.
ThreadStep(t) ==
    \/ LockCache(t) \/ Lookup(t) \/ Take(t) \/ LockInfo(t) \/ UseDecided(t)
    \/ ReadSettings(t) \/ ReadStrings(t) \/ ReadPolicy(t) \/ Decide(t)
    \/ SendRequest(t) \/ PollReady(t) \/ PollTimeout(t) \/ Answer(t)

ManagerStep(t) ==
    \/ ManagerOpens(t) \/ ManagerCloses(t) \/ ManagerStores(t)
    \/ \E r \in Rows, keep \in BOOLEAN : ManagerResponds(t, r, keep)

Next ==
    \/ \E t \in Threads :
          \/ \E u \in Uids : Request(t, u)
          \/ ThreadStep(t) \/ ManagerStep(t) \/ OpenFails(t)
    \/ Tick \/ EditDatabase

Spec == Init /\ [][Next]_vars

\* The scheduler runs every thread and time passes; nothing is assumed of
\* the manager.
DaemonFairness == (\A t \in Threads : WF_vars(ThreadStep(t))) /\ WF_vars(Tick)
DaemonSpec == Spec /\ DaemonFairness
\* A manager that was sent a request opens its FIFO.
ManagerResponsive == \A t \in Threads : WF_vars(ManagerOpens(t))

(***************************************************************************)
(* Properties.                                                             *)
(***************************************************************************)

InfoRecs == [uid : Uids \cup {UID_ROOT}, access : SuAccesses, cfg : Settings,
             str : Pkgs \cup {NoPkg}, st_uid : Nat]
PcLabels == {"idle", "cache_wait", "lookup", "take", "info_wait", "check", "strings", "policy",
             "decide", "request", "open", "poll", "answer", "done"}

\* Every variable keeps the type of the C++ object it stands for; above all a
\* policy stays one of policy_t, whatever the manager writes or does not write.
TypeOK ==
    /\ pc \in [Threads -> PcLabels]
    /\ uid \in [Threads -> Uids \cup {UID_ROOT}]
    /\ ref \in [Threads -> Threads \cup {NoThread}]
    /\ verdict \in [Threads -> {"none", "denied", "granted"}]
    /\ report \in [Threads -> {"none", "log", "notify"}]
    /\ cached \in Threads \cup {NoThread}
    /\ cacheLock \in Threads \cup {NoThread}
    /\ info \in [Threads -> InfoRecs]
    /\ age \in 0 .. Fresh
    /\ infoLock \in [Threads -> Threads \cup {NoThread}]
    /\ fifo \in [Threads -> {"none", "made", "open", "failed", "allow", "deny", "hup",
                             "unlinked"}]
    /\ waited \in [Threads -> 0 .. PromptTimeout]
    /\ manager \in [Threads -> {"none", "prompt", "store", "gone"}]
    /\ store \in [Threads -> Rows \cup {NoRow}]
    /\ prompts \in [Threads -> Nat]
    /\ settings \in Settings
    /\ requester \in Pkgs \cup {NoPkg}
    /\ policies \in [Uids -> PolicyRows \cup {NoRow}]
    /\ changes \in 0 .. MaxChanges

\* A thread never holds another uid's su_info: between the test of the cached
\* object and the use of it no other request replaces it (cache_lock).
OwnInfo == \A t \in Threads : ref[t] # NoThread => info[ref[t]].uid = uid[t]

\* The places where a thread holds the lock of its su_info, and those where
\* it is still changing it.
Deciding == {"strings", "policy", "decide", "request", "open", "poll"}
Critical == Deciding \cup {"check"}
Pending(i) == \E t \in Threads : ref[t] = i /\ pc[t] \in Deciding

\* Every answer ever given from a su_info, to whichever thread and however
\* long ago, is the decision it holds: su_daemon_handler reads info->access
\* after get_su_info released its lock, and never grants an undecided request.
AnswersAgree ==
    \A t \in Threads : verdict[t] # "none" =>
        /\ ~Pending(ref[t])
        /\ info[ref[t]].access.policy = IF verdict[t] = "granted" THEN ALLOW ELSE DENY

\* However many requests share a su_info, the user is asked at most once.
PromptOnce == \A i \in Threads : prompts[i] <= 1

\* A settled grant was allowed by the settings it was decided under: root and
\* the manager always, others only if root access is not switched off for
\* them and, in owner-only mode, only for the owner, however the database
\* changes between the queries and whichever of them fail.
GrantJustified ==
    \A i \in Threads :
        (info[i].access.policy = ALLOW /\ ~Pending(i)) =>
            \/ IsRootOrManager(info[i])
            \/ ~RootAccessDenied(info[i]) /\ ~OwnerOnlyDenied(info[i])

\* Once a su_info is decided nothing rewrites it: not a request that waited
\* for its lock, not a late answer of the manager, not a change of the database.
DecisionFinal ==
    [][\A i \in Threads :
          (info[i].access.policy # QUERY /\ ~Pending(i)) => info'[i] = info[i]]_vars

\* The decision a su_info stands for, once no thread is working on it.
SettledDecision(i) ==
    IF info[i].access.policy = QUERY \/ Pending(i)
    THEN [uid |-> -1, allow |-> FALSE]
    ELSE [uid |-> info[i].uid, allow |-> info[i].access.policy = ALLOW]

Oracle == INSTANCE AccessOracle WITH
    Uids <- Uids \cup {UID_ROOT},
    Decisions <- Threads,
    asks <- [t \in Threads |-> IF pc[t] = "idle" THEN -1 ELSE uid[t]],
    decision <- [i \in Threads |-> SettledDecision(i)],
    told <- verdict

\* The threads, the shared cache and the prompts implement AccessOracle:
\* every answer is a final decision about the asking uid.
ImplementsOracle == Oracle!Spec

\* Every request is answered, provided the manager opens the FIFO it is sent:
\* an answer that never comes is cut off by poll, and no lock is held forever.
RequestAnswered ==
    ManagerResponsive => \A t \in Threads : pc[t] = "cache_wait" ~> pc[t] = "done"

\* A prompt nobody answers holds up only the requests that share its su_info:
\* root is answered whatever the manager does, since get_su_info gives up
\* cache_lock before it waits.
RootAnswered ==
    \A t \in Threads : (pc[t] = "cache_wait" /\ uid[t] = UID_ROOT) ~> pc[t] = "done"

\* connect.cpp:198 "Wait for data input for at most 70 seconds": app_request
\* returns whatever the manager does.
PromptReturns == \A t \in Threads : pc[t] = "open" ~> pc[t] = "answer"

(***************************************************************************)
(* The inductive invariant behind the safety properties.                   *)
(***************************************************************************)

Holding == {"info_wait", "answer", "done"} \cup Critical
Allocated(i) == pc[i] \notin {"idle", "cache_wait", "lookup"}

\* A thread has a reference from Take on, and only to objects whose
\* allocating thread has passed Lookup: Lookup overwrites nobody's object.
RefInv ==
    /\ \A t \in Threads : IF pc[t] \in Holding THEN ref[t] \in Threads ELSE ref[t] = NoThread
    /\ \A t \in Threads : ref[t] \in Threads => Allocated(ref[t])
    /\ cached \in Threads => Allocated(cached)
    /\ \A i \in Threads : ~Allocated(i) => info[i].access.policy = QUERY

\* cache_lock is held exactly between LockCache and Take, and what Take will
\* take is an object for the requester's uid.
CacheInv ==
    /\ \A t \in Threads : pc[t] \in {"lookup", "take"} <=> cacheLock = t
    /\ \A t \in Threads : pc[t] = "take" => cached \in Threads /\ info[cached].uid = uid[t]

LockInv == \A t \in Threads : pc[t] \in Critical => infoLock[ref[t]] = t

\* Who has returned from get_su_info holds a decided object nobody works on.
SettledInv ==
    \A t \in Threads : pc[t] \in {"answer", "done"} =>
        ~Pending(ref[t]) /\ info[ref[t]].access.policy # QUERY

VerdictInv == \A t \in Threads : verdict[t] # "none" => pc[t] = "done"

\* A su_info that was asked about is being asked about, or is decided.
PromptInv ==
    \A i \in Threads : prompts[i] # 0 =>
        /\ prompts[i] = 1 /\ Allocated(i)
        /\ \/ \E t \in Threads : ref[t] = i /\ pc[t] \in {"open", "poll"}
           \/ info[i].access.policy # QUERY /\ ~Pending(i)

\* What the checks before the prompt have established.
GrantInv ==
    \A t \in Threads :
        LET i == info[ref[t]]
        IN  /\ pc[t] = "decide" /\ OwnerOnlyDenied(i) => i.access = NO_SU_ACCESS
            /\ pc[t] \in {"request", "open", "poll"} =>
                   ~RootAccessDenied(i) /\ ~OwnerOnlyDenied(i)

IInv ==
    /\ TypeOK /\ RefInv /\ CacheInv /\ LockInv /\ OwnInfo
    /\ SettledInv /\ VerdictInv /\ AnswersAgree /\ PromptInv
    /\ GrantInv /\ GrantJustified
=============================================================================
