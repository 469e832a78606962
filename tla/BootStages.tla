----------------------------- MODULE BootStages -----------------------------
(* The boot stages of the daemon (core/bootstages.cpp) against the init     *)
(* script that triggers them (init/magiskrc.inc), with the time boxes of    *)
(* the blocking scripts (core/scripting.cpp).                               *)
(*                                                                          *)
(* Each stage is a request whose thread takes stage_lock.  Only what waits  *)
(* takes time: scripts that are waited for, the volume key, uninstallers;   *)
(* the clock is in seconds.  The daemon may die; the next client starts a   *)
(* new one (connect_daemon), which has forgotten everything.                *)
EXTENDS Integers

CONSTANTS
    WaitTime,      \* POST_FS_DATA_WAIT_TIME: how long init waits
    ScriptMax,     \* POST_FS_DATA_SCRIPT_MAX_TIME: deadline of the scripts
    Fbe,           \* SDK_INT >= 24: file based encryption
    KeyTime,       \* seconds the volume key has to be held
    CommonScripts, \* number of scripts in post-fs-data.d
    ModuleScripts, \* number of modules with a post-fs-data.sh
    MaxUninstalls, \* bound on the uninstall.sh scripts run in a boot
    MaxDeaths      \* bound on the deaths of the daemon

ASSUME TimeAssumption == WaitTime \in Nat /\ ScriptMax \in Nat /\ KeyTime \in Nat
\* The deadline of the scripts and the volume key fit into init's patience
\* (3 s, 35 s and 40 s in the code).
ASSUME DeadlineAssumption == KeyTime + ScriptMax < WaitTime
ASSUME FbeAssumption == Fbe \in BOOLEAN
ASSUME ScriptAssumption == CommonScripts \in Nat /\ ModuleScripts \in Nat
ASSUME BoundAssumption == MaxUninstalls \in Nat /\ MaxDeaths \in Nat

STATE_NONE == 0
STATE_POST_FS_DATA == 1
STATE_POST_FS_DATA_DONE == 2
STATE_LATE_START_DONE == 3
STATE_BOOT_COMPLETE == 4

Stages == {"pfs", "late", "complete"}
NoStage == "nobody"

VARIABLES
    init,        \* how far init has come: it triggers the stages
    paused,      \* seconds init has been waiting for UNBLOCKFILE
    unblock,     \* UNBLOCKFILE exists
    pc,          \* where the thread of each stage is
    stageLock,   \* holder of stage_lock
    state,       \* DAEMON_STATE
    safe_mode,
    elapsed,     \* seconds since pfs_timeout was computed, up to ScriptMax + 1
    timer,       \* the timer process runs
    left,        \* scripts still to start in the running loop
    held,        \* seconds the volume key has been held
    deaths, uninstalls,
    \* ---- what survives the daemon
    dataReady,   \* check_data: /data is mounted and decrypted
    secureDir,   \* SECURE_DIR exists
    hideCfg,     \* the setting jokerhide in the database
    disabled,    \* every module has its flag "disable"
    cfgStuck,    \* history: safe mode could not write the setting
    \* ---- what the boot has seen (hideOn ends with the daemon)
    hideOn, ran, safeBoot

initVars == <<init, paused, unblock>>
scriptVars == <<elapsed, timer, left, held>>
diskVars == <<dataReady, secureDir, hideCfg, disabled, cfgStuck>>
vars == <<init, paused, unblock, pc, stageLock, state, safe_mode, elapsed, timer, left,
          held, deaths, uninstalls, dataReady, secureDir, hideCfg, disabled,
          cfgStuck, hideOn, ran, safeBoot>>

Init ==
    /\ init = "boot" /\ paused = 0 /\ unblock = FALSE
    /\ pc = [s \in Stages |-> "none"]
    /\ stageLock = NoStage /\ state = STATE_NONE /\ safe_mode = FALSE
    /\ elapsed = ScriptMax + 1 /\ timer = FALSE /\ left = 0 /\ held = 0
    /\ deaths = 0 /\ uninstalls = 0
    /\ dataReady \in BOOLEAN /\ secureDir \in BOOLEAN /\ hideCfg \in BOOLEAN
    /\ disabled = FALSE /\ cfgStuck = FALSE /\ hideOn = FALSE /\ ran = {} /\ safeBoot = FALSE

Goto(s, l) == pc' = [pc EXCEPT ![s] = l]

(***************************************************************************)
(* init                                                                    *)
(***************************************************************************)

\* "on post-fs-data": rm, start, wait.  The client gets its ack and the
\* daemon's thread queues for stage_lock.
TriggerPostFsData ==
    /\ init = "boot" /\ init' = "waiting"
    /\ unblock' = FALSE /\ paused' = 0
    /\ Goto("pfs", "lock")
    /\ UNCHANGED <<stageLock, state, safe_mode, scriptVars, deaths, uninstalls, diskVars,
                   hideOn, ran, safeBoot>>

\* The wait ends with UNBLOCKFILE or after WaitTime; rm UNBLOCKFILE.
InitContinues ==
    /\ init = "waiting" /\ (unblock \/ paused >= WaitTime)
    /\ init' = "booting" /\ unblock' = FALSE
    /\ UNCHANGED <<paused, pc, stageLock, state, safe_mode, scriptVars, deaths, uninstalls,
                   diskVars, hideOn, ran, safeBoot>>

\* A full-disk encrypted device triggers post-fs-data again once /data is
\* decrypted; what it triggered before found a tmpfs.
InitDecrypted ==
    /\ init = "booting" /\ ~dataReady /\ pc["pfs"] \in {"done", "dead"}
    /\ init' = "boot" /\ dataReady' = TRUE
    /\ UNCHANGED <<paused, unblock, pc, stageLock, state, safe_mode, scriptVars, deaths,
                   uninstalls, secureDir, hideCfg, disabled, cfgStuck, hideOn, ran, safeBoot>>

TriggerLateStart ==
    /\ init = "booting" /\ init' = "late"
    /\ Goto("late", "lock")
    /\ UNCHANGED <<paused, unblock, stageLock, state, safe_mode, scriptVars, deaths,
                   uninstalls, diskVars, hideOn, ran, safeBoot>>

TriggerBootComplete ==
    /\ init = "late" /\ init' = "completed"
    /\ Goto("complete", "lock")
    /\ UNCHANGED <<paused, unblock, stageLock, state, safe_mode, scriptVars, deaths,
                   uninstalls, diskVars, hideOn, ran, safeBoot>>

(***************************************************************************)
(* The threads.                                                            *)
(***************************************************************************)

Lock(s) ==
    /\ pc[s] = "lock" /\ stageLock = NoStage
    /\ stageLock' = s /\ Goto(s, "run")
    /\ UNCHANGED <<initVars, state, safe_mode, scriptVars, deaths, uninstalls, diskVars,
                   hideOn, ran, safeBoot>>

\* A step of post_fs_data that only moves on: the rest is left alone.
PfsGoto(from, to) ==
    /\ pc["pfs"] = from /\ Goto("pfs", to)
    /\ UNCHANGED <<initVars, stageLock, deaths>>

PfsCheckData ==
    /\ PfsGoto("run", IF dataReady THEN "env" ELSE "unblock")
    /\ state' = IF dataReady THEN STATE_POST_FS_DATA ELSE state
    /\ UNCHANGED <<safe_mode, scriptVars, uninstalls, diskVars, hideOn, ran, safeBoot>>

\* SECURE_DIR is created only before Android 7.  Without it, or when magisk_env
\* is incomplete, the rest is skipped up to magic mount.
PfsEnvironment ==
    /\ secureDir' = (secureDir \/ ~Fbe)
    /\ \/ PfsGoto("env", "mount")
       \/ secureDir' /\ PfsGoto("env", "keys")
    /\ held' = 0
    /\ UNCHANGED <<state, safe_mode, elapsed, timer, left, uninstalls, dataReady, hideCfg,
                   disabled, cfgStuck, hideOn, ran, safeBoot>>

\* persist.sys.safemode is 1, or the key is held for KeyTime.
PfsSafeMode ==
    /\ PfsGoto("keys", "disable")
    /\ held = 0 \/ held >= KeyTime
    /\ safe_mode' = TRUE /\ safeBoot' = TRUE
    /\ UNCHANGED <<state, scriptVars, uninstalls, diskVars, hideOn, ran>>

PfsDisableModules ==
    /\ PfsGoto("disable", "stop_hide")
    /\ disabled' = TRUE
    /\ UNCHANGED <<state, safe_mode, scriptVars, uninstalls, dataReady, secureDir, hideCfg,
                   cfgStuck, hideOn, ran, safeBoot>>

PfsStopHideForgets ==
    /\ PfsGoto("stop_hide", "mount")
    /\ hideOn' = FALSE
    /\ UNCHANGED <<state, safe_mode, scriptVars, uninstalls, diskVars, ran, safeBoot>>

\* stop_jokerhide, and update_hide_config, whose failure is only logged.
PfsStopHide ==
    /\ PfsGoto("stop_hide", "mount")
    /\ hideOn' = FALSE
    /\ \/ hideCfg' = FALSE /\ UNCHANGED cfgStuck
       \/ cfgStuck' = TRUE /\ UNCHANGED hideCfg
    /\ UNCHANGED <<state, safe_mode, scriptVars, uninstalls, dataReady, secureDir, disabled,
                   ran, safeBoot>>

\* exec_common_scripts("post-fs-data") computes the deadline of all blocking
\* scripts and starts the timer process.
PfsCommonScripts ==
    /\ PfsGoto("keys", "common")
    /\ held < KeyTime
    /\ elapsed' = 0 /\ timer' = TRUE /\ left' = CommonScripts /\ held' = 0
    /\ UNCHANGED <<state, safe_mode, uninstalls, diskVars, hideOn, ran, safeBoot>>

\* post-fs-data.d cannot be opened: no script and no deadline, so that the
\* scripts of the modules will find theirs over.
PfsNoCommonScripts ==
    /\ PfsGoto("keys", "common")
    /\ held < KeyTime
    /\ left' = 0 /\ held' = 0
    /\ UNCHANGED <<state, safe_mode, elapsed, timer, uninstalls, diskVars, hideOn, ran, safeBoot>>

\* The loops of exec_common_scripts and exec_module_scripts: start a script,
\* and wait for it (PFS_WAIT) unless the timer has fired.
StartScriptWaits(loop, wait) ==
    /\ left > 0 /\ left' = left - 1
    /\ PfsGoto(loop, wait)
    /\ ran' = ran \cup {loop}
    /\ UNCHANGED <<state, safe_mode, elapsed, timer, held, uninstalls, diskVars, hideOn, safeBoot>>

StartScript(loop, wait) ==
    /\ left > 0 /\ left' = left - 1
    /\ PfsGoto(loop, IF timer THEN wait ELSE loop)
    /\ ran' = ran \cup {loop}
    /\ UNCHANGED <<state, safe_mode, elapsed, timer, held, uninstalls, diskVars, hideOn, safeBoot>>

\* waitpid returns the script, or the timer process once the deadline is over.
ScriptEnds(loop, wait) ==
    /\ PfsGoto(wait, loop)
    /\ UNCHANGED <<state, safe_mode, scriptVars, uninstalls, diskVars, hideOn, ran, safeBoot>>

TimerFires(loop, wait) ==
    /\ PfsGoto(wait, loop)
    /\ timer /\ elapsed >= ScriptMax /\ timer' = FALSE
    /\ UNCHANGED <<state, safe_mode, elapsed, left, held, uninstalls, diskVars, hideOn, ran,
                   safeBoot>>

\* auto_start_jokerhide: launch_jokerhide may fail.
AutoStartHide == hideOn' \in {hideOn, hideOn \/ hideCfg}

\* PFS_DONE kills the timer; auto_start_jokerhide(false); handle_modules begins.
PfsAutoStartHide ==
    /\ left = 0 /\ PfsGoto("common", "collect")
    /\ timer' = FALSE
    /\ AutoStartHide
    /\ UNCHANGED <<state, safe_mode, elapsed, left, held, uninstalls, diskVars, ran, safeBoot>>

\* collect_modules runs the uninstall.sh of a removed module and waits for it.
Uninstall(from, wait) ==
    /\ uninstalls < MaxUninstalls
    /\ PfsGoto(from, wait)
    /\ uninstalls' = uninstalls + 1
    /\ UNCHANGED <<state, safe_mode, scriptVars, diskVars, hideOn, ran, safeBoot>>

UninstallEnds(from, wait) ==
    /\ PfsGoto(wait, from)
    /\ UNCHANGED <<state, safe_mode, scriptVars, uninstalls, diskVars, hideOn, ran, safeBoot>>

\* exec_module_scripts("post-fs-data"): after the deadline it does not block.
PfsModuleScriptsAnew ==
    /\ PfsGoto("collect", "module")
    /\ timer' = TRUE /\ elapsed' = 0
    /\ left' = IF disabled THEN 0 ELSE ModuleScripts
    /\ UNCHANGED <<state, safe_mode, held, uninstalls, diskVars, hideOn, ran, safeBoot>>

PfsModuleScripts ==
    /\ PfsGoto("collect", "module")
    /\ timer' = (elapsed <= ScriptMax)
    /\ left' = IF disabled THEN 0 ELSE ModuleScripts
    /\ UNCHANGED <<state, safe_mode, elapsed, held, uninstalls, diskVars, hideOn, ran, safeBoot>>

PfsRecollect ==
    /\ left = 0 /\ PfsGoto("module", "recollect")
    /\ timer' = FALSE
    /\ UNCHANGED <<state, safe_mode, elapsed, left, held, uninstalls, diskVars, hideOn, ran,
                   safeBoot>>

PfsMagicMount ==
    /\ PfsGoto("mount", "unblock") \/ PfsGoto("recollect", "unblock")
    /\ state' = STATE_POST_FS_DATA_DONE
    /\ ran' = ran \cup {"mount"}
    /\ UNCHANGED <<safe_mode, scriptVars, uninstalls, diskVars, hideOn, safeBoot>>

PfsUnblock ==
    /\ pc["pfs"] = "unblock" /\ Goto("pfs", "done")
    /\ unblock' = TRUE /\ stageLock' = NoStage
    /\ UNCHANGED <<init, paused, state, safe_mode, scriptVars, deaths, uninstalls, diskVars,
                   hideOn, ran, safeBoot>>

LateStartAnyway ==
    /\ pc["late"] = "run" /\ Goto("late", "done")
    /\ stageLock' = NoStage /\ state' = STATE_LATE_START_DONE
    /\ ran' = IF safe_mode THEN ran ELSE ran \cup {"service"}
    /\ UNCHANGED <<initVars, safe_mode, scriptVars, deaths, uninstalls, diskVars, hideOn, safeBoot>>

\* late_start; run_finally sets the state on both ways out.
LateStart ==
    /\ pc["late"] = "run" /\ Goto("late", "done")
    /\ stageLock' = NoStage /\ state' = STATE_LATE_START_DONE
    /\ ran' = IF state < STATE_POST_FS_DATA_DONE \/ safe_mode THEN ran
              ELSE ran \cup {"service"}
    /\ UNCHANGED <<initVars, safe_mode, scriptVars, deaths, uninstalls, diskVars, hideOn, safeBoot>>

BootComplete ==
    /\ pc["complete"] = "run" /\ Goto("complete", "done")
    /\ stageLock' = NoStage /\ state' = STATE_BOOT_COMPLETE
    /\ IF safe_mode THEN UNCHANGED <<secureDir, hideOn>>
       ELSE secureDir' = TRUE /\ AutoStartHide
    /\ ran' = IF pc["late"] = "done" THEN ran ELSE ran \cup {"complete_first"}
    /\ UNCHANGED <<initVars, safe_mode, scriptVars, deaths, uninstalls, dataReady, hideCfg,
                   disabled, cfgStuck, safeBoot>>

(***************************************************************************)
(* Time and failure.                                                       *)
(***************************************************************************)

WaitLabels == {"common_wait", "module_wait", "collect_wait", "recollect_wait"}

\* check_key_combo waits as long as the key is held, but not longer than KeyTime.
WaitsForKey == pc["pfs"] = "keys" /\ held < KeyTime

\* A second passes while post_fs_data waits for something, or is not running.
\* The timer process does not oversleep.
Tick ==
    /\ \/ pc["pfs"] \in WaitLabels /\ ~(timer /\ elapsed >= ScriptMax)
       \/ WaitsForKey
       \/ pc["pfs"] = "dead"
    /\ ~(init = "waiting" /\ paused >= WaitTime)
    /\ paused' = IF init = "waiting" THEN paused + 1 ELSE paused
    /\ elapsed' = IF elapsed <= ScriptMax THEN elapsed + 1 ELSE elapsed
    /\ held' = IF pc["pfs"] = "keys" THEN held + 1 ELSE held
    /\ UNCHANGED <<init, unblock, pc, stageLock, state, safe_mode, timer, left, deaths,
                   uninstalls, diskVars, hideOn, ran, safeBoot>>

\* The daemon dies with all its threads; requests to come start a new one.
DaemonDies ==
    /\ deaths < MaxDeaths /\ deaths' = deaths + 1
    /\ pc' = [s \in Stages |-> IF pc[s] \in {"none", "done"} THEN pc[s] ELSE "dead"]
    /\ stageLock' = NoStage /\ state' = STATE_NONE /\ safe_mode' = FALSE
    /\ hideOn' = FALSE /\ timer' = FALSE /\ elapsed' = ScriptMax + 1
    /\ UNCHANGED <<initVars, left, held, uninstalls, diskVars, ran, safeBoot>>

PfsStep ==
    \/ PfsCheckData \/ PfsEnvironment \/ PfsSafeMode \/ PfsDisableModules \/ PfsStopHide
    \/ PfsCommonScripts \/ PfsNoCommonScripts \/ StartScript("common", "common_wait")
    \/ TimerFires("common", "common_wait") \/ PfsAutoStartHide \/ PfsModuleScripts
    \/ StartScript("module", "module_wait") \/ TimerFires("module", "module_wait")
    \/ PfsRecollect \/ PfsMagicMount \/ PfsUnblock

ScriptStep ==
    \/ ScriptEnds("common", "common_wait") \/ ScriptEnds("module", "module_wait")
    \/ Uninstall("collect", "collect_wait") \/ Uninstall("recollect", "recollect_wait")

UninstallStep ==
    \/ UninstallEnds("collect", "collect_wait") \/ UninstallEnds("recollect", "recollect_wait")

InitStep ==
    \/ TriggerPostFsData \/ InitContinues \/ InitDecrypted
    \/ TriggerLateStart \/ TriggerBootComplete

Next ==
    \/ InitStep \/ (\E s \in Stages : Lock(s)) \/ PfsStep \/ ScriptStep \/ UninstallStep
    \/ LateStart \/ BootComplete \/ Tick \/ DaemonDies

Spec == Init /\ [][Next]_vars

\* The threads run, time passes and uninstallers end; scripts may run forever.
FairSpec ==
    /\ Spec /\ WF_vars(PfsStep) /\ WF_vars(UninstallStep) /\ WF_vars(Tick)
    /\ WF_vars(LateStart) /\ WF_vars(BootComplete)
    /\ \A s \in Stages : SF_vars(Lock(s))

(***************************************************************************)
(* Properties.                                                             *)
(***************************************************************************)

Labels == {"none", "lock", "run", "env", "keys", "disable", "stop_hide", "common", "collect",
           "module", "recollect", "mount", "unblock", "done", "dead"} \cup WaitLabels

\* Every variable keeps its type.
TypeOK ==
    /\ init \in {"boot", "waiting", "booting", "late", "completed"}
    /\ paused \in 0 .. WaitTime /\ unblock \in BOOLEAN
    /\ pc \in [Stages -> Labels] /\ stageLock \in Stages \cup {NoStage}
    /\ state \in STATE_NONE .. STATE_BOOT_COMPLETE /\ safe_mode \in BOOLEAN
    /\ elapsed \in 0 .. ScriptMax + 1 /\ timer \in BOOLEAN /\ left \in Nat
    /\ held \in 0 .. KeyTime
    /\ deaths \in 0 .. MaxDeaths /\ uninstalls \in 0 .. MaxUninstalls
    /\ dataReady \in BOOLEAN /\ secureDir \in BOOLEAN /\ hideCfg \in BOOLEAN
    /\ disabled \in BOOLEAN /\ cfgStuck \in BOOLEAN /\ hideOn \in BOOLEAN /\ safeBoot \in BOOLEAN
    /\ ran \subseteq {"common", "module", "mount", "service", "complete_first"}

\* The scripts of service mode run only after magic mount of the same boot and
\* never in safe mode, whatever becomes of the daemon in between, as long as
\* boot_complete did not overtake late_start in the queue for stage_lock.
ServiceAfterMount ==
    "service" \in ran => ("mount" \in ran /\ ~safeBoot) \/ "complete_first" \in ran

\* Scripts that hang cannot make the boot go on without the modules mounted:
\* their deadline ends before init's patience does (unless an uninstall.sh,
\* which has no deadline, or the death of the daemon used it up).
MountedBeforeBoot ==
    (init \in {"booting", "late", "completed"} /\ "mount" \notin ran) =>
        ~dataReady \/ uninstalls > 0 \/ deaths > 0

\* After a boot in safe mode modules and hide are switched off for good:
\* boot_complete does not bring hide back, even in a daemon that was restarted
\* and has forgotten about safe mode.  If the setting could not be written it
\* takes such a restart to bring hide back.
SafeModeClean ==
    (safeBoot /\ "mount" \in ran) =>
        disabled /\ (hideCfg => cfgStuck) /\ (hideOn => cfgStuck /\ deaths > 0)

\* init is unblocked, or the daemon is dead, though scripts hang.
PfsEnds == pc["pfs"] = "run" ~> pc["pfs"] \in {"done", "dead"}
=============================================================================
