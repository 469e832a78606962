-------------------------- MODULE BootStagesProofs --------------------------
(* Proofs about BootStages for any number of scripts, uninstallers and      *)
(* deaths of the daemon, and any times that fit into each other.            *)
EXTENDS BootStages, TLAPS

(***************************************************************************)
(* The inductive invariant.                                                *)
(***************************************************************************)

\* The labels at which a thread holds stage_lock, and the ones of post_fs_data
\* between check_data and magic mount.
RunLabels == Labels \ {"none", "lock", "done", "dead"}
MountLabels == RunLabels \ {"run", "unblock"}

\* stage_lock is held by the stage that runs.
LockInv == \A s \in Stages : pc[s] \in RunLabels <=> stageLock = s

\* init triggers a stage once, except post-fs-data, which is triggered again
\* only after the first one has ended.
InitInv ==
    /\ pc["late"] \in {"none", "lock", "run", "done", "dead"}
    /\ pc["complete"] \in {"none", "lock", "run", "done", "dead"}
    /\ init \in {"boot", "waiting", "booting"} => pc["late"] = "none"
    /\ init # "completed" => pc["complete"] = "none"
    /\ init = "boot" => pc["pfs"] \in {"none", "done", "dead"}
    /\ init # "boot" => pc["pfs"] # "none"

\* Modules are mounted once per boot, on the real /data, and then there is
\* no other post_fs_data; it unblocks init only after that.
MountInv ==
    /\ pc["pfs"] \in MountLabels => dataReady
    /\ "mount" \in ran => dataReady /\ init # "boot" /\ pc["pfs"] \in {"unblock", "done", "dead"}
    /\ (dataReady /\ init # "boot" /\ (unblock \/ pc["pfs"] \in {"unblock", "done"})) =>
            "mount" \in ran

\* A boot in safe mode: what has been switched off when.
SafeInv ==
    safeBoot =>
        /\ dataReady /\ init # "boot"
        /\ pc["pfs"] \in {"disable", "stop_hide", "mount", "unblock", "done", "dead"}
        /\ pc["pfs"] \in {"disable", "stop_hide", "mount"} => safe_mode
        /\ pc["pfs"] \in {"stop_hide", "mount"} \/ "mount" \in ran => disabled
        /\ deaths = 0 => safe_mode
        /\ pc["pfs"] = "mount" \/ "mount" \in ran =>
                (hideCfg => cfgStuck) /\ (hideOn => cfgStuck /\ deaths > 0)

\* DAEMON_STATE tells late_start whether to go on, and safe_mode whether it
\* may, unless boot_complete overtook it.
StateInv ==
    (state >= STATE_POST_FS_DATA_DONE /\ pc["late"] # "done" /\ "complete_first" \notin ran) =>
        "mount" \in ran /\ (safeBoot => safe_mode)

\* How long init has waited, by what post_fs_data does: while scripts run, no
\* longer than the key was held and the deadline has been running.
Undisturbed ==
    dataReady /\ init = "waiting" /\ "mount" \notin ran /\ uninstalls = 0 /\ deaths = 0
TimeInv ==
    /\ pc["pfs"] \in {"common_wait", "module_wait"} => timer
    /\ pc["pfs"] \in {"collect_wait", "recollect_wait"} => uninstalls > 0
    /\ pc["pfs"] = "dead" => deaths > 0
    /\ Undisturbed =>
        /\ paused <= KeyTime + ScriptMax
        /\ pc["pfs"] \in {"lock", "run", "env"} => paused = 0
        /\ pc["pfs"] = "keys" => paused <= held
        /\ pc["pfs"] \in {"common", "common_wait", "collect", "module", "module_wait", "recollect"} =>
                paused <= KeyTime + elapsed

IInv ==
    /\ TypeOK /\ LockInv /\ InitInv /\ MountInv /\ SafeInv /\ StateInv /\ TimeInv
    /\ ServiceAfterMount /\ MountedBeforeBoot

(***************************************************************************)
(* The steps.                                                              *)
(***************************************************************************)

\* The types, in three parts.
PcOK == pc \in [Stages -> Labels]
ClockOK ==
    /\ paused \in 0 .. WaitTime /\ state \in STATE_NONE .. STATE_BOOT_COMPLETE
    /\ elapsed \in 0 .. ScriptMax + 1 /\ left \in Nat /\ held \in 0 .. KeyTime
    /\ deaths \in 0 .. MaxDeaths /\ uninstalls \in 0 .. MaxUninstalls
FlagOK ==
    /\ init \in {"boot", "waiting", "booting", "late", "completed"}
    /\ unblock \in BOOLEAN /\ stageLock \in Stages \cup {NoStage} /\ safe_mode \in BOOLEAN
    /\ timer \in BOOLEAN /\ dataReady \in BOOLEAN /\ secureDir \in BOOLEAN /\ hideCfg \in BOOLEAN
    /\ disabled \in BOOLEAN /\ cfgStuck \in BOOLEAN /\ hideOn \in BOOLEAN
    /\ safeBoot \in BOOLEAN
    /\ ran \subseteq {"common", "module", "mount", "service", "complete_first"}

\* Each action leads to a label.
LEMMA PcStep ==
    PcOK /\ [Next]_vars => PcOK'
<1>. SUFFICES ASSUME PcOK, [Next]_vars
              PROVE  PcOK'
  OBVIOUS
<1>. USE DEF Stages, NoStage, initVars, scriptVars, diskVars, PfsGoto, Goto, PcOK, Labels,
             WaitLabels
<1>1. ASSUME TriggerPostFsData
      PROVE  PcOK'
  BY <1>1 DEF TriggerPostFsData
<1>2. ASSUME InitContinues
      PROVE  PcOK'
  BY <1>2 DEF InitContinues
<1>3. ASSUME InitDecrypted
      PROVE  PcOK'
  BY <1>3 DEF InitDecrypted
<1>4. ASSUME TriggerLateStart \/ TriggerBootComplete
      PROVE  PcOK'
  BY <1>4 DEF TriggerLateStart, TriggerBootComplete
<1>5. ASSUME NEW s \in Stages, Lock(s)
      PROVE  PcOK'
  BY <1>5 DEF Lock
<1>6. ASSUME PfsCheckData
      PROVE  PcOK'
  BY <1>6 DEF PfsCheckData
<1>7. ASSUME PfsEnvironment
      PROVE  PcOK'
  BY <1>7 DEF PfsEnvironment
<1>8. ASSUME PfsSafeMode
      PROVE  PcOK'
  BY <1>8 DEF PfsSafeMode
<1>9. ASSUME PfsDisableModules \/ PfsStopHide
      PROVE  PcOK'
  BY <1>9 DEF PfsDisableModules, PfsStopHide
<1>10. ASSUME PfsCommonScripts \/ PfsNoCommonScripts
       PROVE  PcOK'
  BY <1>10 DEF PfsCommonScripts, PfsNoCommonScripts
<1>11. ASSUME StartScript("common", "common_wait") \/ StartScript("module", "module_wait")
       PROVE  PcOK'
  BY <1>11 DEF StartScript
<1>12. ASSUME TimerFires("common", "common_wait") \/ TimerFires("module", "module_wait")
       PROVE  PcOK'
  BY <1>12 DEF TimerFires
<1>13. ASSUME PfsAutoStartHide
       PROVE  PcOK'
  BY <1>13 DEF PfsAutoStartHide, AutoStartHide
<1>14. ASSUME PfsModuleScripts \/ PfsRecollect
       PROVE  PcOK'
  BY <1>14 DEF PfsModuleScripts, PfsRecollect
<1>15. ASSUME PfsMagicMount
       PROVE  PcOK'
  BY <1>15 DEF PfsMagicMount
<1>16. ASSUME PfsUnblock
       PROVE  PcOK'
  BY <1>16 DEF PfsUnblock
<1>17. ASSUME ScriptStep
       PROVE  PcOK'
  BY <1>17 DEF ScriptStep, ScriptEnds, Uninstall
<1>18. ASSUME UninstallStep
       PROVE  PcOK'
  BY <1>18 DEF UninstallStep, UninstallEnds
<1>19. ASSUME LateStart
       PROVE  PcOK'
  BY <1>19 DEF LateStart
<1>20. ASSUME BootComplete
       PROVE  PcOK'
  BY <1>20 DEF BootComplete, AutoStartHide
<1>21. ASSUME Tick
       PROVE  PcOK'
  BY <1>21 DEF Tick, WaitsForKey, WaitLabels
<1>22. ASSUME DaemonDies
       PROVE  PcOK'
  BY <1>22 DEF DaemonDies
<1>23. ASSUME UNCHANGED vars
       PROVE  PcOK'
  BY <1>23 DEF vars
<1>. QED  BY <1>1, <1>2, <1>3, <1>4, <1>5, <1>6, <1>7, <1>8, <1>9, <1>10, <1>11, <1>12, <1>13,
             <1>14, <1>15, <1>16, <1>17, <1>18, <1>19, <1>20, <1>21, <1>22, <1>23
          DEF Next, InitStep, PfsStep

\* Each action keeps the clocks and counters within their bounds.
LEMMA ClockStep ==
    PcOK /\ ClockOK /\ [Next]_vars => ClockOK'
<1>. SUFFICES ASSUME PcOK, ClockOK, [Next]_vars
              PROVE  ClockOK'
  OBVIOUS
<1>. USE DEF Stages, NoStage, initVars, scriptVars, diskVars, PfsGoto, Goto, ClockOK,
             STATE_NONE, STATE_POST_FS_DATA, STATE_POST_FS_DATA_DONE, STATE_LATE_START_DONE,
             STATE_BOOT_COMPLETE
<1>1. ASSUME TriggerPostFsData
      PROVE  ClockOK'
  BY <1>1, TimeAssumption, ScriptAssumption, BoundAssumption DEF TriggerPostFsData
<1>2. ASSUME InitContinues
      PROVE  ClockOK'
  BY <1>2, TimeAssumption, ScriptAssumption, BoundAssumption DEF InitContinues
<1>3. ASSUME InitDecrypted
      PROVE  ClockOK'
  BY <1>3, TimeAssumption, ScriptAssumption, BoundAssumption DEF InitDecrypted
<1>4. ASSUME TriggerLateStart \/ TriggerBootComplete
      PROVE  ClockOK'
  BY <1>4, TimeAssumption, ScriptAssumption, BoundAssumption
     DEF TriggerLateStart, TriggerBootComplete
<1>5. ASSUME NEW s \in Stages, Lock(s)
      PROVE  ClockOK'
  BY <1>5, TimeAssumption, ScriptAssumption, BoundAssumption DEF Lock
<1>6. ASSUME PfsCheckData
      PROVE  ClockOK'
  BY <1>6, TimeAssumption, ScriptAssumption, BoundAssumption DEF PfsCheckData
<1>7. ASSUME PfsEnvironment
      PROVE  ClockOK'
  BY <1>7, TimeAssumption, ScriptAssumption, BoundAssumption DEF PfsEnvironment
<1>8. ASSUME PfsSafeMode
      PROVE  ClockOK'
  BY <1>8, TimeAssumption, ScriptAssumption, BoundAssumption DEF PfsSafeMode
<1>9. ASSUME PfsDisableModules \/ PfsStopHide
      PROVE  ClockOK'
  BY <1>9, TimeAssumption, ScriptAssumption, BoundAssumption DEF PfsDisableModules, PfsStopHide
<1>10. ASSUME PfsCommonScripts \/ PfsNoCommonScripts
       PROVE  ClockOK'
  BY <1>10, TimeAssumption, ScriptAssumption, BoundAssumption
     DEF PfsCommonScripts, PfsNoCommonScripts
<1>11. ASSUME StartScript("common", "common_wait") \/ StartScript("module", "module_wait")
       PROVE  ClockOK'
  BY <1>11, TimeAssumption, ScriptAssumption, BoundAssumption DEF StartScript
<1>12. ASSUME TimerFires("common", "common_wait") \/ TimerFires("module", "module_wait")
       PROVE  ClockOK'
  BY <1>12, TimeAssumption, ScriptAssumption, BoundAssumption DEF TimerFires
<1>13. ASSUME PfsAutoStartHide
       PROVE  ClockOK'
  BY <1>13, TimeAssumption, ScriptAssumption, BoundAssumption
     DEF PfsAutoStartHide, AutoStartHide
<1>14. ASSUME PfsModuleScripts \/ PfsRecollect
       PROVE  ClockOK'
  BY <1>14, TimeAssumption, ScriptAssumption, BoundAssumption DEF PfsModuleScripts, PfsRecollect
<1>15. ASSUME PfsMagicMount
       PROVE  ClockOK'
  BY <1>15, TimeAssumption, ScriptAssumption, BoundAssumption DEF PfsMagicMount
<1>16. ASSUME PfsUnblock
       PROVE  ClockOK'
  BY <1>16, TimeAssumption, ScriptAssumption, BoundAssumption DEF PfsUnblock
<1>17. ASSUME ScriptStep
       PROVE  ClockOK'
  BY <1>17, TimeAssumption, ScriptAssumption, BoundAssumption
     DEF ScriptStep, ScriptEnds, Uninstall
<1>18. ASSUME UninstallStep
       PROVE  ClockOK'
  BY <1>18, TimeAssumption, ScriptAssumption, BoundAssumption DEF UninstallStep, UninstallEnds
<1>19. ASSUME LateStart
       PROVE  ClockOK'
  BY <1>19, TimeAssumption, ScriptAssumption, BoundAssumption DEF LateStart
<1>20. ASSUME BootComplete
       PROVE  ClockOK'
  BY <1>20, TimeAssumption, ScriptAssumption, BoundAssumption DEF BootComplete, AutoStartHide
<1>21. ASSUME Tick
       PROVE  ClockOK'
  BY <1>21, TimeAssumption, ScriptAssumption, BoundAssumption DEF Tick, WaitsForKey, WaitLabels
<1>22. ASSUME DaemonDies
       PROVE  ClockOK'
  BY <1>22, TimeAssumption, ScriptAssumption, BoundAssumption DEF DaemonDies
<1>23. ASSUME UNCHANGED vars
       PROVE  ClockOK'
  BY <1>23, TimeAssumption, ScriptAssumption, BoundAssumption DEF vars
<1>. QED  BY <1>1, <1>2, <1>3, <1>4, <1>5, <1>6, <1>7, <1>8, <1>9, <1>10, <1>11, <1>12, <1>13,
             <1>14, <1>15, <1>16, <1>17, <1>18, <1>19, <1>20, <1>21, <1>22, <1>23
          DEF Next, InitStep, PfsStep

\* Each action preserves the types of the rest.
LEMMA FlagStep ==
    FlagOK /\ [Next]_vars => FlagOK'
<1>. SUFFICES ASSUME FlagOK, [Next]_vars
              PROVE  FlagOK'
  OBVIOUS
<1>. USE DEF Stages, NoStage, initVars, scriptVars, diskVars, PfsGoto, Goto, FlagOK
<1>1. ASSUME TriggerPostFsData
      PROVE  FlagOK'
  BY <1>1 DEF TriggerPostFsData
<1>2. ASSUME InitContinues
      PROVE  FlagOK'
  BY <1>2 DEF InitContinues
<1>3. ASSUME InitDecrypted
      PROVE  FlagOK'
  BY <1>3 DEF InitDecrypted
<1>4. ASSUME TriggerLateStart
      PROVE  FlagOK'
  BY <1>4 DEF TriggerLateStart
<1>5. ASSUME TriggerBootComplete
      PROVE  FlagOK'
  BY <1>5 DEF TriggerBootComplete
<1>6. ASSUME NEW s \in Stages, Lock(s)
      PROVE  FlagOK'
  BY <1>6 DEF Lock
<1>7. ASSUME PfsCheckData
      PROVE  FlagOK'
  BY <1>7 DEF PfsCheckData
<1>8. ASSUME PfsEnvironment
      PROVE  FlagOK'
  BY <1>8 DEF PfsEnvironment
<1>9. ASSUME PfsSafeMode
      PROVE  FlagOK'
  BY <1>9 DEF PfsSafeMode
<1>10. ASSUME PfsDisableModules
       PROVE  FlagOK'
  BY <1>10 DEF PfsDisableModules
<1>11. ASSUME PfsStopHide
       PROVE  FlagOK'
  <2>1. hideCfg' \in BOOLEAN /\ cfgStuck' \in BOOLEAN
    BY <1>11, Zenon DEF PfsStopHide
  <2>. QED
    BY <1>11, <2>1 DEF PfsStopHide
<1>12. ASSUME PfsCommonScripts
       PROVE  FlagOK'
  BY <1>12 DEF PfsCommonScripts
<1>13. ASSUME PfsNoCommonScripts
       PROVE  FlagOK'
  BY <1>13 DEF PfsNoCommonScripts
<1>14. ASSUME StartScript("common", "common_wait")
       PROVE  FlagOK'
  BY <1>14 DEF StartScript
<1>15. ASSUME StartScript("module", "module_wait")
       PROVE  FlagOK'
  BY <1>15 DEF StartScript
<1>16. ASSUME TimerFires("common", "common_wait")
       PROVE  FlagOK'
  BY <1>16, ZenonT(60) DEF TimerFires
<1>17. ASSUME TimerFires("module", "module_wait")
       PROVE  FlagOK'
  BY <1>17, ZenonT(60) DEF TimerFires
<1>18. ASSUME PfsAutoStartHide
       PROVE  FlagOK'
  <2>1. hideOn' \in BOOLEAN
    BY <1>18, Zenon DEF PfsAutoStartHide, AutoStartHide
  <2>. QED  BY <1>18, <2>1 DEF PfsAutoStartHide
<1>19. ASSUME PfsModuleScripts
       PROVE  FlagOK'
  BY <1>19 DEF PfsModuleScripts
<1>20. ASSUME PfsRecollect
       PROVE  FlagOK'
  BY <1>20, ZenonT(60) DEF PfsRecollect
<1>21. ASSUME PfsMagicMount
       PROVE  FlagOK'
  BY <1>21 DEF PfsMagicMount
<1>22. ASSUME PfsUnblock
       PROVE  FlagOK'
  BY <1>22 DEF PfsUnblock
<1>23. ASSUME ScriptEnds("common", "common_wait")
       PROVE  FlagOK'
  BY <1>23 DEF ScriptEnds
<1>24. ASSUME ScriptEnds("module", "module_wait")
       PROVE  FlagOK'
  BY <1>24 DEF ScriptEnds
<1>25. ASSUME Uninstall("collect", "collect_wait")
       PROVE  FlagOK'
  BY <1>25 DEF Uninstall
<1>26. ASSUME Uninstall("recollect", "recollect_wait")
       PROVE  FlagOK'
  BY <1>26 DEF Uninstall
<1>27. ASSUME UninstallEnds("collect", "collect_wait")
       PROVE  FlagOK'
  BY <1>27 DEF UninstallEnds
<1>28. ASSUME UninstallEnds("recollect", "recollect_wait")
       PROVE  FlagOK'
  BY <1>28 DEF UninstallEnds
<1>29. ASSUME LateStart
       PROVE  FlagOK'
  BY <1>29 DEF LateStart
<1>30. ASSUME BootComplete
       PROVE  FlagOK'
  <2>1. hideOn' \in BOOLEAN /\ secureDir' \in BOOLEAN
    BY <1>30, Zenon DEF BootComplete, AutoStartHide
  <2>. QED  BY <1>30, <2>1 DEF BootComplete
<1>31. ASSUME Tick
       PROVE  FlagOK'
  BY <1>31 DEF Tick, WaitsForKey, WaitLabels
<1>32. ASSUME DaemonDies
       PROVE  FlagOK'
  BY <1>32 DEF DaemonDies
<1>33. ASSUME UNCHANGED vars
       PROVE  FlagOK'
  BY <1>33 DEF vars
<1>. QED  BY <1>1, <1>2, <1>3, <1>4, <1>5, <1>6, <1>7, <1>8, <1>9, <1>10, <1>11, <1>12, <1>13,
             <1>14, <1>15, <1>16, <1>17, <1>18, <1>19, <1>20, <1>21, <1>22, <1>23, <1>24, <1>25,
             <1>26, <1>27, <1>28, <1>29, <1>30, <1>31, <1>32, <1>33
          DEF Next, InitStep, PfsStep, ScriptStep, UninstallStep

\* Each action preserves the types.
LEMMA TypeStep == TypeOK /\ [Next]_vars => TypeOK'
<1>1. TypeOK <=> PcOK /\ ClockOK /\ FlagOK
  BY Zenon DEF TypeOK, PcOK, ClockOK, FlagOK
<1>2. TypeOK' <=> PcOK' /\ ClockOK' /\ FlagOK'
  BY Zenon DEF TypeOK, PcOK, ClockOK, FlagOK
<1>. QED  BY <1>1, <1>2, PcStep, ClockStep, FlagStep

\* Each action preserves the order of the stages.
LEMMA LockStep ==
    TypeOK /\ LockInv /\ InitInv /\ [Next]_vars => LockInv' /\ InitInv'
<1>. SUFFICES ASSUME TypeOK, LockInv, InitInv, [Next]_vars
              PROVE  LockInv' /\ InitInv'
  OBVIOUS
<1>. USE DEF Stages, NoStage, initVars, scriptVars, diskVars, PfsGoto, Goto, TypeOK, Labels,
             WaitLabels, LockInv, InitInv, RunLabels
<1>1. ASSUME TriggerPostFsData
      PROVE  LockInv' /\ InitInv'
  BY <1>1 DEF TriggerPostFsData
<1>2. ASSUME InitContinues
      PROVE  LockInv' /\ InitInv'
  BY <1>2 DEF InitContinues
<1>3. ASSUME InitDecrypted
      PROVE  LockInv' /\ InitInv'
  BY <1>3 DEF InitDecrypted
<1>4. ASSUME TriggerLateStart \/ TriggerBootComplete
      PROVE  LockInv' /\ InitInv'
  BY <1>4 DEF TriggerLateStart, TriggerBootComplete
<1>5. ASSUME NEW s \in Stages, Lock(s)
      PROVE  LockInv' /\ InitInv'
  BY <1>5 DEF Lock
<1>6. ASSUME PfsCheckData
      PROVE  LockInv' /\ InitInv'
  BY <1>6 DEF PfsCheckData
<1>7. ASSUME PfsEnvironment
      PROVE  LockInv' /\ InitInv'
  BY <1>7 DEF PfsEnvironment
<1>8. ASSUME PfsSafeMode
      PROVE  LockInv' /\ InitInv'
  BY <1>8 DEF PfsSafeMode
<1>9. ASSUME PfsDisableModules \/ PfsStopHide
      PROVE  LockInv' /\ InitInv'
  BY <1>9 DEF PfsDisableModules, PfsStopHide
<1>10. ASSUME PfsCommonScripts \/ PfsNoCommonScripts
       PROVE  LockInv' /\ InitInv'
  BY <1>10 DEF PfsCommonScripts, PfsNoCommonScripts
<1>11. ASSUME StartScript("common", "common_wait") \/ StartScript("module", "module_wait")
       PROVE  LockInv' /\ InitInv'
  BY <1>11 DEF StartScript
<1>12. ASSUME TimerFires("common", "common_wait") \/ TimerFires("module", "module_wait")
       PROVE  LockInv' /\ InitInv'
  BY <1>12 DEF TimerFires
<1>13. ASSUME PfsAutoStartHide
       PROVE  LockInv' /\ InitInv'
  BY <1>13 DEF PfsAutoStartHide, AutoStartHide
<1>14. ASSUME PfsModuleScripts \/ PfsRecollect
       PROVE  LockInv' /\ InitInv'
  BY <1>14 DEF PfsModuleScripts, PfsRecollect
<1>15. ASSUME PfsMagicMount
       PROVE  LockInv' /\ InitInv'
  BY <1>15 DEF PfsMagicMount
<1>16. ASSUME PfsUnblock
       PROVE  LockInv' /\ InitInv'
  BY <1>16 DEF PfsUnblock
<1>17. ASSUME ScriptStep
       PROVE  LockInv' /\ InitInv'
  BY <1>17 DEF ScriptStep, ScriptEnds, Uninstall
<1>18. ASSUME UninstallStep
       PROVE  LockInv' /\ InitInv'
  BY <1>18 DEF UninstallStep, UninstallEnds
<1>19. ASSUME LateStart
       PROVE  LockInv' /\ InitInv'
  BY <1>19 DEF LateStart
<1>20. ASSUME BootComplete
       PROVE  LockInv' /\ InitInv'
  BY <1>20 DEF BootComplete, AutoStartHide
<1>21. ASSUME Tick
       PROVE  LockInv' /\ InitInv'
  BY <1>21 DEF Tick, WaitsForKey, WaitLabels
<1>22. ASSUME DaemonDies
       PROVE  LockInv' /\ InitInv'
  BY <1>22 DEF DaemonDies
<1>23. ASSUME UNCHANGED vars
       PROVE  LockInv' /\ InitInv'
  BY <1>23 DEF vars
<1>. QED  BY <1>1, <1>2, <1>3, <1>4, <1>5, <1>6, <1>7, <1>8, <1>9, <1>10, <1>11, <1>12, <1>13,
             <1>14, <1>15, <1>16, <1>17, <1>18, <1>19, <1>20, <1>21, <1>22, <1>23
          DEF Next, InitStep, PfsStep

\* Each action preserves what is known of magic mount.
LEMMA MountStep ==
    TypeOK /\ LockInv /\ InitInv /\ MountInv /\ [Next]_vars => MountInv'
<1>. SUFFICES ASSUME TypeOK, LockInv, InitInv, MountInv, [Next]_vars
              PROVE  MountInv'
  OBVIOUS
<1>. USE DEF Stages, NoStage, initVars, scriptVars, diskVars, PfsGoto, Goto, TypeOK, Labels,
             WaitLabels, LockInv, InitInv, RunLabels, MountLabels, MountInv
<1>1. ASSUME TriggerPostFsData
      PROVE  MountInv'
  BY <1>1 DEF TriggerPostFsData
<1>2. ASSUME InitContinues
      PROVE  MountInv'
  BY <1>2 DEF InitContinues
<1>3. ASSUME InitDecrypted
      PROVE  MountInv'
  BY <1>3 DEF InitDecrypted
<1>4. ASSUME TriggerLateStart \/ TriggerBootComplete
      PROVE  MountInv'
  BY <1>4 DEF TriggerLateStart, TriggerBootComplete
<1>5. ASSUME NEW s \in Stages, Lock(s)
      PROVE  MountInv'
  BY <1>5 DEF Lock
<1>6. ASSUME PfsCheckData
      PROVE  MountInv'
  BY <1>6 DEF PfsCheckData
<1>7. ASSUME PfsEnvironment
      PROVE  MountInv'
  BY <1>7 DEF PfsEnvironment
<1>8. ASSUME PfsSafeMode
      PROVE  MountInv'
  BY <1>8 DEF PfsSafeMode
<1>9. ASSUME PfsDisableModules \/ PfsStopHide
      PROVE  MountInv'
  BY <1>9 DEF PfsDisableModules, PfsStopHide
<1>10. ASSUME PfsCommonScripts \/ PfsNoCommonScripts
       PROVE  MountInv'
  BY <1>10 DEF PfsCommonScripts, PfsNoCommonScripts
<1>11. ASSUME StartScript("common", "common_wait") \/ StartScript("module", "module_wait")
       PROVE  MountInv'
  BY <1>11 DEF StartScript
<1>12. ASSUME TimerFires("common", "common_wait") \/ TimerFires("module", "module_wait")
       PROVE  MountInv'
  BY <1>12 DEF TimerFires
<1>13. ASSUME PfsAutoStartHide
       PROVE  MountInv'
  BY <1>13 DEF PfsAutoStartHide, AutoStartHide
<1>14. ASSUME PfsModuleScripts \/ PfsRecollect
       PROVE  MountInv'
  BY <1>14 DEF PfsModuleScripts, PfsRecollect
<1>15. ASSUME PfsMagicMount
       PROVE  MountInv'
  BY <1>15 DEF PfsMagicMount
<1>16. ASSUME PfsUnblock
       PROVE  MountInv'
  BY <1>16 DEF PfsUnblock
<1>17. ASSUME ScriptStep
       PROVE  MountInv'
  BY <1>17 DEF ScriptStep, ScriptEnds, Uninstall
<1>18. ASSUME UninstallStep
       PROVE  MountInv'
  BY <1>18 DEF UninstallStep, UninstallEnds
<1>19. ASSUME LateStart
       PROVE  MountInv'
  BY <1>19 DEF LateStart
<1>20. ASSUME BootComplete
       PROVE  MountInv'
  BY <1>20 DEF BootComplete, AutoStartHide
<1>21. ASSUME Tick
       PROVE  MountInv'
  BY <1>21 DEF Tick, WaitsForKey, WaitLabels
<1>22. ASSUME DaemonDies
       PROVE  MountInv'
  BY <1>22 DEF DaemonDies
<1>23. ASSUME UNCHANGED vars
       PROVE  MountInv'
  BY <1>23 DEF vars
<1>. QED  BY <1>1, <1>2, <1>3, <1>4, <1>5, <1>6, <1>7, <1>8, <1>9, <1>10, <1>11, <1>12, <1>13,
             <1>14, <1>15, <1>16, <1>17, <1>18, <1>19, <1>20, <1>21, <1>22, <1>23
          DEF Next, InitStep, PfsStep

\* Each action preserves what is known of safe mode and of the state.
LEMMA SafeStep ==
    TypeOK /\ LockInv /\ InitInv /\ MountInv /\ SafeInv /\ StateInv /\ [Next]_vars => SafeInv' /\ StateInv'
<1>. SUFFICES ASSUME TypeOK, LockInv, InitInv, MountInv, SafeInv, StateInv, [Next]_vars
              PROVE  SafeInv' /\ StateInv'
  OBVIOUS
<1>. USE DEF Stages, NoStage, initVars, scriptVars, diskVars, PfsGoto, Goto, TypeOK, Labels,
             WaitLabels, RunLabels, MountLabels, InitInv, MountInv, SafeInv, StateInv,
             STATE_NONE, STATE_POST_FS_DATA, STATE_POST_FS_DATA_DONE, STATE_LATE_START_DONE,
             STATE_BOOT_COMPLETE
<1>1. ASSUME TriggerPostFsData
      PROVE  SafeInv' /\ StateInv'
  BY <1>1 DEF TriggerPostFsData
<1>2. ASSUME InitContinues
      PROVE  SafeInv' /\ StateInv'
  BY <1>2 DEF InitContinues
<1>3. ASSUME InitDecrypted
      PROVE  SafeInv' /\ StateInv'
  BY <1>3 DEF InitDecrypted
<1>4. ASSUME TriggerLateStart \/ TriggerBootComplete
      PROVE  SafeInv' /\ StateInv'
  BY <1>4 DEF TriggerLateStart, TriggerBootComplete
<1>5. ASSUME NEW s \in Stages, Lock(s)
      PROVE  SafeInv' /\ StateInv'
  BY <1>5 DEF Lock
<1>6. ASSUME PfsCheckData
      PROVE  SafeInv' /\ StateInv'
  BY <1>6 DEF PfsCheckData
<1>7. ASSUME PfsEnvironment
      PROVE  SafeInv' /\ StateInv'
  BY <1>7 DEF PfsEnvironment
<1>8. ASSUME PfsSafeMode
      PROVE  SafeInv' /\ StateInv'
  BY <1>8 DEF PfsSafeMode
<1>9. ASSUME PfsDisableModules \/ PfsStopHide
      PROVE  SafeInv' /\ StateInv'
  BY <1>9 DEF PfsDisableModules, PfsStopHide
<1>10. ASSUME PfsCommonScripts \/ PfsNoCommonScripts
       PROVE  SafeInv' /\ StateInv'
  BY <1>10 DEF PfsCommonScripts, PfsNoCommonScripts
<1>11. ASSUME StartScript("common", "common_wait") \/ StartScript("module", "module_wait")
       PROVE  SafeInv' /\ StateInv'
  BY <1>11 DEF StartScript
<1>12. ASSUME TimerFires("common", "common_wait") \/ TimerFires("module", "module_wait")
       PROVE  SafeInv' /\ StateInv'
  BY <1>12 DEF TimerFires
<1>13. ASSUME PfsAutoStartHide
       PROVE  SafeInv' /\ StateInv'
  BY <1>13 DEF PfsAutoStartHide, AutoStartHide
<1>14. ASSUME PfsModuleScripts \/ PfsRecollect
       PROVE  SafeInv' /\ StateInv'
  BY <1>14 DEF PfsModuleScripts, PfsRecollect
<1>15. ASSUME PfsMagicMount
       PROVE  SafeInv' /\ StateInv'
  BY <1>15 DEF PfsMagicMount
<1>16. ASSUME PfsUnblock
       PROVE  SafeInv' /\ StateInv'
  BY <1>16 DEF PfsUnblock
<1>17. ASSUME ScriptStep
       PROVE  SafeInv' /\ StateInv'
  BY <1>17 DEF ScriptStep, ScriptEnds, Uninstall
<1>18. ASSUME UninstallStep
       PROVE  SafeInv' /\ StateInv'
  BY <1>18 DEF UninstallStep, UninstallEnds
<1>19. ASSUME LateStart
       PROVE  SafeInv' /\ StateInv'
  BY <1>19 DEF LateStart
<1>20. ASSUME BootComplete
       PROVE  SafeInv' /\ StateInv'
  BY <1>20 DEF BootComplete, AutoStartHide
<1>21. ASSUME Tick
       PROVE  SafeInv' /\ StateInv'
  BY <1>21 DEF Tick, WaitsForKey, WaitLabels
<1>22. ASSUME DaemonDies
       PROVE  SafeInv' /\ StateInv'
  BY <1>22 DEF DaemonDies
<1>23. ASSUME UNCHANGED vars
       PROVE  SafeInv' /\ StateInv'
  BY <1>23 DEF vars
<1>. QED  BY <1>1, <1>2, <1>3, <1>4, <1>5, <1>6, <1>7, <1>8, <1>9, <1>10, <1>11, <1>12, <1>13,
             <1>14, <1>15, <1>16, <1>17, <1>18, <1>19, <1>20, <1>21, <1>22, <1>23
          DEF Next, InitStep, PfsStep

\* Each action preserves the order of magic mount and service mode.
LEMMA ServiceStep ==
    TypeOK /\ InitInv /\ MountInv /\ SafeInv /\ StateInv /\ ServiceAfterMount /\ [Next]_vars => ServiceAfterMount'
<1>. SUFFICES ASSUME TypeOK, InitInv, MountInv, SafeInv, StateInv, ServiceAfterMount, [Next]_vars
              PROVE  ServiceAfterMount'
  OBVIOUS
<1>. USE DEF Stages, NoStage, initVars, scriptVars, diskVars, PfsGoto, Goto, TypeOK, Labels,
             WaitLabels, RunLabels, MountLabels, MountInv, StateInv, ServiceAfterMount,
             STATE_NONE, STATE_POST_FS_DATA, STATE_POST_FS_DATA_DONE, STATE_LATE_START_DONE,
             STATE_BOOT_COMPLETE
<1>1. ASSUME TriggerPostFsData
      PROVE  ServiceAfterMount'
  BY <1>1 DEF TriggerPostFsData
<1>2. ASSUME InitContinues
      PROVE  ServiceAfterMount'
  BY <1>2 DEF InitContinues
<1>3. ASSUME InitDecrypted
      PROVE  ServiceAfterMount'
  BY <1>3 DEF InitDecrypted
<1>4. ASSUME TriggerLateStart \/ TriggerBootComplete
      PROVE  ServiceAfterMount'
  BY <1>4 DEF TriggerLateStart, TriggerBootComplete
<1>5. ASSUME NEW s \in Stages, Lock(s)
      PROVE  ServiceAfterMount'
  BY <1>5 DEF Lock
<1>6. ASSUME PfsCheckData
      PROVE  ServiceAfterMount'
  BY <1>6 DEF PfsCheckData
<1>7. ASSUME PfsEnvironment
      PROVE  ServiceAfterMount'
  BY <1>7 DEF PfsEnvironment
<1>8. ASSUME PfsSafeMode
      PROVE  ServiceAfterMount'
  BY <1>8 DEF PfsSafeMode
<1>9. ASSUME PfsDisableModules \/ PfsStopHide
      PROVE  ServiceAfterMount'
  BY <1>9 DEF PfsDisableModules, PfsStopHide
<1>10. ASSUME PfsCommonScripts \/ PfsNoCommonScripts
       PROVE  ServiceAfterMount'
  BY <1>10 DEF PfsCommonScripts, PfsNoCommonScripts
<1>11. ASSUME StartScript("common", "common_wait") \/ StartScript("module", "module_wait")
       PROVE  ServiceAfterMount'
  BY <1>11 DEF StartScript
<1>12. ASSUME TimerFires("common", "common_wait") \/ TimerFires("module", "module_wait")
       PROVE  ServiceAfterMount'
  BY <1>12 DEF TimerFires
<1>13. ASSUME PfsAutoStartHide
       PROVE  ServiceAfterMount'
  BY <1>13 DEF PfsAutoStartHide, AutoStartHide
<1>14. ASSUME PfsModuleScripts \/ PfsRecollect
       PROVE  ServiceAfterMount'
  BY <1>14 DEF PfsModuleScripts, PfsRecollect
<1>15. ASSUME PfsMagicMount
       PROVE  ServiceAfterMount'
  BY <1>15 DEF PfsMagicMount
<1>16. ASSUME PfsUnblock
       PROVE  ServiceAfterMount'
  BY <1>16 DEF PfsUnblock
<1>17. ASSUME ScriptStep
       PROVE  ServiceAfterMount'
  BY <1>17 DEF ScriptStep, ScriptEnds, Uninstall
<1>18. ASSUME UninstallStep
       PROVE  ServiceAfterMount'
  BY <1>18 DEF UninstallStep, UninstallEnds
<1>19. ASSUME LateStart
       PROVE  ServiceAfterMount'
  BY <1>19 DEF LateStart
<1>20. ASSUME BootComplete
       PROVE  ServiceAfterMount'
  BY <1>20 DEF BootComplete, AutoStartHide
<1>21. ASSUME Tick
       PROVE  ServiceAfterMount'
  BY <1>21 DEF Tick, WaitsForKey, WaitLabels
<1>22. ASSUME DaemonDies
       PROVE  ServiceAfterMount'
  BY <1>22 DEF DaemonDies
<1>23. ASSUME UNCHANGED vars
       PROVE  ServiceAfterMount'
  BY <1>23 DEF vars
<1>. QED  BY <1>1, <1>2, <1>3, <1>4, <1>5, <1>6, <1>7, <1>8, <1>9, <1>10, <1>11, <1>12, <1>13,
             <1>14, <1>15, <1>16, <1>17, <1>18, <1>19, <1>20, <1>21, <1>22, <1>23
          DEF Next, InitStep, PfsStep

\* Each action preserves how long init has waited.
LEMMA TimeStep ==
    TypeOK /\ InitInv /\ MountInv /\ TimeInv /\ [Next]_vars => TimeInv'
<1>. SUFFICES ASSUME TypeOK, InitInv, MountInv, TimeInv, [Next]_vars
              PROVE  TimeInv'
  OBVIOUS
<1>. USE DEF Stages, NoStage, initVars, scriptVars, diskVars, PfsGoto, Goto, TypeOK, Labels,
             WaitLabels, RunLabels, MountLabels, InitInv, MountInv, TimeInv, Undisturbed
<1>1. ASSUME TriggerPostFsData
      PROVE  TimeInv'
  BY <1>1, TimeAssumption, DeadlineAssumption, BoundAssumption DEF TriggerPostFsData
<1>2. ASSUME InitContinues
      PROVE  TimeInv'
  BY <1>2, TimeAssumption, DeadlineAssumption, BoundAssumption DEF InitContinues
<1>3. ASSUME InitDecrypted
      PROVE  TimeInv'
  BY <1>3, TimeAssumption, DeadlineAssumption, BoundAssumption DEF InitDecrypted
<1>4. ASSUME TriggerLateStart \/ TriggerBootComplete
      PROVE  TimeInv'
  BY <1>4, TimeAssumption, DeadlineAssumption, BoundAssumption
     DEF TriggerLateStart, TriggerBootComplete
<1>5. ASSUME NEW s \in Stages, Lock(s)
      PROVE  TimeInv'
  BY <1>5, TimeAssumption, DeadlineAssumption, BoundAssumption DEF Lock
<1>6. ASSUME PfsCheckData
      PROVE  TimeInv'
  BY <1>6, TimeAssumption, DeadlineAssumption, BoundAssumption DEF PfsCheckData
<1>7. ASSUME PfsEnvironment
      PROVE  TimeInv'
  BY <1>7, TimeAssumption, DeadlineAssumption, BoundAssumption DEF PfsEnvironment
<1>8. ASSUME PfsSafeMode
      PROVE  TimeInv'
  BY <1>8, TimeAssumption, DeadlineAssumption, BoundAssumption DEF PfsSafeMode
<1>9. ASSUME PfsDisableModules \/ PfsStopHide
      PROVE  TimeInv'
  BY <1>9, TimeAssumption, DeadlineAssumption, BoundAssumption
     DEF PfsDisableModules, PfsStopHide
<1>10. ASSUME PfsCommonScripts \/ PfsNoCommonScripts
       PROVE  TimeInv'
  BY <1>10, TimeAssumption, DeadlineAssumption, BoundAssumption
     DEF PfsCommonScripts, PfsNoCommonScripts
<1>11. ASSUME StartScript("common", "common_wait") \/ StartScript("module", "module_wait")
       PROVE  TimeInv'
  BY <1>11, TimeAssumption, DeadlineAssumption, BoundAssumption DEF StartScript
<1>12. ASSUME TimerFires("common", "common_wait") \/ TimerFires("module", "module_wait")
       PROVE  TimeInv'
  BY <1>12, TimeAssumption, DeadlineAssumption, BoundAssumption DEF TimerFires
<1>13. ASSUME PfsAutoStartHide
       PROVE  TimeInv'
  BY <1>13, TimeAssumption, DeadlineAssumption, BoundAssumption
     DEF PfsAutoStartHide, AutoStartHide
<1>14. ASSUME PfsModuleScripts \/ PfsRecollect
       PROVE  TimeInv'
  BY <1>14, TimeAssumption, DeadlineAssumption, BoundAssumption
     DEF PfsModuleScripts, PfsRecollect
<1>15. ASSUME PfsMagicMount
       PROVE  TimeInv'
  BY <1>15, TimeAssumption, DeadlineAssumption, BoundAssumption DEF PfsMagicMount
<1>16. ASSUME PfsUnblock
       PROVE  TimeInv'
  BY <1>16, TimeAssumption, DeadlineAssumption, BoundAssumption DEF PfsUnblock
<1>17. ASSUME ScriptStep
       PROVE  TimeInv'
  BY <1>17, TimeAssumption, DeadlineAssumption, BoundAssumption
     DEF ScriptStep, ScriptEnds, Uninstall
<1>18. ASSUME UninstallStep
       PROVE  TimeInv'
  BY <1>18, TimeAssumption, DeadlineAssumption, BoundAssumption DEF UninstallStep, UninstallEnds
<1>19. ASSUME LateStart
       PROVE  TimeInv'
  BY <1>19, TimeAssumption, DeadlineAssumption, BoundAssumption DEF LateStart
<1>20. ASSUME BootComplete
       PROVE  TimeInv'
  BY <1>20, TimeAssumption, DeadlineAssumption, BoundAssumption DEF BootComplete, AutoStartHide
<1>21. ASSUME Tick
       PROVE  TimeInv'
  BY <1>21, TimeAssumption, DeadlineAssumption, BoundAssumption
     DEF Tick, WaitsForKey, WaitLabels
<1>22. ASSUME DaemonDies
       PROVE  TimeInv'
  BY <1>22, TimeAssumption, DeadlineAssumption, BoundAssumption DEF DaemonDies
<1>23. ASSUME UNCHANGED vars
       PROVE  TimeInv'
  BY <1>23, TimeAssumption, DeadlineAssumption, BoundAssumption DEF vars
<1>. QED  BY <1>1, <1>2, <1>3, <1>4, <1>5, <1>6, <1>7, <1>8, <1>9, <1>10, <1>11, <1>12, <1>13,
             <1>14, <1>15, <1>16, <1>17, <1>18, <1>19, <1>20, <1>21, <1>22, <1>23
          DEF Next, InitStep, PfsStep

\* Each action preserves that init does not go on too early.
LEMMA MountedStep ==
    TypeOK /\ MountInv /\ TimeInv /\ MountedBeforeBoot /\ [Next]_vars => MountedBeforeBoot'
<1>. SUFFICES ASSUME TypeOK, MountInv, TimeInv, MountedBeforeBoot, [Next]_vars
              PROVE  MountedBeforeBoot'
  OBVIOUS
<1>. USE DEF Stages, NoStage, initVars, scriptVars, diskVars, PfsGoto, Goto, TypeOK, MountInv,
             TimeInv, Undisturbed, MountedBeforeBoot
<1>1. ASSUME TriggerPostFsData
      PROVE  MountedBeforeBoot'
  BY <1>1, TimeAssumption, DeadlineAssumption, BoundAssumption DEF TriggerPostFsData
<1>2. ASSUME InitContinues
      PROVE  MountedBeforeBoot'
  BY <1>2, TimeAssumption, DeadlineAssumption, BoundAssumption DEF InitContinues
<1>3. ASSUME InitDecrypted
      PROVE  MountedBeforeBoot'
  BY <1>3, TimeAssumption, DeadlineAssumption, BoundAssumption DEF InitDecrypted
<1>4. ASSUME TriggerLateStart \/ TriggerBootComplete
      PROVE  MountedBeforeBoot'
  BY <1>4, TimeAssumption, DeadlineAssumption, BoundAssumption
     DEF TriggerLateStart, TriggerBootComplete
<1>5. ASSUME NEW s \in Stages, Lock(s)
      PROVE  MountedBeforeBoot'
  BY <1>5, TimeAssumption, DeadlineAssumption, BoundAssumption DEF Lock
<1>6. ASSUME PfsCheckData
      PROVE  MountedBeforeBoot'
  BY <1>6, TimeAssumption, DeadlineAssumption, BoundAssumption DEF PfsCheckData
<1>7. ASSUME PfsEnvironment
      PROVE  MountedBeforeBoot'
  BY <1>7, TimeAssumption, DeadlineAssumption, BoundAssumption DEF PfsEnvironment
<1>8. ASSUME PfsSafeMode
      PROVE  MountedBeforeBoot'
  BY <1>8, TimeAssumption, DeadlineAssumption, BoundAssumption DEF PfsSafeMode
<1>9. ASSUME PfsDisableModules \/ PfsStopHide
      PROVE  MountedBeforeBoot'
  BY <1>9, TimeAssumption, DeadlineAssumption, BoundAssumption
     DEF PfsDisableModules, PfsStopHide
<1>10. ASSUME PfsCommonScripts \/ PfsNoCommonScripts
       PROVE  MountedBeforeBoot'
  BY <1>10, TimeAssumption, DeadlineAssumption, BoundAssumption
     DEF PfsCommonScripts, PfsNoCommonScripts
<1>11. ASSUME StartScript("common", "common_wait") \/ StartScript("module", "module_wait")
       PROVE  MountedBeforeBoot'
  BY <1>11, TimeAssumption, DeadlineAssumption, BoundAssumption DEF StartScript
<1>12. ASSUME TimerFires("common", "common_wait") \/ TimerFires("module", "module_wait")
       PROVE  MountedBeforeBoot'
  BY <1>12, TimeAssumption, DeadlineAssumption, BoundAssumption DEF TimerFires
<1>13. ASSUME PfsAutoStartHide
       PROVE  MountedBeforeBoot'
  BY <1>13, TimeAssumption, DeadlineAssumption, BoundAssumption
     DEF PfsAutoStartHide, AutoStartHide
<1>14. ASSUME PfsModuleScripts \/ PfsRecollect
       PROVE  MountedBeforeBoot'
  BY <1>14, TimeAssumption, DeadlineAssumption, BoundAssumption
     DEF PfsModuleScripts, PfsRecollect
<1>15. ASSUME PfsMagicMount
       PROVE  MountedBeforeBoot'
  BY <1>15, TimeAssumption, DeadlineAssumption, BoundAssumption DEF PfsMagicMount
<1>16. ASSUME PfsUnblock
       PROVE  MountedBeforeBoot'
  BY <1>16, TimeAssumption, DeadlineAssumption, BoundAssumption DEF PfsUnblock
<1>17. ASSUME ScriptStep
       PROVE  MountedBeforeBoot'
  BY <1>17, TimeAssumption, DeadlineAssumption, BoundAssumption
     DEF ScriptStep, ScriptEnds, Uninstall
<1>18. ASSUME UninstallStep
       PROVE  MountedBeforeBoot'
  BY <1>18, TimeAssumption, DeadlineAssumption, BoundAssumption DEF UninstallStep, UninstallEnds
<1>19. ASSUME LateStart
       PROVE  MountedBeforeBoot'
  BY <1>19, TimeAssumption, DeadlineAssumption, BoundAssumption DEF LateStart
<1>20. ASSUME BootComplete
       PROVE  MountedBeforeBoot'
  BY <1>20, TimeAssumption, DeadlineAssumption, BoundAssumption DEF BootComplete, AutoStartHide
<1>21. ASSUME Tick
       PROVE  MountedBeforeBoot'
  BY <1>21, TimeAssumption, DeadlineAssumption, BoundAssumption
     DEF Tick, WaitsForKey, WaitLabels
<1>22. ASSUME DaemonDies
       PROVE  MountedBeforeBoot'
  BY <1>22, TimeAssumption, DeadlineAssumption, BoundAssumption DEF DaemonDies
<1>23. ASSUME UNCHANGED vars
       PROVE  MountedBeforeBoot'
  BY <1>23, TimeAssumption, DeadlineAssumption, BoundAssumption DEF vars
<1>. QED  BY <1>1, <1>2, <1>3, <1>4, <1>5, <1>6, <1>7, <1>8, <1>9, <1>10, <1>11, <1>12, <1>13,
             <1>14, <1>15, <1>16, <1>17, <1>18, <1>19, <1>20, <1>21, <1>22, <1>23
          DEF Next, InitStep, PfsStep

(***************************************************************************)
(* The theorems.                                                           *)
(***************************************************************************)

\* The invariant holds at first and is inductive.
LEMMA Invariance == Spec => []IInv
<1>1. Init => IInv
  <2>. SUFFICES ASSUME Init PROVE IInv
    OBVIOUS
  <2>0. elapsed \in 0 .. ScriptMax + 1 /\ 0 \in 0 .. WaitTime /\ 0 \in 0 .. KeyTime
        /\ 0 \in 0 .. MaxDeaths /\ 0 \in 0 .. MaxUninstalls
    BY TimeAssumption, BoundAssumption DEF Init
  <2>a. PcOK
    BY DEF Init, PcOK, Labels
  <2>b. ClockOK
    BY <2>0 DEF Init, ClockOK, STATE_NONE, STATE_BOOT_COMPLETE
  <2>c. FlagOK
    BY DEF Init, FlagOK
  <2>1. TypeOK
    BY <2>a, <2>b, <2>c, Zenon DEF TypeOK, PcOK, ClockOK, FlagOK
  <2>2. LockInv /\ InitInv /\ MountInv
    BY DEF Init, LockInv, InitInv, MountInv, Stages, NoStage, RunLabels, MountLabels, WaitLabels
  <2>3. SafeInv /\ StateInv /\ TimeInv /\ ServiceAfterMount /\ MountedBeforeBoot
    BY DEF Init, SafeInv, StateInv, TimeInv, Undisturbed, ServiceAfterMount, MountedBeforeBoot,
           Stages, STATE_NONE, STATE_POST_FS_DATA_DONE
  <2>. QED  BY <2>1, <2>2, <2>3 DEF IInv
<1>2. IInv /\ [Next]_vars => IInv'
  BY TypeStep, LockStep, MountStep, SafeStep, ServiceStep, TimeStep, MountedStep DEF IInv
<1>. QED  BY <1>1, <1>2, PTL DEF Spec

\* The variables keep their types: the clocks stop at their bounds.
THEOREM TypeCorrect == Spec => []TypeOK
<1>1. IInv => TypeOK
  BY DEF IInv
<1>. QED  BY <1>1, Invariance, PTL

\* The scripts of service mode run after magic mount and not in safe mode,
\* however often the daemon dies.
THEOREM ServiceKeepsItsPlace == Spec => []ServiceAfterMount
<1>1. IInv => ServiceAfterMount
  BY DEF IInv
<1>. QED  BY <1>1, Invariance, PTL

\* Whatever the scripts do, init does not go on before the modules are
\* mounted, as long as KeyTime and ScriptMax fit into WaitTime.
THEOREM ScriptsCannotDelayMount == Spec => []MountedBeforeBoot
<1>1. IInv => MountedBeforeBoot
  BY DEF IInv
<1>. QED  BY <1>1, Invariance, PTL

\* Safe mode leaves modules and hide switched off for good.
THEOREM SafeModeLasts == Spec => []SafeModeClean
<1>1. IInv => SafeModeClean
  BY DEF IInv, SafeInv, SafeModeClean
<1>. QED  BY <1>1, Invariance, PTL
=============================================================================
