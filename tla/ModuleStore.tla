---------------------------- MODULE ModuleStore ----------------------------
(* The modules on disk (core/module.cpp): modules holds the installed ones, *)
(* modules_update what waits for the next boot.  post-fs-data moves the     *)
(* updates in, deletes what is marked for removal and makes module_list;    *)
(* the device can lose power before any of the steps.  A directory is       *)
(* deleted file by file, in any order.                                      *)
EXTENDS Naturals, FiniteSets

CONSTANTS
    Modules,
    MaxEdits,     \* bound: what the user and the scripts do
    MaxCrashes    \* bound: losses of power

nobody == "nobody"
ASSUME ModulesAssumption == nobody \notin Modules /\ MaxEdits \in Nat /\ MaxCrashes \in Nat

\* A module's directory: none, only what the manager shows of an update
\* (stub), a part of the files (torn), or all (whole); and its flag files.
Contents == {"none", "stub", "torn", "whole"}
Flags == {"disable", "remove", "update"}
Dirs == [content : Contents, flags : SUBSET Flags]
NoDir == [content |-> "none", flags |-> {}]

VARIABLES
    modules, modules_update,    \* what is on disk
    module_list,
    phase,                      \* of post_fs_data
    cur,                        \* [m, step]: the directory being worked on
    seen,                       \* what readdir has returned
    pass,                       \* of collect_modules
    installing,                 \* the module whose installer runs
    edits, crashes,
    wanted,                     \* installed, and nobody asked for its removal
    disabled,                   \* disabled by the user, by safe mode or a script
    interrupted,                \* installation or removal was cut
    staleFlag,                  \* has a flag copied by a boot that crashed
    revived                     \* marked or wiped while its update waits

disk == <<modules, modules_update>>
boot == <<module_list, phase, cur, seen, pass>>
ghost == <<wanted, disabled, interrupted, staleFlag, revived>>
storeVars == <<disk, boot, installing, edits, crashes, ghost>>

Idle == [m |-> nobody, step |-> "idle"]
Phases == {"off", "upgrade", "collect", "scripts", "load", "up", "wipe", "recovery"}
Steps == {"idle", "shred", "rename", "uninstall", "delete"}

StoreTypeOK ==
    /\ modules \in [Modules -> Dirs] /\ modules_update \in [Modules -> Dirs]
    /\ module_list \subseteq Modules /\ phase \in Phases /\ seen \subseteq Modules
    /\ cur.m \in Modules \cup {nobody} /\ cur.step \in Steps /\ pass \in 1..2
    /\ installing \in Modules \cup {nobody}
    /\ edits \in 0..MaxEdits /\ crashes \in 0..MaxCrashes
    /\ wanted \subseteq Modules /\ disabled \subseteq Modules
    /\ interrupted \subseteq Modules /\ staleFlag \subseteq Modules /\ revived \subseteq Modules

StoreInit ==
    /\ modules \in [Modules -> {NoDir, [content |-> "whole", flags |-> {}]}]
    /\ modules_update = [m \in Modules |-> NoDir]
    /\ module_list = {} /\ phase = "off" /\ cur = Idle /\ seen = {} /\ pass = 1
    /\ installing = nobody /\ edits = 0 /\ crashes = 0
    /\ wanted = {m \in Modules : modules[m].content = "whole"}
    /\ disabled = {} /\ interrupted = {} /\ staleFlag = {} /\ revived = {}

Exists(d) == d.content # "none"
Work(m, step) == cur' = [m |-> m, step |-> step]

\* frm_rf, one file: the result of one unlinkat.
Shredded(d) ==
    {[d EXCEPT !.flags = @ \ {f}] : f \in d.flags} \cup
    (IF d.content \in {"whole", "stub"} THEN {[d EXCEPT !.content = "torn"]} ELSE {})
IsEmpty(d) == d.content = "torn" /\ d.flags = {}

(***************************************************************************)
(* prepare_modules                                                         *)
(***************************************************************************)

StartBoot ==
    /\ phase = "off" /\ phase' = "upgrade" /\ seen' = {}
    /\ UNCHANGED <<disk, module_list, cur, pass, installing, edits, crashes, ghost>>

\* The old version's disable flag is not carried over.
TakeUpdateEnabled(m) ==
    /\ phase = "upgrade" /\ cur = Idle /\ m \notin seen /\ Exists(modules_update[m])
    /\ seen' = seen \cup {m} /\ Work(m, IF Exists(modules[m]) THEN "shred" ELSE "rename")
    /\ UNCHANGED <<disk, module_list, phase, pass, installing, edits, crashes, ghost>>

\* Every module with an old version ends disabled.
TakeUpdateDisabled(m) ==
    /\ phase = "upgrade" /\ cur = Idle /\ m \notin seen /\ Exists(modules_update[m])
    /\ seen' = seen \cup {m} /\ Work(m, IF Exists(modules[m]) THEN "shred" ELSE "rename")
    /\ modules_update' = IF Exists(modules[m])
                         THEN [modules_update EXCEPT ![m].flags = @ \cup {"disable"}]
                         ELSE modules_update
    /\ UNCHANGED <<modules, module_list, phase, pass, installing, edits, crashes, ghost>>

\* The next entry of modules_update: a disabled module stays disabled.
TakeUpdate(m) ==
    /\ phase = "upgrade" /\ cur = Idle /\ m \notin seen /\ Exists(modules_update[m])
    /\ seen' = seen \cup {m}
    /\ Work(m, IF Exists(modules[m]) THEN "shred" ELSE "rename")
    /\ modules_update' = IF "disable" \in modules[m].flags
                         THEN [modules_update EXCEPT ![m].flags = @ \cup {"disable"}]
                         ELSE modules_update
    /\ UNCHANGED <<modules, module_list, phase, pass, installing, edits, crashes, ghost>>

ShredOld ==
    /\ cur.step = "shred"
    /\ \/ /\ \E d \in Shredded(modules[cur.m]) : modules' = [modules EXCEPT ![cur.m] = d]
          /\ UNCHANGED cur
       \/ /\ IsEmpty(modules[cur.m])
          /\ modules' = [modules EXCEPT ![cur.m] = NoDir] /\ Work(cur.m, "rename")
    /\ UNCHANGED <<modules_update, module_list, phase, seen, pass, installing, edits, crashes, ghost>>

Rename ==
    /\ cur.step = "rename" /\ cur' = Idle
    /\ modules' = [modules EXCEPT ![cur.m] = modules_update[cur.m]]
    /\ modules_update' = [modules_update EXCEPT ![cur.m] = NoDir]
    /\ UNCHANGED <<module_list, phase, seen, pass, installing, edits, crashes, ghost>>

\* modules_update is removed as soon as one module has been moved.
FinishEarly ==
    /\ phase = "upgrade" /\ cur = Idle
    /\ seen # {} \/ \A m \in Modules : ~Exists(modules_update[m])
    /\ modules_update' = [m \in Modules |-> NoDir]
    /\ phase' = "collect" /\ seen' = {} /\ pass' = 1 /\ module_list' = {}
    /\ UNCHANGED <<modules, cur, installing, edits, crashes, ghost>>

\* rm_rf of modules_update, the module mount; collect_modules is next.
FinishUpgrade ==
    /\ phase = "upgrade" /\ cur = Idle
    /\ \A m \in Modules : Exists(modules_update[m]) => m \in seen
    /\ modules_update' = [m \in Modules |-> NoDir]
    /\ phase' = "collect" /\ seen' = {} /\ pass' = 1 /\ module_list' = {}
    /\ UNCHANGED <<modules, cur, installing, edits, crashes, ghost>>

(***************************************************************************)
(* collect_modules, twice                                                  *)
(***************************************************************************)

\* Mutant: a module marked for removal is listed before it is deleted.
CollectFallsThrough(m) ==
    /\ phase = "collect" /\ cur = Idle /\ m \notin seen /\ Exists(modules[m])
    /\ seen' = seen \cup {m}
    /\ IF "remove" \in modules[m].flags THEN Work(m, "uninstall") ELSE UNCHANGED cur
    /\ modules' = [modules EXCEPT ![m].flags = @ \ {"update"}]
    /\ module_list' = IF "disable" \in modules[m].flags THEN module_list ELSE module_list \cup {m}
    /\ UNCHANGED <<modules_update, phase, pass, installing, edits, crashes, ghost>>

CollectModule(m) ==
    /\ phase = "collect" /\ cur = Idle /\ m \notin seen /\ Exists(modules[m])
    /\ seen' = seen \cup {m}
    /\ IF "remove" \in modules[m].flags
       THEN Work(m, "uninstall") /\ UNCHANGED <<modules, module_list>>
       ELSE /\ modules' = [modules EXCEPT ![m].flags = @ \ {"update"}]
            /\ module_list' = IF "disable" \in modules[m].flags THEN module_list
                              ELSE module_list \cup {m}
            /\ UNCHANGED cur
    /\ UNCHANGED <<modules_update, phase, pass, installing, edits, crashes, ghost>>

\* uninstall.sh, if it is there; the flag is still set should it be cut.
RunUninstaller ==
    /\ cur.step = "uninstall" /\ Work(cur.m, "delete")
    /\ disabled' = disabled \ {cur.m}
    /\ UNCHANGED <<disk, module_list, phase, seen, pass, installing, edits, crashes, wanted,
                   interrupted, staleFlag, revived>>

DeleteModule ==
    /\ cur.step = "delete"
    /\ \/ /\ \E d \in Shredded(modules[cur.m]) : modules' = [modules EXCEPT ![cur.m] = d]
          /\ UNCHANGED cur
       \/ /\ IsEmpty(modules[cur.m])
          /\ modules' = [modules EXCEPT ![cur.m] = NoDir] /\ cur' = Idle
    /\ UNCHANGED <<modules_update, module_list, phase, seen, pass, installing, edits, crashes, ghost>>

CollectDone ==
    /\ phase = "collect" /\ cur = Idle /\ \A m \in Modules : Exists(modules[m]) => m \in seen
    /\ phase' = IF pass = 1 THEN "scripts" ELSE "load"
    /\ UNCHANGED <<disk, module_list, cur, seen, pass, installing, edits, crashes, ghost>>

\* A module's post-fs-data.sh may delete, remove or disable its own module.
Script(m) ==
    /\ phase = "scripts" /\ m \in module_list /\ Exists(modules[m])
    /\ edits < MaxEdits /\ edits' = edits + 1
    /\ \/ modules' = [modules EXCEPT ![m] = NoDir] /\ wanted' = wanted \ {m} /\ UNCHANGED disabled
       \/ modules' = [modules EXCEPT ![m].flags = @ \cup {"remove"}] /\ wanted' = wanted \ {m}
          /\ UNCHANGED disabled
       \/ modules' = [modules EXCEPT ![m].flags = @ \cup {"disable"}] /\ UNCHANGED wanted
          /\ disabled' = disabled \cup {m}
    /\ UNCHANGED <<modules_update, boot, installing, crashes, interrupted, staleFlag, revived>>

\* The second pass keeps the list of the first.
RecollectAppend ==
    /\ phase = "scripts" /\ phase' = "collect" /\ pass' = 2 /\ seen' = {}
    /\ UNCHANGED <<disk, module_list, cur, installing, edits, crashes, ghost>>

Recollect ==
    /\ phase = "scripts" /\ phase' = "collect" /\ pass' = 2 /\ seen' = {} /\ module_list' = {}
    /\ UNCHANGED <<disk, cur, installing, edits, crashes, ghost>>

Loaded ==
    /\ phase = "load" /\ phase' = "up"
    /\ UNCHANGED <<disk, module_list, cur, seen, pass, installing, edits, crashes, ghost>>

\* Safe mode: disable_modules instead of handle_modules.
SafeModeBoot ==
    /\ phase = "off" /\ phase' = "up" /\ module_list' = {}
    /\ modules' = [m \in Modules |-> IF Exists(modules[m])
                                      THEN [modules[m] EXCEPT !.flags = @ \cup {"disable"}]
                                      ELSE modules[m]]
    /\ disabled' = disabled \cup {m \in Modules : Exists(modules[m])}
    /\ UNCHANGED <<modules_update, cur, seen, pass, installing, edits, crashes, wanted,
                   interrupted, staleFlag, revived>>

(***************************************************************************)
(* The device is up                                                        *)
(***************************************************************************)

\* A flag the user sets is no longer the one a crash has left, unless the
\* update still has that.
Settled(m) == IF "disable" \in modules_update[m].flags THEN staleFlag ELSE staleFlag \ {m}

\* The manager creates or deletes a flag file of an installed module. It does
\* not look at modules_update.
SetFlag(m) ==
    /\ phase = "up" /\ Exists(modules[m]) /\ edits < MaxEdits /\ edits' = edits + 1
    /\ \/ modules' = [modules EXCEPT ![m].flags = @ \cup {"disable"}]
          /\ disabled' = disabled \cup {m} /\ staleFlag' = Settled(m) /\ UNCHANGED <<wanted, revived>>
       \/ modules' = [modules EXCEPT ![m].flags = @ \ {"disable"}]
          /\ disabled' = disabled \ {m} /\ staleFlag' = Settled(m) /\ UNCHANGED <<wanted, revived>>
       \/ modules' = [modules EXCEPT ![m].flags = @ \cup {"remove"}]
          /\ wanted' = wanted \ {m} /\ UNCHANGED <<disabled, staleFlag>>
          /\ revived' = IF Exists(modules_update[m]) THEN revived \cup {m} ELSE revived \ {m}
       \/ modules' = [modules EXCEPT ![m].flags = @ \ {"remove"}]
          /\ wanted' = wanted \cup {m} /\ UNCHANGED <<disabled, staleFlag, revived>>
    /\ UNCHANGED <<modules_update, boot, installing, crashes, interrupted>>

\* install_module empties the directory, rm -rf in any order, and fills it.
Unfinished(d) == {NoDir} \cup {[content |-> "torn", flags |-> F] : F \in SUBSET d.flags}

\* The manager is running: the module goes to modules_update.
BeginInstall(m) ==
    /\ phase = "up" /\ installing = nobody /\ edits < MaxEdits /\ edits' = edits + 1
    /\ installing' = m
    /\ \E d \in Unfinished(modules_update[m]) : modules_update' = [modules_update EXCEPT ![m] = d]
    /\ UNCHANGED <<modules, boot, crashes, ghost>>

\* Recovery: it goes to modules, whatever waits in modules_update.
BeginRecoveryInstall(m) ==
    /\ phase = "off" /\ edits < MaxEdits /\ edits' = edits + 1
    /\ phase' = "recovery" /\ installing' = m
    /\ \E d \in Unfinished(modules[m]) : modules' = [modules EXCEPT ![m] = d]
    /\ UNCHANGED <<modules_update, module_list, cur, seen, pass, crashes, ghost>>

\* An update of a disabled module is disabled, too; what a cut installation
\* or removal has left of the flags is what counts after it.
KeepsDisabled ==
    /\ Exists(modules[installing])
    /\ IF installing \in interrupted THEN "disable" \in modules[installing].flags ELSE installing \in disabled

\* All files are there, and the manager shows the update.
EndInstall ==
    /\ phase = "up" /\ installing # nobody /\ installing' = nobody
    /\ modules_update' = [modules_update EXCEPT ![installing] = [content |-> "whole", flags |-> {}]]
    /\ modules' = [modules EXCEPT ![installing] =
                    [content |-> IF Exists(@) THEN @.content ELSE "stub", flags |-> @.flags \cup {"update"}]]
    /\ wanted' = wanted \cup {installing} /\ interrupted' = interrupted \ {installing}
    /\ disabled' = IF KeepsDisabled THEN disabled \cup {installing} ELSE disabled \ {installing}
    /\ UNCHANGED <<boot, edits, crashes, staleFlag, revived>>

\* A part of an update that waits still replaces it at the next boot.
EndRecoveryInstall ==
    /\ phase = "recovery" /\ phase' = "off" /\ installing' = nobody
    /\ modules' = [modules EXCEPT ![installing] = [content |-> "whole", flags |-> {}]]
    /\ wanted' = wanted \cup {installing} /\ disabled' = disabled \ {installing}
    /\ interrupted' = IF modules_update[installing].content = "torn" THEN interrupted
                      ELSE interrupted \ {installing}
    /\ staleFlag' = Settled(installing)
    /\ UNCHANGED <<modules_update, module_list, cur, seen, pass, edits, crashes, revived>>

\* abort: what was installed so far is deleted.
AbortInstall ==
    /\ installing # nobody /\ installing' = nobody
    /\ IF phase = "recovery"
       THEN phase' = "off" /\ modules' = [modules EXCEPT ![installing] = NoDir] /\ UNCHANGED modules_update
       ELSE modules_update' = [modules_update EXCEPT ![installing] = NoDir] /\ UNCHANGED <<modules, phase>>
    /\ interrupted' = interrupted \cup {installing}
    /\ UNCHANGED <<module_list, cur, seen, pass, edits, crashes, wanted, disabled, staleFlag, revived>>

\* remove_modules runs every uninstaller; the reboot after it cuts an
\* installer. modules_update is left alone.
RemoveModules ==
    /\ phase \in {"load", "up"} /\ edits < MaxEdits /\ edits' = edits + 1
    /\ phase' = "wipe" /\ module_list' = {} /\ installing' = nobody
    /\ interrupted' = interrupted \cup ({installing} \ {nobody})
    /\ wanted' = {} /\ disabled' = {}
    /\ revived' = {m \in Modules : Exists(modules_update[m])}
    /\ UNCHANGED <<disk, cur, seen, pass, crashes, staleFlag>>

\* rm_rf of modules, one file.
WipeFile ==
    /\ phase = "wipe"
    /\ \E m \in Modules :
          \/ \E d \in Shredded(modules[m]) : modules' = [modules EXCEPT ![m] = d]
          \/ IsEmpty(modules[m]) /\ modules' = [modules EXCEPT ![m] = NoDir]
    /\ UNCHANGED <<modules_update, boot, installing, edits, crashes, ghost>>

WipeDone ==
    /\ phase = "wipe" /\ \A m \in Modules : ~Exists(modules[m])
    /\ phase' = "off"
    /\ UNCHANGED <<disk, module_list, cur, seen, pass, installing, edits, crashes, ghost>>

Reboot ==
    /\ phase = "up" /\ installing = nobody
    /\ phase' = "off" /\ module_list' = {}
    /\ UNCHANGED <<disk, cur, seen, pass, installing, edits, crashes, ghost>>

\* Power is lost: the disk stays as it is.
Crash ==
    /\ phase # "off" /\ crashes < MaxCrashes /\ crashes' = crashes + 1
    /\ phase' = "off" /\ module_list' = {} /\ cur' = Idle /\ installing' = nobody
    /\ interrupted' = interrupted \cup ({installing} \ {nobody})
                        \cup (IF cur.step = "delete" THEN {cur.m} ELSE {})
                        \cup {m \in Modules : phase = "wipe" /\ Exists(modules[m])}
    /\ staleFlag' = staleFlag \cup {m \in Modules : "disable" \in modules_update[m].flags}
    /\ UNCHANGED <<disk, seen, pass, edits, wanted, disabled, revived>>

StoreNext ==
    \/ StartBoot \/ ShredOld \/ Rename \/ FinishUpgrade \/ RunUninstaller \/ DeleteModule
    \/ CollectDone \/ Recollect \/ Loaded \/ SafeModeBoot \/ EndInstall \/ EndRecoveryInstall \/ AbortInstall
    \/ RemoveModules \/ WipeFile \/ WipeDone \/ Reboot \/ Crash
    \/ \E m \in Modules : \/ TakeUpdate(m) \/ CollectModule(m) \/ Script(m) \/ SetFlag(m)
                          \/ BeginInstall(m) \/ BeginRecoveryInstall(m)
StoreSpec == StoreInit /\ [][StoreNext]_storeVars

(***************************************************************************)
(* Properties                                                              *)
(***************************************************************************)

\* However often the boot is cut, a module that was installed and that nobody
\* asked to remove is complete in modules or in modules_update; only an
\* installer that was cut itself may have cost it.
NothingLost ==
    \A m \in wanted \ (interrupted \cup {installing}) :
        modules[m].content = "whole" \/ modules_update[m].content = "whole"

\* A disabled module is not loaded: an update keeps the flag, even when the
\* old directory was half deleted by an earlier boot.
StaysDisabled == phase = "load" => module_list \cap (disabled \ interrupted) = {}

\* No part of a module is loaded, and not the stub of an update, unless an
\* installation or a removal was cut.
LoadedWhole ==
    phase = "load" => \A m \in module_list \ interrupted : modules[m].content = "whole"

\* A module the user enabled is loaded, unless a boot that crashed left a
\* disable flag in its update.
EnabledLoaded ==
    phase = "load" => wanted \ (disabled \cup interrupted \cup staleFlag) \subseteq module_list

\* A module that is marked for removal or wiped is not loaded, unless the
\* removal was cut or its update was waiting.
OnlyWanted == phase = "load" => module_list \ (interrupted \cup revived) \subseteq wanted

\* handle_modules hands on the modules the user asked for, whole, and no
\* other, wherever earlier boots were cut; what is excepted has a name:
\* interrupted, staleFlag and revived.
LoadedAsAsked == StaysDisabled /\ LoadedWhole /\ EnabledLoaded /\ OnlyWanted
=============================================================================
