---------------------------- MODULE DeviceProofs ----------------------------
(* The parts of the daemon that keep files or serve one client: modules     *)
(* (ModuleStore), persistent properties (Props) and the database (Database) *)
(* survive losses of power and kills at any step, the log (LogDaemon) has   *)
(* every message, and a superuser session (SuSession) gives the terminal    *)
(* back and passes on what the shell wrote and how it ended: for every set  *)
(* of modules, properties, users and sessions and any amount of data.       *)
EXTENDS ModuleStore, Props, LogDaemon, SuSession, Database, SequenceTheorems, TLAPS

(***************************************************************************)
(* Modules: the invariant                                                  *)
(***************************************************************************)

\* A directory is worked on only in its phase, and an installer runs only
\* while the device is up or in recovery.
PhaseInv ==
    /\ cur = Idle \/ /\ cur.m \in Modules
                     /\ \/ phase = "upgrade" /\ cur.step \in {"shred", "rename"}
                        \/ phase = "collect" /\ cur.step \in {"uninstall", "delete"}
    /\ installing # nobody => phase \in {"up", "recovery"}
    /\ phase = "recovery" => installing # nobody

\* Where updates are: each one that has been seen is moved, except the one
\* in hand, and none is left after the upgrade. An update is whole unless its
\* installer runs or was cut, and has no flag but disable.
UpdateInv ==
    \A m \in Modules :
        /\ ~Exists(modules[m]) => modules[m].flags = {}
        /\ modules_update[m].content # "stub" /\ modules_update[m].flags \subseteq {"disable"}
        /\ ~Exists(modules_update[m]) => modules_update[m].flags = {}
        /\ m \notin interrupted /\ ~(m = installing /\ phase = "up") => modules_update[m].content # "torn"
        /\ phase = "upgrade" /\ m \in seen => cur.m = m \/ ~Exists(modules_update[m])
        /\ phase \in {"collect", "scripts", "load"} => ~Exists(modules_update[m])
        /\ phase = "upgrade" /\ cur.m = m => Exists(modules_update[m])

\* A directory that is not whole waits for its update or is being deleted;
\* what is marked for removal or being deleted is not wanted, unless its
\* update is there; and what is not wanted is marked, unless its update came
\* after that.
WholeInv ==
    \A m \in Modules \ (interrupted \cup {installing}) :
        /\ modules[m].content \in {"stub", "torn"} =>
              modules_update[m].content = "whole" \/ (cur.m = m /\ cur.step = "delete") \/ phase = "wipe"
        /\ m \in wanted /\ "remove" \in modules[m].flags => modules_update[m].content = "whole"
        /\ m \in wanted => ~(phase = "collect" /\ cur.m = m) /\ phase # "wipe"
        /\ m \notin wanted \cup revived =>
              /\ ~Exists(modules_update[m])
              /\ Exists(modules[m]) => \/ "remove" \in modules[m].flags \/ phase = "wipe"
                                       \/ cur.m = m /\ cur.step = "delete"

\* Where the disable flag of a disabled module is: with the directory, or
\* with the update that is about to replace it.
DisabledInv ==
    \A m \in disabled \ interrupted :
      ~(phase = "recovery" /\ m = installing) =>
        /\ \/ "disable" \in modules[m].flags \/ "disable" \in modules_update[m].flags
           \/ ~Exists(modules[m]) /\ (~Exists(modules_update[m]) \/ m = installing)
        /\ phase = "up" /\ Exists(modules[m]) => "disable" \in modules[m].flags
        /\ phase = "upgrade" /\ cur.m = m => "disable" \in modules_update[m].flags
        /\ ~(cur.m = m /\ cur.step = "delete")
        /\ phase # "wipe"

\* And no other module has one, unless a crash left it.
EnabledInv ==
    \A m \in Modules :
        /\ m \notin disabled \cup interrupted \cup staleFlag =>
              /\ "disable" \notin modules_update[m].flags
              /\ "disable" \in modules[m].flags =>
                    \/ cur.m = m /\ cur.step = "delete"
                    \/ phase = "wipe" \/ (phase = "recovery" /\ m = installing)
        /\ "disable" \in modules_update[m].flags /\ phase # "upgrade" => m \in staleFlag

\* module_list while it is made and when it is handed on.
ListInv ==
    /\ phase = "collect" => module_list \subseteq seen /\ cur.m \notin module_list
    /\ phase \in {"collect", "load"} =>
          /\ module_list \cap (disabled \ interrupted) = {}
          /\ \A m \in module_list \ interrupted : modules[m].content = "whole"
          /\ module_list \ (interrupted \cup revived) \subseteq wanted
    /\ phase = "collect" => (wanted \ (disabled \cup interrupted \cup staleFlag)) \cap seen \subseteq module_list

StoreInv ==
    /\ StoreTypeOK /\ PhaseInv /\ UpdateInv /\ WholeInv /\ NothingLost
    /\ DisabledInv /\ EnabledInv /\ ListInv /\ EnabledLoaded

(***************************************************************************)
(* Modules: the steps                                                      *)
(***************************************************************************)

\* Two directory trees that differ in one module's directory.
Differ(f, g, c) == g \in [Modules -> Dirs] /\ \A n \in Modules \ {c} : g[n] = f[n]

\* Changing one module's directory leaves the others' alone.
LEMMA Replaced ==
    ASSUME NEW f \in [Modules -> Dirs], NEW c \in Modules, NEW d \in Dirs
    PROVE  Differ(f, [f EXCEPT ![c] = d], c) /\ [f EXCEPT ![c] = d][c] = d
  BY DEF Differ

\* What setting and clearing a flag file does to a directory.
LEMMA Flagged ==
    ASSUME NEW f \in [Modules -> Dirs], NEW c \in Modules, NEW F \in SUBSET Flags
    PROVE  LET g == [f EXCEPT ![c].flags = F]
           IN  Differ(f, g, c) /\ g[c].content = f[c].content /\ g[c].flags = F
  BY DEF Differ, Dirs

\* One file less.
LEMMA OneShred ==
    ASSUME NEW d \in Dirs, NEW e \in Shredded(d)
    PROVE  /\ e \in Dirs /\ e.flags \subseteq d.flags
           /\ e.content = d.content \/ (e.content = "torn" /\ Exists(d))
  BY DEF Shredded, Dirs, Contents, Exists

\* Every directory is absent, a stub, torn or whole.
LEMMA Kinds ==
    StoreTypeOK => \A n \in Modules : modules[n].content \in Contents /\ modules_update[n].content \in Contents
  BY DEF StoreTypeOK, Dirs

\* An absent directory has nothing in it.
LEMMA Gone == NoDir \in Dirs /\ NoDir.content = "none" /\ NoDir.flags = {}
  BY DEF NoDir, Dirs, Contents

\* A step of rm_rf on the old version.
LEMMA ShredOldEffect ==
    ASSUME StoreTypeOK, PhaseInv, ShredOld
    PROVE  /\ cur.m \in Modules /\ cur.step = "shred" /\ Differ(modules, modules', cur.m)
           /\ \/ /\ cur' = cur /\ modules'[cur.m].flags \subseteq modules[cur.m].flags
                 /\ modules'[cur.m].content = modules[cur.m].content
                      \/ (modules'[cur.m].content = "torn" /\ Exists(modules[cur.m]))
              \/ /\ cur'.m = cur.m /\ cur'.step = "rename"
                 /\ modules'[cur.m].content = "none" /\ modules'[cur.m].flags = {}
<1>. DEFINE c == cur.m
<1>0. c \in Modules /\ modules \in [Modules -> Dirs] /\ modules[c] \in Dirs
  BY DEF StoreTypeOK, PhaseInv, ShredOld, Idle
<1>1. ASSUME NEW d \in Shredded(modules[c]), modules' = [modules EXCEPT ![c] = d]
      PROVE  /\ Differ(modules, modules', c) /\ modules'[c].flags \subseteq modules[c].flags
             /\ modules'[c].content = modules[c].content
                  \/ (modules'[c].content = "torn" /\ Exists(modules[c]))
  <2>1. /\ d \in Dirs /\ d.flags \subseteq modules[c].flags
        /\ d.content = modules[c].content \/ (d.content = "torn" /\ Exists(modules[c]))
    BY <1>0, OneShred
  <2>2. Differ(modules, modules', c) /\ modules'[c] = d
    BY <1>0, <1>1, <2>1, Replaced
  <2>. QED  BY <2>1, <2>2
<1>2. ASSUME modules' = [modules EXCEPT ![c] = NoDir]
      PROVE  Differ(modules, modules', c) /\ modules'[c].content = "none" /\ modules'[c].flags = {}
  BY <1>0, <1>2, Gone, Replaced
<1>. QED  BY <1>0, <1>1, <1>2 DEF ShredOld, Work, Idle, IsEmpty

\* A step of rm_rf on a removed module.
LEMMA DeleteModuleEffect ==
    ASSUME StoreTypeOK, PhaseInv, DeleteModule
    PROVE  /\ cur.m \in Modules /\ cur.step = "delete" /\ Differ(modules, modules', cur.m)
           /\ \/ /\ cur' = cur /\ modules'[cur.m].flags \subseteq modules[cur.m].flags
                 /\ modules'[cur.m].content = modules[cur.m].content
                      \/ (modules'[cur.m].content = "torn" /\ Exists(modules[cur.m]))
              \/ /\ cur' = Idle
                 /\ modules'[cur.m].content = "none" /\ modules'[cur.m].flags = {}
<1>. DEFINE c == cur.m
<1>0. c \in Modules /\ modules \in [Modules -> Dirs] /\ modules[c] \in Dirs
  BY DEF StoreTypeOK, PhaseInv, DeleteModule, Idle
<1>1. ASSUME NEW d \in Shredded(modules[c]), modules' = [modules EXCEPT ![c] = d]
      PROVE  /\ Differ(modules, modules', c) /\ modules'[c].flags \subseteq modules[c].flags
             /\ modules'[c].content = modules[c].content
                  \/ (modules'[c].content = "torn" /\ Exists(modules[c]))
  <2>1. /\ d \in Dirs /\ d.flags \subseteq modules[c].flags
        /\ d.content = modules[c].content \/ (d.content = "torn" /\ Exists(modules[c]))
    BY <1>0, OneShred
  <2>2. Differ(modules, modules', c) /\ modules'[c] = d
    BY <1>0, <1>1, <2>1, Replaced
  <2>. QED  BY <2>1, <2>2
<1>2. ASSUME modules' = [modules EXCEPT ![c] = NoDir]
      PROVE  Differ(modules, modules', c) /\ modules'[c].content = "none" /\ modules'[c].flags = {}
  BY <1>0, <1>2, Gone, Replaced
<1>. QED  BY <1>0, <1>1, <1>2 DEF DeleteModule, Work, Idle, IsEmpty

\* The update takes the place of the old version.
LEMMA RenameEffect ==
    ASSUME StoreTypeOK, PhaseInv, Rename
    PROVE  /\ cur.m \in Modules /\ Differ(modules, modules', cur.m) /\ modules'[cur.m] = modules_update[cur.m]
           /\ Differ(modules_update, modules_update', cur.m)
           /\ modules_update'[cur.m].content = "none" /\ modules_update'[cur.m].flags = {}
<1>1. cur.m \in Modules /\ modules_update[cur.m] \in Dirs
  BY DEF StoreTypeOK, PhaseInv, Rename, Idle
<1>. QED  BY <1>1, Replaced, Gone DEF Rename, StoreTypeOK

\* The flag of a disabled module is carried over.
LEMMA TakeUpdateEffect ==
    ASSUME StoreTypeOK, NEW m \in Modules, TakeUpdate(m)
    PROVE  /\ Differ(modules_update, modules_update', m) /\ modules_update'[m].content = modules_update[m].content
           /\ "disable" \in modules[m].flags =>
                modules_update'[m].flags = modules_update[m].flags \cup {"disable"}
           /\ "disable" \notin modules[m].flags => modules_update'[m].flags = modules_update[m].flags
<1>. DEFINE F == modules_update[m].flags \cup {"disable"}
<1>1. modules_update \in [Modules -> Dirs] /\ F \in SUBSET Flags
  BY DEF StoreTypeOK, Dirs, Flags
<1>2. CASE "disable" \in modules[m].flags
  <2>1. modules_update' = [modules_update EXCEPT ![m].flags = F]
    BY <1>2 DEF TakeUpdate
  <2>. HIDE DEF F
  <2>2. Differ(modules_update, modules_update', m) /\ modules_update'[m].content = modules_update[m].content
        /\ modules_update'[m].flags = F
    BY <1>1, <2>1, Flagged
  <2>. QED  BY <1>2, <2>2 DEF F
<1>3. CASE "disable" \notin modules[m].flags
  BY <1>1, <1>3 DEF TakeUpdate, Differ
<1>. QED  BY <1>2, <1>3

\* Only the update flag is touched.
LEMMA CollectModuleEffect ==
    ASSUME StoreTypeOK, NEW m \in Modules, CollectModule(m)
    PROVE  /\ Differ(modules, modules', m) /\ modules'[m].content = modules[m].content
           /\ modules'[m].flags \in {modules[m].flags, modules[m].flags \ {"update"}}
<1>. DEFINE F == modules[m].flags \ {"update"}
<1>1. modules \in [Modules -> Dirs] /\ F \in SUBSET Flags
  BY DEF StoreTypeOK, Dirs, Flags
<1>2. CASE "remove" \in modules[m].flags
  BY <1>1, <1>2 DEF CollectModule, Differ
<1>3. CASE "remove" \notin modules[m].flags
  <2>1. modules' = [modules EXCEPT ![m].flags = F]
    BY <1>3 DEF CollectModule
  <2>. HIDE DEF F
  <2>2. Differ(modules, modules', m) /\ modules'[m].content = modules[m].content /\ modules'[m].flags = F
    BY <1>1, <2>1, Flagged
  <2>. QED  BY <2>2 DEF F
<1>. QED  BY <1>2, <1>3

\* What a script does to its module.
LEMMA ScriptEffect ==
    ASSUME StoreTypeOK, NEW m \in Modules, Script(m)
    PROVE  /\ Differ(modules, modules', m)
           /\ \/ /\ modules'[m].content = "none" /\ modules'[m].flags = {}
                 /\ wanted' = wanted \ {m} /\ disabled' = disabled
              \/ /\ modules'[m].content = modules[m].content
                 /\ modules'[m].flags = modules[m].flags \cup {"remove"}
                 /\ wanted' = wanted \ {m} /\ disabled' = disabled
              \/ /\ modules'[m].content = modules[m].content
                 /\ modules'[m].flags = modules[m].flags \cup {"disable"}
                 /\ wanted' = wanted /\ disabled' = disabled \cup {m}
<1>1. ASSUME modules' = [modules EXCEPT ![m].flags = modules[m].flags \cup {"remove"}]
      PROVE  Differ(modules, modules', m) /\ modules'[m].content = modules[m].content
             /\ modules'[m].flags = modules[m].flags \cup {"remove"}
  <2>. DEFINE F == modules[m].flags \cup {"remove"}
  <2>1. modules \in [Modules -> Dirs] /\ F \in SUBSET Flags
    BY DEF StoreTypeOK, Dirs, Flags
  <2>2. modules' = [modules EXCEPT ![m].flags = F]
    BY <1>1
  <2>. HIDE DEF F
  <2>3. Differ(modules, modules', m) /\ modules'[m].content = modules[m].content /\ modules'[m].flags = F
    BY <2>1, <2>2, Flagged
  <2>. QED  BY <2>3 DEF F
<1>2. ASSUME modules' = [modules EXCEPT ![m].flags = modules[m].flags \cup {"disable"}]
      PROVE  Differ(modules, modules', m) /\ modules'[m].content = modules[m].content
             /\ modules'[m].flags = modules[m].flags \cup {"disable"}
  <2>. DEFINE F == modules[m].flags \cup {"disable"}
  <2>1. modules \in [Modules -> Dirs] /\ F \in SUBSET Flags
    BY DEF StoreTypeOK, Dirs, Flags
  <2>2. modules' = [modules EXCEPT ![m].flags = F]
    BY <1>2
  <2>. HIDE DEF F
  <2>3. Differ(modules, modules', m) /\ modules'[m].content = modules[m].content /\ modules'[m].flags = F
    BY <2>1, <2>2, Flagged
  <2>. QED  BY <2>3 DEF F
<1>3. ASSUME modules' = [modules EXCEPT ![m] = NoDir]
      PROVE  Differ(modules, modules', m) /\ modules'[m].content = "none" /\ modules'[m].flags = {}
  BY <1>3, Replaced, Gone DEF StoreTypeOK
<1>. QED  BY <1>1, <1>2, <1>3 DEF Script

\* What the manager does to a module.
LEMMA SetFlagEffect ==
    ASSUME StoreTypeOK, NEW m \in Modules, SetFlag(m)
    PROVE  /\ Differ(modules, modules', m) /\ modules'[m].content = modules[m].content
           /\ \/ /\ modules'[m].flags = modules[m].flags \cup {"disable"}
                 /\ wanted' = wanted /\ disabled' = disabled \cup {m} /\ staleFlag' = Settled(m)
                 /\ revived' = revived
              \/ /\ modules'[m].flags = modules[m].flags \ {"disable"}
                 /\ wanted' = wanted /\ disabled' = disabled \ {m} /\ staleFlag' = Settled(m)
                 /\ revived' = revived
              \/ /\ modules'[m].flags = modules[m].flags \cup {"remove"}
                 /\ wanted' = wanted \ {m} /\ disabled' = disabled /\ staleFlag' = staleFlag
                 /\ revived' = IF Exists(modules_update[m]) THEN revived \cup {m} ELSE revived \ {m}
              \/ /\ modules'[m].flags = modules[m].flags \ {"remove"}
                 /\ wanted' = wanted \cup {m} /\ disabled' = disabled /\ staleFlag' = staleFlag
                 /\ revived' = revived
<1>1. ASSUME modules' = [modules EXCEPT ![m].flags = modules[m].flags \cup {"disable"}]
      PROVE  Differ(modules, modules', m) /\ modules'[m].content = modules[m].content
             /\ modules'[m].flags = modules[m].flags \cup {"disable"}
  <2>. DEFINE F == modules[m].flags \cup {"disable"}
  <2>1. modules \in [Modules -> Dirs] /\ F \in SUBSET Flags
    BY DEF StoreTypeOK, Dirs, Flags
  <2>2. modules' = [modules EXCEPT ![m].flags = F]
    BY <1>1
  <2>. HIDE DEF F
  <2>3. Differ(modules, modules', m) /\ modules'[m].content = modules[m].content /\ modules'[m].flags = F
    BY <2>1, <2>2, Flagged
  <2>. QED  BY <2>3 DEF F
<1>2. ASSUME modules' = [modules EXCEPT ![m].flags = modules[m].flags \ {"disable"}]
      PROVE  Differ(modules, modules', m) /\ modules'[m].content = modules[m].content
             /\ modules'[m].flags = modules[m].flags \ {"disable"}
  <2>. DEFINE F == modules[m].flags \ {"disable"}
  <2>1. modules \in [Modules -> Dirs] /\ F \in SUBSET Flags
    BY DEF StoreTypeOK, Dirs, Flags
  <2>2. modules' = [modules EXCEPT ![m].flags = F]
    BY <1>2
  <2>. HIDE DEF F
  <2>3. Differ(modules, modules', m) /\ modules'[m].content = modules[m].content /\ modules'[m].flags = F
    BY <2>1, <2>2, Flagged
  <2>. QED  BY <2>3 DEF F
<1>3. ASSUME modules' = [modules EXCEPT ![m].flags = modules[m].flags \cup {"remove"}]
      PROVE  Differ(modules, modules', m) /\ modules'[m].content = modules[m].content
             /\ modules'[m].flags = modules[m].flags \cup {"remove"}
  <2>. DEFINE F == modules[m].flags \cup {"remove"}
  <2>1. modules \in [Modules -> Dirs] /\ F \in SUBSET Flags
    BY DEF StoreTypeOK, Dirs, Flags
  <2>2. modules' = [modules EXCEPT ![m].flags = F]
    BY <1>3
  <2>. HIDE DEF F
  <2>3. Differ(modules, modules', m) /\ modules'[m].content = modules[m].content /\ modules'[m].flags = F
    BY <2>1, <2>2, Flagged
  <2>. QED  BY <2>3 DEF F
<1>4. ASSUME modules' = [modules EXCEPT ![m].flags = modules[m].flags \ {"remove"}]
      PROVE  Differ(modules, modules', m) /\ modules'[m].content = modules[m].content
             /\ modules'[m].flags = modules[m].flags \ {"remove"}
  <2>. DEFINE F == modules[m].flags \ {"remove"}
  <2>1. modules \in [Modules -> Dirs] /\ F \in SUBSET Flags
    BY DEF StoreTypeOK, Dirs, Flags
  <2>2. modules' = [modules EXCEPT ![m].flags = F]
    BY <1>4
  <2>. HIDE DEF F
  <2>3. Differ(modules, modules', m) /\ modules'[m].content = modules[m].content /\ modules'[m].flags = F
    BY <2>1, <2>2, Flagged
  <2>. QED  BY <2>3 DEF F
<1>. QED  BY <1>1, <1>2, <1>3, <1>4 DEF SetFlag

\* What rm -rf and the first files leave.
LEMMA UnfinishedDir ==
    ASSUME NEW d \in Dirs, NEW e \in Unfinished(d)
    PROVE  e \in Dirs /\ e.content \in {"none", "torn"} /\ e.flags \subseteq d.flags
           /\ (e.content = "none" => e.flags = {})
  BY Gone DEF Unfinished, Dirs, Contents

\* The directory of an update is begun.
LEMMA BeginInstallEffect ==
    ASSUME StoreTypeOK, NEW m \in Modules, BeginInstall(m)
    PROVE  /\ Differ(modules_update, modules_update', m)
           /\ modules_update'[m].content \in {"none", "torn"}
           /\ modules_update'[m].flags \subseteq modules_update[m].flags
           /\ modules_update'[m].content = "none" => modules_update'[m].flags = {}
<1>1. PICK d \in Unfinished(modules_update[m]) : modules_update' = [modules_update EXCEPT ![m] = d]
  BY DEF BeginInstall
<1>2. modules_update[m] \in Dirs
  BY DEF StoreTypeOK
<1>3. d \in Dirs /\ d.content \in {"none", "torn"} /\ d.flags \subseteq modules_update[m].flags
      /\ (d.content = "none" => d.flags = {})
  BY <1>2, UnfinishedDir
<1>. QED  BY <1>1, <1>3, Replaced DEF StoreTypeOK

\* Recovery begins with the module itself.
LEMMA BeginRecoveryInstallEffect ==
    ASSUME StoreTypeOK, NEW m \in Modules, BeginRecoveryInstall(m)
    PROVE  /\ Differ(modules, modules', m)
           /\ modules'[m].content \in {"none", "torn"}
           /\ modules'[m].content = "none" => modules'[m].flags = {}
<1>1. PICK d \in Unfinished(modules[m]) : modules' = [modules EXCEPT ![m] = d]
  BY DEF BeginRecoveryInstall
<1>2. modules[m] \in Dirs
  BY DEF StoreTypeOK
<1>3. d \in Dirs /\ d.content \in {"none", "torn"} /\ (d.content = "none" => d.flags = {})
  BY <1>2, UnfinishedDir
<1>. QED  BY <1>1, <1>3, Replaced DEF StoreTypeOK

\* A complete directory without flags.
LEMMA Complete ==
    LET d == [content |-> "whole", flags |-> {}]
    IN  d \in Dirs /\ d.content = "whole" /\ d.flags = {}
  BY DEF Dirs, Contents

\* The update is whole, and the manager shows it.
LEMMA EndInstallEffect ==
    ASSUME StoreTypeOK, EndInstall
    PROVE  /\ installing \in Modules
           /\ Differ(modules_update, modules_update', installing)
           /\ modules_update'[installing].content = "whole"
           /\ modules_update'[installing].flags = {}
           /\ Differ(modules, modules', installing)
           /\ modules'[installing].flags = modules[installing].flags \cup {"update"}
           /\ Exists(modules[installing]) => modules'[installing].content = modules[installing].content
           /\ ~Exists(modules[installing]) => modules'[installing].content = "stub"
<1>1. installing \in Modules
  BY DEF StoreTypeOK, EndInstall
<1>2. /\ Differ(modules_update, modules_update', installing)
      /\ modules_update'[installing].content = "whole"
      /\ modules_update'[installing].flags = {}
  BY <1>1, Complete, Replaced DEF StoreTypeOK, EndInstall
<1>. DEFINE d == [content |-> IF Exists(modules[installing]) THEN modules[installing].content ELSE "stub",
                  flags |-> modules[installing].flags \cup {"update"}]
<1>3. /\ d \in Dirs /\ d.flags = modules[installing].flags \cup {"update"}
      /\ d.content = IF Exists(modules[installing]) THEN modules[installing].content ELSE "stub"
      /\ modules' = [modules EXCEPT ![installing] = d]
  <2>1. modules[installing].content \in Contents /\ modules[installing].flags \subseteq Flags
    BY <1>1 DEF StoreTypeOK, Dirs
  <2>2. d \in Dirs
    BY <2>1 DEF Dirs, Contents, Flags
  <2>3. modules' = [modules EXCEPT ![installing] = d]
    BY DEF EndInstall
  <2>. QED  BY <2>2, <2>3
<1>. HIDE DEF d
<1>4. Differ(modules, modules', installing) /\ modules'[installing] = d
  BY <1>1, <1>3, Replaced DEF StoreTypeOK
<1>. QED  BY <1>1, <1>2, <1>3, <1>4

\* The module is whole and has no flag.
LEMMA EndRecoveryInstallEffect ==
    ASSUME StoreTypeOK, PhaseInv, EndRecoveryInstall
    PROVE  /\ installing \in Modules /\ Differ(modules, modules', installing)
           /\ modules'[installing].content = "whole" /\ modules'[installing].flags = {}
<1>1. installing \in Modules
  BY DEF StoreTypeOK, PhaseInv, EndRecoveryInstall
<1>. QED  BY <1>1, Complete, Replaced DEF StoreTypeOK, EndRecoveryInstall

\* The directory the installer had begun is gone.
LEMMA AbortInstallEffect ==
    ASSUME StoreTypeOK, AbortInstall
    PROVE  /\ installing \in Modules
           /\ \/ /\ phase = "recovery" /\ Differ(modules, modules', installing)
                 /\ modules'[installing].content = "none" /\ modules'[installing].flags = {}
                 /\ modules_update' = modules_update /\ phase' = "off"
              \/ /\ phase # "recovery" /\ Differ(modules_update, modules_update', installing)
                 /\ modules_update'[installing].content = "none" /\ modules_update'[installing].flags = {}
                 /\ modules' = modules /\ phase' = phase
<1>1. installing \in Modules
  BY DEF StoreTypeOK, AbortInstall
<1>. QED  BY <1>1, Gone, Replaced DEF StoreTypeOK, AbortInstall

\* One file of one module.
LEMMA WipeFileEffect ==
    ASSUME StoreTypeOK, WipeFile
    PROVE  \E m \in Modules :
             /\ Differ(modules, modules', m) /\ modules'[m].flags \subseteq modules[m].flags
             /\ modules'[m].content = "none" => modules'[m].flags = {} \/ modules[m].content = "none"
             /\ modules[m].content = "none" => modules'[m].content = "none"
<1>. DEFINE Wiped(m) == \/ \E d \in Shredded(modules[m]) : modules' = [modules EXCEPT ![m] = d]
                        \/ IsEmpty(modules[m]) /\ modules' = [modules EXCEPT ![m] = NoDir]
<1>w. \E m \in Modules : Wiped(m)
  BY Zenon DEF WipeFile
<1>1. PICK m \in Modules : Wiped(m)
  BY <1>w, Zenon
<1>0. modules \in [Modules -> Dirs] /\ modules[m] \in Dirs
  BY DEF StoreTypeOK
<1>2. CASE \E d \in Shredded(modules[m]) : modules' = [modules EXCEPT ![m] = d]
  <2>1. PICK d \in Shredded(modules[m]) : modules' = [modules EXCEPT ![m] = d]
    BY <1>2
  <2>2. /\ d \in Dirs /\ d.flags \subseteq modules[m].flags
        /\ d.content = modules[m].content \/ (d.content = "torn" /\ Exists(modules[m]))
    BY <1>0, OneShred
  <2>3. Differ(modules, modules', m) /\ modules'[m] = d
    BY <1>0, <2>1, <2>2, Replaced
  <2>. QED  BY <2>2, <2>3 DEF Exists
<1>3. CASE IsEmpty(modules[m]) /\ modules' = [modules EXCEPT ![m] = NoDir]
  <2>1. Differ(modules, modules', m) /\ modules'[m].content = "none" /\ modules'[m].flags = {}
    BY <1>0, <1>3, Gone, Replaced
  <2>. QED  BY <1>3, <2>1 DEF IsEmpty
<1>. QED  BY <1>1, <1>2, <1>3

\* Every module that exists is disabled.
LEMMA SafeModeBootEffect ==
    ASSUME StoreTypeOK, SafeModeBoot
    PROVE  /\ modules' \in [Modules -> Dirs]
           /\ \A n \in Modules :
                /\ modules'[n].content = modules[n].content
                /\ Exists(modules[n]) => modules'[n].flags = modules[n].flags \cup {"disable"}
                /\ ~Exists(modules[n]) => modules'[n].flags = modules[n].flags
  BY DEF SafeModeBoot, StoreTypeOK, Dirs, Flags

\* Each action preserves the types.
LEMMA TypeStep == StoreTypeOK /\ PhaseInv /\ [StoreNext]_storeVars => StoreTypeOK'
<1>. SUFFICES ASSUME StoreTypeOK, PhaseInv, [StoreNext]_storeVars
              PROVE  StoreTypeOK'
  OBVIOUS
<1>. USE ModulesAssumption DEF StoreTypeOK, Phases, Steps
<1>1. ASSUME StartBoot \/ CollectDone \/ Recollect \/ Loaded \/ WipeDone \/ Reboot
      PROVE  StoreTypeOK'
  BY <1>1 DEF StartBoot, CollectDone, Recollect, Loaded, WipeDone, Reboot, disk, ghost, Idle, Exists
<1>2. ASSUME ShredOld
      PROVE  StoreTypeOK'
  BY <1>2, ShredOldEffect DEF ShredOld, ghost, Work, Differ
<1>3. ASSUME Rename
      PROVE  StoreTypeOK'
  BY <1>3, RenameEffect DEF Rename, ghost, Idle, Differ
<1>4. ASSUME FinishUpgrade
      PROVE  StoreTypeOK'
  <2>1. modules_update' \in [Modules -> Dirs]
    BY <1>4, Gone DEF FinishUpgrade
  <2>. QED  BY <1>4, <2>1 DEF FinishUpgrade, ghost, Idle
<1>5. ASSUME RunUninstaller
      PROVE  StoreTypeOK'
  BY <1>5 DEF RunUninstaller, disk, Work
<1>6. ASSUME DeleteModule
      PROVE  StoreTypeOK'
  BY <1>6, DeleteModuleEffect DEF DeleteModule, ghost, Idle, Differ
<1>7. ASSUME SafeModeBoot
      PROVE  StoreTypeOK'
  BY <1>7, SafeModeBootEffect DEF SafeModeBoot, Exists, Differ
<1>8. ASSUME EndInstall
      PROVE  StoreTypeOK'
  BY <1>8, EndInstallEffect DEF EndInstall, boot, Exists, KeepsDisabled, Differ
<1>9. ASSUME RemoveModules
      PROVE  StoreTypeOK'
  <2>1. edits' \in 0 .. MaxEdits
    BY <1>9 DEF RemoveModules
  <2>. QED  BY <1>9, <2>1 DEF RemoveModules, disk
<1>10. ASSUME Crash
      PROVE  StoreTypeOK'
  <2>1. crashes' \in 0 .. MaxCrashes
    BY <1>10 DEF Crash
  <2>2. interrupted' \subseteq Modules
    BY <1>10 DEF Crash, PhaseInv, Idle
  <2>3. staleFlag' \subseteq Modules
    BY <1>10 DEF Crash
  <2>. QED  BY <1>10, <2>1, <2>2, <2>3 DEF Crash, disk, Idle
<1>11. ASSUME NEW m \in Modules, TakeUpdate(m)
      PROVE  StoreTypeOK'
  BY <1>11, TakeUpdateEffect DEF TakeUpdate, ghost, Idle, Exists, Work, Differ
<1>12. ASSUME NEW m \in Modules, CollectModule(m)
      PROVE  StoreTypeOK'
  BY <1>12, CollectModuleEffect DEF CollectModule, ghost, Idle, Exists, Work, Differ
<1>13. ASSUME NEW m \in Modules, Script(m)
      PROVE  StoreTypeOK'
  BY <1>13, ScriptEffect DEF Script, boot, Exists, Differ
<1>14. ASSUME NEW m \in Modules, SetFlag(m)
      PROVE  StoreTypeOK'
  BY <1>14, SetFlagEffect DEF SetFlag, boot, Exists, Settled, Differ
<1>15. ASSUME NEW m \in Modules, BeginInstall(m)
      PROVE  StoreTypeOK'
  <2>1. edits' \in 0 .. MaxEdits
    BY <1>15 DEF BeginInstall
  <2>. QED  BY <1>15, <2>1, BeginInstallEffect DEF BeginInstall, boot, ghost, Differ
<1>16. ASSUME UNCHANGED storeVars
      PROVE  StoreTypeOK'
  BY <1>16 DEF storeVars, disk, boot, ghost
<1>17. ASSUME EndRecoveryInstall
      PROVE  StoreTypeOK'
  BY <1>17, Kinds, EndRecoveryInstallEffect DEF EndRecoveryInstall, Settled, Differ, Contents
<1>18. ASSUME AbortInstall
      PROVE  StoreTypeOK'
  BY <1>18, Kinds, AbortInstallEffect DEF AbortInstall, Differ, Contents
<1>19. ASSUME WipeFile
      PROVE  StoreTypeOK'
  BY <1>19, Kinds, WipeFileEffect DEF WipeFile, boot, ghost, Differ, Contents
<1>20. ASSUME NEW m \in Modules, BeginRecoveryInstall(m)
      PROVE  StoreTypeOK'
  <2>1. edits' \in 0 .. MaxEdits
    BY <1>20 DEF BeginRecoveryInstall
  <2>. QED  BY <1>20, <2>1, BeginRecoveryInstallEffect DEF BeginRecoveryInstall, ghost, Differ
<1>. QED  BY <1>1, <1>2, <1>3, <1>4, <1>5, <1>6, <1>7, <1>8, <1>9, <1>10, <1>11, <1>12, <1>13, <1>14, <1>15, <1>16,
              <1>17, <1>18, <1>19, <1>20 DEF StoreNext

\* Each action preserves PhaseInv.
LEMMA PhaseStep == StoreTypeOK /\ PhaseInv /\ [StoreNext]_storeVars => PhaseInv'
<1>. SUFFICES ASSUME StoreTypeOK, PhaseInv, [StoreNext]_storeVars
              PROVE  PhaseInv'
  OBVIOUS
<1>. USE ModulesAssumption DEF StoreTypeOK, PhaseInv, Idle
<1>1. ASSUME StartBoot \/ CollectDone \/ Recollect \/ Loaded \/ WipeDone \/ Reboot
      PROVE  PhaseInv'
  BY <1>1 DEF StartBoot, CollectDone, Recollect, Loaded, WipeDone, Reboot, disk, ghost, Exists
<1>2. ASSUME ShredOld
      PROVE  PhaseInv'
  BY <1>2 DEF ShredOld, ghost, NoDir, Work, Shredded, IsEmpty
<1>3. ASSUME Rename
      PROVE  PhaseInv'
  BY <1>3 DEF Rename, ghost, Idle, NoDir
<1>4. ASSUME FinishUpgrade
      PROVE  PhaseInv'
  BY <1>4 DEF FinishUpgrade, ghost, Idle, NoDir, Exists
<1>5. ASSUME RunUninstaller
      PROVE  PhaseInv'
  BY <1>5 DEF RunUninstaller, disk, Work
<1>6. ASSUME DeleteModule
      PROVE  PhaseInv'
  BY <1>6 DEF DeleteModule, ghost, Idle, NoDir, Shredded, IsEmpty
<1>7. ASSUME SafeModeBoot
      PROVE  PhaseInv'
  BY <1>7 DEF SafeModeBoot, Exists
<1>8. ASSUME EndInstall
      PROVE  PhaseInv'
  BY <1>8 DEF EndInstall, boot, Exists, KeepsDisabled
<1>9. ASSUME RemoveModules
      PROVE  PhaseInv'
  BY <1>9 DEF RemoveModules, disk
<1>10. ASSUME Crash
      PROVE  PhaseInv'
  BY <1>10 DEF Crash, disk, Idle
<1>11. ASSUME NEW m \in Modules, TakeUpdate(m)
      PROVE  PhaseInv'
  BY <1>11 DEF TakeUpdate, ghost, Idle, Exists, Work
<1>12. ASSUME NEW m \in Modules, CollectModule(m)
      PROVE  PhaseInv'
  BY <1>12 DEF CollectModule, ghost, Idle, Exists, Work
<1>13. ASSUME NEW m \in Modules, Script(m)
      PROVE  PhaseInv'
  BY <1>13 DEF Script, boot, NoDir, Exists
<1>14. ASSUME NEW m \in Modules, SetFlag(m)
      PROVE  PhaseInv'
  BY <1>14 DEF SetFlag, boot, Exists, Settled
<1>15. ASSUME NEW m \in Modules, BeginInstall(m)
      PROVE  PhaseInv'
  BY <1>15 DEF BeginInstall, boot, ghost
<1>16. ASSUME UNCHANGED storeVars
      PROVE  PhaseInv'
  BY <1>16 DEF storeVars, disk, boot, ghost
<1>17. ASSUME EndRecoveryInstall
      PROVE  PhaseInv'
  BY <1>17 DEF EndRecoveryInstall, Settled
<1>18. ASSUME AbortInstall
      PROVE  PhaseInv'
  BY <1>18 DEF AbortInstall
<1>19. ASSUME WipeFile
      PROVE  PhaseInv'
  BY <1>19 DEF WipeFile, boot, ghost
<1>20. ASSUME NEW m \in Modules, BeginRecoveryInstall(m)
      PROVE  PhaseInv'
  BY <1>20 DEF BeginRecoveryInstall, ghost
<1>. QED  BY <1>1, <1>2, <1>3, <1>4, <1>5, <1>6, <1>7, <1>8, <1>9, <1>10, <1>11, <1>12, <1>13, <1>14, <1>15, <1>16,
              <1>17, <1>18, <1>19, <1>20 DEF StoreNext

\* Each action preserves UpdateInv.
LEMMA UpdateStep == StoreTypeOK /\ PhaseInv /\ UpdateInv /\ [StoreNext]_storeVars => UpdateInv'
<1>. SUFFICES ASSUME StoreTypeOK, PhaseInv, UpdateInv, [StoreNext]_storeVars
              PROVE  UpdateInv'
  OBVIOUS
<1>. USE ModulesAssumption DEF StoreTypeOK, PhaseInv, UpdateInv, Idle, Exists
<1>1. ASSUME StartBoot \/ CollectDone \/ Recollect \/ Loaded \/ WipeDone \/ Reboot
      PROVE  UpdateInv'
  BY <1>1 DEF StartBoot, CollectDone, Recollect, Loaded, WipeDone, Reboot, disk, ghost
<1>2. ASSUME ShredOld
      PROVE  UpdateInv'
  BY <1>2, ShredOldEffect DEF ShredOld, ghost, Work, Differ
<1>3. ASSUME Rename
      PROVE  UpdateInv'
  BY <1>3, RenameEffect DEF Rename, ghost, Idle, Differ
<1>4. ASSUME FinishUpgrade
      PROVE  UpdateInv'
  BY <1>4 DEF FinishUpgrade, ghost, Idle, NoDir, Exists
<1>5. ASSUME RunUninstaller
      PROVE  UpdateInv'
  BY <1>5 DEF RunUninstaller, disk, Work
<1>6. ASSUME DeleteModule
      PROVE  UpdateInv'
  BY <1>6, DeleteModuleEffect DEF DeleteModule, ghost, Idle, Differ
<1>7. ASSUME SafeModeBoot
      PROVE  UpdateInv'
  BY <1>7, SafeModeBootEffect DEF SafeModeBoot, Exists, Differ
<1>8. ASSUME EndInstall
      PROVE  UpdateInv'
  BY <1>8, EndInstallEffect DEF EndInstall, boot, Exists, KeepsDisabled, Differ
<1>9. ASSUME RemoveModules
      PROVE  UpdateInv'
  BY <1>9 DEF RemoveModules, disk
<1>10. ASSUME Crash
      PROVE  UpdateInv'
  BY <1>10 DEF Crash, disk, Idle
<1>11. ASSUME NEW m \in Modules, TakeUpdate(m)
      PROVE  UpdateInv'
  BY <1>11, TakeUpdateEffect DEF TakeUpdate, ghost, Idle, Exists, Work, Differ
<1>12. ASSUME NEW m \in Modules, CollectModule(m)
      PROVE  UpdateInv'
  BY <1>12, CollectModuleEffect DEF CollectModule, ghost, Idle, Exists, Work, Differ
<1>13. ASSUME NEW m \in Modules, Script(m)
      PROVE  UpdateInv'
  BY <1>13, ScriptEffect DEF Script, boot, Exists, Differ
<1>14. ASSUME NEW m \in Modules, SetFlag(m)
      PROVE  UpdateInv'
  BY <1>14, SetFlagEffect DEF SetFlag, boot, Exists, Settled, Differ
<1>15. ASSUME NEW m \in Modules, BeginInstall(m)
      PROVE  UpdateInv'
  <2>1. \A n \in Modules \ {m} : modules_update'[n] = modules_update[n]
    BY <1>15, BeginInstallEffect DEF Differ
  <2>2. /\ modules_update'[m].content # "stub" /\ modules_update'[m].flags \subseteq {"disable"}
        /\ modules_update'[m].content = "none" => modules_update'[m].flags = {}
    BY <1>15, BeginInstallEffect
  <2>3. phase = "up" /\ UNCHANGED <<modules, phase, cur, seen, interrupted>> /\ installing = nobody /\ installing' = m
    BY <1>15 DEF BeginInstall, boot, ghost
  <2>. QED  BY <2>1, <2>2, <2>3
<1>16. ASSUME UNCHANGED storeVars
      PROVE  UpdateInv'
  BY <1>16 DEF storeVars, disk, boot, ghost
<1>17. ASSUME EndRecoveryInstall
      PROVE  UpdateInv'
  BY <1>17, Kinds, EndRecoveryInstallEffect DEF EndRecoveryInstall, Settled, Differ, Contents
<1>18. ASSUME AbortInstall
      PROVE  UpdateInv'
  BY <1>18, Kinds, AbortInstallEffect DEF AbortInstall, Differ, Contents
<1>19. ASSUME WipeFile
      PROVE  UpdateInv'
  BY <1>19, Kinds, WipeFileEffect DEF WipeFile, boot, ghost, Differ, Contents
<1>20. ASSUME NEW m \in Modules, BeginRecoveryInstall(m)
      PROVE  UpdateInv'
  <2>1. \A n \in Modules \ {m} : modules'[n] = modules[n]
    BY <1>20, BeginRecoveryInstallEffect DEF Differ
  <2>2. modules'[m].content = "none" => modules'[m].flags = {}
    BY <1>20, BeginRecoveryInstallEffect
  <2>3. phase = "off" /\ phase' = "recovery" /\ UNCHANGED <<modules_update, cur, seen, interrupted>>
    BY <1>20 DEF BeginRecoveryInstall, ghost
  <2>4. installing = nobody /\ installing' = m
    BY <1>20 DEF BeginRecoveryInstall
  <2>. QED  BY <2>1, <2>2, <2>3, <2>4
<1>. QED  BY <1>1, <1>2, <1>3, <1>4, <1>5, <1>6, <1>7, <1>8, <1>9, <1>10, <1>11, <1>12, <1>13, <1>14, <1>15, <1>16,
              <1>17, <1>18, <1>19, <1>20 DEF StoreNext

\* Each action preserves WholeInv.
LEMMA WholeStep == StoreTypeOK /\ PhaseInv /\ UpdateInv /\ WholeInv /\ [StoreNext]_storeVars => WholeInv'
<1>. SUFFICES ASSUME StoreTypeOK, PhaseInv, UpdateInv, WholeInv, [StoreNext]_storeVars
              PROVE  WholeInv'
  OBVIOUS
<1>. USE ModulesAssumption DEF StoreTypeOK, PhaseInv, UpdateInv, Idle, Exists, WholeInv
<1>1. ASSUME StartBoot \/ CollectDone \/ Recollect \/ Loaded \/ WipeDone \/ Reboot
      PROVE  WholeInv'
  BY <1>1 DEF StartBoot, CollectDone, Recollect, Loaded, WipeDone, Reboot, disk, ghost
<1>2. ASSUME ShredOld
      PROVE  WholeInv'
  BY <1>2, Kinds, ShredOldEffect DEF ShredOld, ghost, Work, Differ, Contents
<1>3. ASSUME Rename
      PROVE  WholeInv'
  BY <1>3, Kinds, RenameEffect DEF Rename, ghost, Idle, Differ, Contents
<1>4. ASSUME FinishUpgrade
      PROVE  WholeInv'
  BY <1>4 DEF FinishUpgrade, ghost, Idle, NoDir, Exists
<1>5. ASSUME RunUninstaller
      PROVE  WholeInv'
  BY <1>5 DEF RunUninstaller, disk, Work
<1>6. ASSUME DeleteModule
      PROVE  WholeInv'
  BY <1>6, DeleteModuleEffect DEF DeleteModule, ghost, Idle, Differ
<1>7. ASSUME SafeModeBoot
      PROVE  WholeInv'
  BY <1>7, SafeModeBootEffect DEF SafeModeBoot, Exists, Differ
<1>8. ASSUME EndInstall
      PROVE  WholeInv'
  BY <1>8, EndInstallEffect DEF EndInstall, boot, Exists, KeepsDisabled, Differ
<1>9. ASSUME RemoveModules
      PROVE  WholeInv'
  BY <1>9 DEF RemoveModules, disk
<1>10. ASSUME Crash
      PROVE  WholeInv'
  BY <1>10 DEF Crash, disk, Idle
<1>11. ASSUME NEW m \in Modules, TakeUpdate(m)
      PROVE  WholeInv'
  BY <1>11, TakeUpdateEffect DEF TakeUpdate, ghost, Idle, Exists, Work, Differ
<1>12. ASSUME NEW m \in Modules, CollectModule(m)
      PROVE  WholeInv'
  BY <1>12, Kinds, CollectModuleEffect DEF CollectModule, ghost, Idle, Exists, Work, Differ, Contents
<1>13. ASSUME NEW m \in Modules, Script(m)
      PROVE  WholeInv'
  BY <1>13, ScriptEffect DEF Script, boot, Exists, Differ
<1>14. ASSUME NEW m \in Modules, SetFlag(m)
      PROVE  WholeInv'
  BY <1>14, SetFlagEffect DEF SetFlag, boot, Exists, Settled, Differ
<1>15. ASSUME NEW m \in Modules, BeginInstall(m)
      PROVE  WholeInv'
  BY <1>15, BeginInstallEffect DEF BeginInstall, boot, ghost, Differ
<1>16. ASSUME UNCHANGED storeVars
      PROVE  WholeInv'
  BY <1>16 DEF storeVars, disk, boot, ghost
<1>17. ASSUME EndRecoveryInstall
      PROVE  WholeInv'
  BY <1>17, Kinds, EndRecoveryInstallEffect DEF EndRecoveryInstall, Settled, Differ, Contents
<1>18. ASSUME AbortInstall
      PROVE  WholeInv'
  BY <1>18, Kinds, AbortInstallEffect DEF AbortInstall, Differ, Contents
<1>19. ASSUME WipeFile
      PROVE  WholeInv'
  BY <1>19, Kinds, WipeFileEffect DEF WipeFile, boot, ghost, Differ, Contents
<1>20. ASSUME NEW m \in Modules, BeginRecoveryInstall(m)
      PROVE  WholeInv'
  BY <1>20, Kinds, BeginRecoveryInstallEffect DEF BeginRecoveryInstall, ghost, Differ, Contents
<1>. QED  BY <1>1, <1>2, <1>3, <1>4, <1>5, <1>6, <1>7, <1>8, <1>9, <1>10, <1>11, <1>12, <1>13, <1>14, <1>15, <1>16,
              <1>17, <1>18, <1>19, <1>20 DEF StoreNext

\* No step loses a module.
LEMMA LostStep == StoreTypeOK /\ PhaseInv /\ UpdateInv /\ WholeInv /\ NothingLost /\ [StoreNext]_storeVars => NothingLost'
<1>. SUFFICES ASSUME StoreTypeOK, PhaseInv, UpdateInv, WholeInv, NothingLost, [StoreNext]_storeVars
              PROVE  NothingLost'
  OBVIOUS
<1>. USE ModulesAssumption DEF StoreTypeOK, PhaseInv, UpdateInv, Idle, Exists, WholeInv, NothingLost
<1>1. ASSUME StartBoot \/ CollectDone \/ Recollect \/ Loaded \/ WipeDone \/ Reboot
      PROVE  NothingLost'
  BY <1>1 DEF StartBoot, CollectDone, Recollect, Loaded, WipeDone, Reboot, disk, ghost
<1>2. ASSUME ShredOld
      PROVE  NothingLost'
  BY <1>2, Kinds, ShredOldEffect DEF ShredOld, ghost, Work, Differ, Contents
<1>3. ASSUME Rename
      PROVE  NothingLost'
  BY <1>3, Kinds, RenameEffect DEF Rename, ghost, Idle, Differ, Contents
<1>4. ASSUME FinishUpgrade
      PROVE  NothingLost'
  BY <1>4 DEF FinishUpgrade, ghost, Idle, NoDir, Exists
<1>5. ASSUME RunUninstaller
      PROVE  NothingLost'
  BY <1>5 DEF RunUninstaller, disk, Work
<1>6. ASSUME DeleteModule
      PROVE  NothingLost'
  BY <1>6, DeleteModuleEffect DEF DeleteModule, ghost, Idle, Differ
<1>7. ASSUME SafeModeBoot
      PROVE  NothingLost'
  BY <1>7, SafeModeBootEffect DEF SafeModeBoot, Exists, Differ
<1>8. ASSUME EndInstall
      PROVE  NothingLost'
  BY <1>8, EndInstallEffect DEF EndInstall, boot, Exists, KeepsDisabled, Differ
<1>9. ASSUME RemoveModules
      PROVE  NothingLost'
  BY <1>9 DEF RemoveModules, disk
<1>10. ASSUME Crash
      PROVE  NothingLost'
  BY <1>10 DEF Crash, disk, Idle
<1>11. ASSUME NEW m \in Modules, TakeUpdate(m)
      PROVE  NothingLost'
  BY <1>11, TakeUpdateEffect DEF TakeUpdate, ghost, Idle, Exists, Work, Differ
<1>12. ASSUME NEW m \in Modules, CollectModule(m)
      PROVE  NothingLost'
  BY <1>12, Kinds, CollectModuleEffect DEF CollectModule, ghost, Idle, Exists, Work, Differ, Contents
<1>13. ASSUME NEW m \in Modules, Script(m)
      PROVE  NothingLost'
  BY <1>13, ScriptEffect DEF Script, boot, Exists, Differ
<1>14. ASSUME NEW m \in Modules, SetFlag(m)
      PROVE  NothingLost'
  BY <1>14, Kinds, SetFlagEffect DEF Contents, SetFlag, boot, Exists, Settled, Differ
<1>15. ASSUME NEW m \in Modules, BeginInstall(m)
      PROVE  NothingLost'
  BY <1>15, BeginInstallEffect DEF BeginInstall, boot, ghost, Differ
<1>16. ASSUME UNCHANGED storeVars
      PROVE  NothingLost'
  BY <1>16 DEF storeVars, disk, boot, ghost
<1>17. ASSUME EndRecoveryInstall
      PROVE  NothingLost'
  BY <1>17, Kinds, EndRecoveryInstallEffect DEF EndRecoveryInstall, Settled, Differ, Contents
<1>18. ASSUME AbortInstall
      PROVE  NothingLost'
  BY <1>18, Kinds, AbortInstallEffect DEF AbortInstall, Differ, Contents
<1>19. ASSUME WipeFile
      PROVE  NothingLost'
  BY <1>19, Kinds, WipeFileEffect DEF WipeFile, boot, ghost, Differ, Contents
<1>20. ASSUME NEW m \in Modules, BeginRecoveryInstall(m)
      PROVE  NothingLost'
  BY <1>20, Kinds, BeginRecoveryInstallEffect DEF BeginRecoveryInstall, ghost, Differ, Contents
<1>. QED  BY <1>1, <1>2, <1>3, <1>4, <1>5, <1>6, <1>7, <1>8, <1>9, <1>10, <1>11, <1>12, <1>13, <1>14, <1>15, <1>16,
              <1>17, <1>18, <1>19, <1>20 DEF StoreNext

\* Each action preserves DisabledInv.
LEMMA DisabledStep == StoreTypeOK /\ PhaseInv /\ UpdateInv /\ DisabledInv /\ [StoreNext]_storeVars => DisabledInv'
<1>. SUFFICES ASSUME StoreTypeOK, PhaseInv, UpdateInv, DisabledInv, [StoreNext]_storeVars
              PROVE  DisabledInv'
  OBVIOUS
<1>. USE ModulesAssumption DEF StoreTypeOK, PhaseInv, UpdateInv, Idle, Exists, DisabledInv
<1>1. ASSUME StartBoot \/ CollectDone \/ Recollect \/ Loaded \/ WipeDone \/ Reboot
      PROVE  DisabledInv'
  BY <1>1 DEF StartBoot, CollectDone, Recollect, Loaded, WipeDone, Reboot, disk, ghost
<1>2. ASSUME ShredOld
      PROVE  DisabledInv'
  BY <1>2, Kinds, ShredOldEffect DEF ShredOld, ghost, Work, Differ, Contents
<1>3. ASSUME Rename
      PROVE  DisabledInv'
  BY <1>3, Kinds, RenameEffect DEF Rename, ghost, Idle, Differ, Contents
<1>4. ASSUME FinishUpgrade
      PROVE  DisabledInv'
  BY <1>4 DEF FinishUpgrade, ghost, Idle, NoDir, Exists
<1>5. ASSUME RunUninstaller
      PROVE  DisabledInv'
  BY <1>5 DEF RunUninstaller, disk, Work
<1>6. ASSUME DeleteModule
      PROVE  DisabledInv'
  BY <1>6, DeleteModuleEffect DEF DeleteModule, ghost, Idle, Differ
<1>7. ASSUME SafeModeBoot
      PROVE  DisabledInv'
  BY <1>7, SafeModeBootEffect DEF SafeModeBoot, Exists, Differ
<1>8. ASSUME EndInstall
      PROVE  DisabledInv'
  BY <1>8, EndInstallEffect DEF EndInstall, boot, Exists, KeepsDisabled, Differ
<1>9. ASSUME RemoveModules
      PROVE  DisabledInv'
  BY <1>9 DEF RemoveModules, disk
<1>10. ASSUME Crash
      PROVE  DisabledInv'
  BY <1>10 DEF Crash, disk, Idle
<1>11. ASSUME NEW m \in Modules, TakeUpdate(m)
      PROVE  DisabledInv'
  BY <1>11, TakeUpdateEffect DEF TakeUpdate, ghost, Idle, Exists, Work, Differ
<1>12. ASSUME NEW m \in Modules, CollectModule(m)
      PROVE  DisabledInv'
  BY <1>12, Kinds, CollectModuleEffect DEF CollectModule, ghost, Idle, Exists, Work, Differ, Contents
<1>13. ASSUME NEW m \in Modules, Script(m)
      PROVE  DisabledInv'
  BY <1>13, ScriptEffect DEF Script, boot, Exists, Differ
<1>14. ASSUME NEW m \in Modules, SetFlag(m)
      PROVE  DisabledInv'
  BY <1>14, SetFlagEffect DEF SetFlag, boot, Exists, Settled, Differ
<1>15. ASSUME NEW m \in Modules, BeginInstall(m)
      PROVE  DisabledInv'
  BY <1>15, BeginInstallEffect DEF BeginInstall, boot, ghost, Differ
<1>16. ASSUME UNCHANGED storeVars
      PROVE  DisabledInv'
  BY <1>16 DEF storeVars, disk, boot, ghost
<1>17. ASSUME EndRecoveryInstall
      PROVE  DisabledInv'
  BY <1>17, Kinds, EndRecoveryInstallEffect DEF EndRecoveryInstall, Settled, Differ, Contents
<1>18. ASSUME AbortInstall
      PROVE  DisabledInv'
  BY <1>18, Kinds, AbortInstallEffect DEF AbortInstall, Differ, Contents
<1>19. ASSUME WipeFile
      PROVE  DisabledInv'
  BY <1>19, Kinds, WipeFileEffect DEF WipeFile, boot, ghost, Differ, Contents
<1>20. ASSUME NEW m \in Modules, BeginRecoveryInstall(m)
      PROVE  DisabledInv'
  BY <1>20, Kinds, BeginRecoveryInstallEffect DEF BeginRecoveryInstall, ghost, Differ, Contents
<1>. QED  BY <1>1, <1>2, <1>3, <1>4, <1>5, <1>6, <1>7, <1>8, <1>9, <1>10, <1>11, <1>12, <1>13, <1>14, <1>15, <1>16,
              <1>17, <1>18, <1>19, <1>20 DEF StoreNext

\* Each action preserves EnabledInv.
LEMMA EnabledStep == StoreTypeOK /\ PhaseInv /\ UpdateInv /\ EnabledInv /\ [StoreNext]_storeVars => EnabledInv'
<1>. SUFFICES ASSUME StoreTypeOK, PhaseInv, UpdateInv, EnabledInv, [StoreNext]_storeVars
              PROVE  EnabledInv'
  OBVIOUS
<1>. USE ModulesAssumption DEF StoreTypeOK, PhaseInv, UpdateInv, Idle, Exists, EnabledInv
<1>1. ASSUME StartBoot \/ CollectDone \/ Recollect \/ Loaded \/ WipeDone \/ Reboot
      PROVE  EnabledInv'
  BY <1>1 DEF StartBoot, CollectDone, Recollect, Loaded, WipeDone, Reboot, disk, ghost
<1>2. ASSUME ShredOld
      PROVE  EnabledInv'
  BY <1>2, Kinds, ShredOldEffect DEF ShredOld, ghost, Work, Differ, Contents
<1>3. ASSUME Rename
      PROVE  EnabledInv'
  BY <1>3, Kinds, RenameEffect DEF Rename, ghost, Idle, Differ, Contents
<1>4. ASSUME FinishUpgrade
      PROVE  EnabledInv'
  BY <1>4 DEF FinishUpgrade, ghost, Idle, NoDir, Exists
<1>5. ASSUME RunUninstaller
      PROVE  EnabledInv'
  BY <1>5 DEF RunUninstaller, disk, Work
<1>6. ASSUME DeleteModule
      PROVE  EnabledInv'
  BY <1>6, DeleteModuleEffect DEF DeleteModule, ghost, Idle, Differ
<1>7. ASSUME SafeModeBoot
      PROVE  EnabledInv'
  BY <1>7, SafeModeBootEffect DEF SafeModeBoot, Exists, Differ
<1>8. ASSUME EndInstall
      PROVE  EnabledInv'
  BY <1>8, EndInstallEffect DEF EndInstall, boot, Exists, KeepsDisabled, Differ
<1>9. ASSUME RemoveModules
      PROVE  EnabledInv'
  BY <1>9 DEF RemoveModules, disk
<1>10. ASSUME Crash
      PROVE  EnabledInv'
  BY <1>10 DEF Crash, disk, Idle
<1>11. ASSUME NEW m \in Modules, TakeUpdate(m)
      PROVE  EnabledInv'
  BY <1>11, TakeUpdateEffect DEF TakeUpdate, ghost, Idle, Exists, Work, Differ
<1>12. ASSUME NEW m \in Modules, CollectModule(m)
      PROVE  EnabledInv'
  BY <1>12, Kinds, CollectModuleEffect DEF CollectModule, ghost, Idle, Exists, Work, Differ, Contents
<1>13. ASSUME NEW m \in Modules, Script(m)
      PROVE  EnabledInv'
  BY <1>13, ScriptEffect DEF Script, boot, Exists, Differ
<1>14. ASSUME NEW m \in Modules, SetFlag(m)
      PROVE  EnabledInv'
  BY <1>14, SetFlagEffect DEF SetFlag, boot, Exists, Settled, Differ
<1>15. ASSUME NEW m \in Modules, BeginInstall(m)
      PROVE  EnabledInv'
  BY <1>15, BeginInstallEffect DEF BeginInstall, boot, ghost, Differ
<1>16. ASSUME UNCHANGED storeVars
      PROVE  EnabledInv'
  BY <1>16 DEF storeVars, disk, boot, ghost
<1>17. ASSUME EndRecoveryInstall
      PROVE  EnabledInv'
  BY <1>17, Kinds, EndRecoveryInstallEffect DEF EndRecoveryInstall, Settled, Differ, Contents
<1>18. ASSUME AbortInstall
      PROVE  EnabledInv'
  BY <1>18, Kinds, AbortInstallEffect DEF AbortInstall, Differ, Contents
<1>19. ASSUME WipeFile
      PROVE  EnabledInv'
  BY <1>19, Kinds, WipeFileEffect DEF WipeFile, boot, ghost, Differ, Contents
<1>20. ASSUME NEW m \in Modules, BeginRecoveryInstall(m)
      PROVE  EnabledInv'
  BY <1>20, Kinds, BeginRecoveryInstallEffect DEF BeginRecoveryInstall, ghost, Differ, Contents
<1>. QED  BY <1>1, <1>2, <1>3, <1>4, <1>5, <1>6, <1>7, <1>8, <1>9, <1>10, <1>11, <1>12, <1>13, <1>14, <1>15, <1>16,
              <1>17, <1>18, <1>19, <1>20 DEF StoreNext

\* Each action preserves ListInv.
LEMMA ListStep == StoreTypeOK /\ PhaseInv /\ UpdateInv /\ WholeInv /\ DisabledInv /\ EnabledInv /\ ListInv /\ [StoreNext]_storeVars => ListInv'
<1>. SUFFICES ASSUME StoreTypeOK, PhaseInv, UpdateInv, WholeInv, DisabledInv, EnabledInv, ListInv, [StoreNext]_storeVars
              PROVE  ListInv'
  OBVIOUS
<1>. USE ModulesAssumption DEF StoreTypeOK, PhaseInv, UpdateInv, Idle, Exists, WholeInv, DisabledInv, EnabledInv, ListInv
<1>1. ASSUME StartBoot \/ CollectDone \/ Recollect \/ Loaded \/ WipeDone \/ Reboot
      PROVE  ListInv'
  BY <1>1 DEF StartBoot, CollectDone, Recollect, Loaded, WipeDone, Reboot, disk, ghost
<1>2. ASSUME ShredOld
      PROVE  ListInv'
  BY <1>2, Kinds, ShredOldEffect DEF ShredOld, ghost, Work, Differ, Contents
<1>3. ASSUME Rename
      PROVE  ListInv'
  BY <1>3, Kinds, RenameEffect DEF Rename, ghost, Idle, Differ, Contents
<1>4. ASSUME FinishUpgrade
      PROVE  ListInv'
  BY <1>4 DEF FinishUpgrade, ghost, Idle, NoDir, Exists
<1>5. ASSUME RunUninstaller
      PROVE  ListInv'
  BY <1>5 DEF RunUninstaller, disk, Work
<1>6. ASSUME DeleteModule
      PROVE  ListInv'
  BY <1>6, DeleteModuleEffect DEF DeleteModule, ghost, Idle, Differ
<1>7. ASSUME SafeModeBoot
      PROVE  ListInv'
  BY <1>7, SafeModeBootEffect DEF SafeModeBoot, Exists, Differ
<1>8. ASSUME EndInstall
      PROVE  ListInv'
  BY <1>8, EndInstallEffect DEF EndInstall, boot, Exists, KeepsDisabled, Differ
<1>9. ASSUME RemoveModules
      PROVE  ListInv'
  BY <1>9 DEF RemoveModules, disk
<1>10. ASSUME Crash
      PROVE  ListInv'
  BY <1>10 DEF Crash, disk, Idle
<1>11. ASSUME NEW m \in Modules, TakeUpdate(m)
      PROVE  ListInv'
  BY <1>11, TakeUpdateEffect DEF TakeUpdate, ghost, Idle, Exists, Work, Differ
<1>12. ASSUME NEW m \in Modules, CollectModule(m)
      PROVE  ListInv'
  BY <1>12, Kinds, CollectModuleEffect DEF CollectModule, ghost, Idle, Exists, Work, Differ, Contents
<1>13. ASSUME NEW m \in Modules, Script(m)
      PROVE  ListInv'
  BY <1>13, ScriptEffect DEF Script, boot, Exists, Differ
<1>14. ASSUME NEW m \in Modules, SetFlag(m)
      PROVE  ListInv'
  BY <1>14, SetFlagEffect DEF SetFlag, boot, Exists, Settled, Differ
<1>15. ASSUME NEW m \in Modules, BeginInstall(m)
      PROVE  ListInv'
  BY <1>15, BeginInstallEffect DEF BeginInstall, boot, ghost, Differ
<1>16. ASSUME UNCHANGED storeVars
      PROVE  ListInv'
  BY <1>16 DEF storeVars, disk, boot, ghost
<1>17. ASSUME EndRecoveryInstall
      PROVE  ListInv'
  BY <1>17, Kinds, EndRecoveryInstallEffect DEF EndRecoveryInstall, Settled, Differ, Contents
<1>18. ASSUME AbortInstall
      PROVE  ListInv'
  BY <1>18, Kinds, AbortInstallEffect DEF AbortInstall, Differ, Contents
<1>19. ASSUME WipeFile
      PROVE  ListInv'
  BY <1>19, Kinds, WipeFileEffect DEF WipeFile, boot, ghost, Differ, Contents
<1>20. ASSUME NEW m \in Modules, BeginRecoveryInstall(m)
      PROVE  ListInv'
  BY <1>20, Kinds, BeginRecoveryInstallEffect DEF BeginRecoveryInstall, ghost, Differ, Contents
<1>. QED  BY <1>1, <1>2, <1>3, <1>4, <1>5, <1>6, <1>7, <1>8, <1>9, <1>10, <1>11, <1>12, <1>13, <1>14, <1>15, <1>16,
              <1>17, <1>18, <1>19, <1>20 DEF StoreNext

\* What is enabled is on the list when it is handed on.
LEMMA LoadedStep == StoreTypeOK /\ PhaseInv /\ UpdateInv /\ NothingLost /\ ListInv /\ EnabledLoaded /\ [StoreNext]_storeVars => EnabledLoaded'
<1>. SUFFICES ASSUME StoreTypeOK, PhaseInv, UpdateInv, NothingLost, ListInv, EnabledLoaded, [StoreNext]_storeVars
              PROVE  EnabledLoaded'
  OBVIOUS
<1>. USE ModulesAssumption DEF StoreTypeOK, PhaseInv, UpdateInv, Idle, Exists, NothingLost, ListInv, EnabledLoaded
<1>1. ASSUME StartBoot \/ CollectDone \/ Recollect \/ Loaded \/ WipeDone \/ Reboot
      PROVE  EnabledLoaded'
  BY <1>1 DEF StartBoot, CollectDone, Recollect, Loaded, WipeDone, Reboot, disk, ghost
<1>2. ASSUME ShredOld
      PROVE  EnabledLoaded'
  BY <1>2, Kinds, ShredOldEffect DEF ShredOld, ghost, Work, Differ, Contents
<1>3. ASSUME Rename
      PROVE  EnabledLoaded'
  BY <1>3, Kinds, RenameEffect DEF Rename, ghost, Idle, Differ, Contents
<1>4. ASSUME FinishUpgrade
      PROVE  EnabledLoaded'
  BY <1>4 DEF FinishUpgrade, ghost, Idle, NoDir, Exists
<1>5. ASSUME RunUninstaller
      PROVE  EnabledLoaded'
  BY <1>5 DEF RunUninstaller, disk, Work
<1>6. ASSUME DeleteModule
      PROVE  EnabledLoaded'
  BY <1>6, DeleteModuleEffect DEF DeleteModule, ghost, Idle, Differ
<1>7. ASSUME SafeModeBoot
      PROVE  EnabledLoaded'
  BY <1>7, SafeModeBootEffect DEF SafeModeBoot, Exists, Differ
<1>8. ASSUME EndInstall
      PROVE  EnabledLoaded'
  BY <1>8, EndInstallEffect DEF EndInstall, boot, Exists, KeepsDisabled, Differ
<1>9. ASSUME RemoveModules
      PROVE  EnabledLoaded'
  BY <1>9 DEF RemoveModules, disk
<1>10. ASSUME Crash
      PROVE  EnabledLoaded'
  BY <1>10 DEF Crash, disk, Idle
<1>11. ASSUME NEW m \in Modules, TakeUpdate(m)
      PROVE  EnabledLoaded'
  BY <1>11, TakeUpdateEffect DEF TakeUpdate, ghost, Idle, Exists, Work, Differ
<1>12. ASSUME NEW m \in Modules, CollectModule(m)
      PROVE  EnabledLoaded'
  BY <1>12, Kinds, CollectModuleEffect DEF CollectModule, ghost, Idle, Exists, Work, Differ, Contents
<1>13. ASSUME NEW m \in Modules, Script(m)
      PROVE  EnabledLoaded'
  BY <1>13, ScriptEffect DEF Script, boot, Exists, Differ
<1>14. ASSUME NEW m \in Modules, SetFlag(m)
      PROVE  EnabledLoaded'
  BY <1>14, SetFlagEffect DEF SetFlag, boot, Exists, Settled, Differ
<1>15. ASSUME NEW m \in Modules, BeginInstall(m)
      PROVE  EnabledLoaded'
  BY <1>15, BeginInstallEffect DEF BeginInstall, boot, ghost, Differ
<1>16. ASSUME UNCHANGED storeVars
      PROVE  EnabledLoaded'
  BY <1>16 DEF storeVars, disk, boot, ghost
<1>17. ASSUME EndRecoveryInstall
      PROVE  EnabledLoaded'
  BY <1>17, Kinds, EndRecoveryInstallEffect DEF EndRecoveryInstall, Settled, Differ, Contents
<1>18. ASSUME AbortInstall
      PROVE  EnabledLoaded'
  BY <1>18, Kinds, AbortInstallEffect DEF AbortInstall, Differ, Contents
<1>19. ASSUME WipeFile
      PROVE  EnabledLoaded'
  BY <1>19, Kinds, WipeFileEffect DEF WipeFile, boot, ghost, Differ, Contents
<1>20. ASSUME NEW m \in Modules, BeginRecoveryInstall(m)
      PROVE  EnabledLoaded'
  BY <1>20, Kinds, BeginRecoveryInstallEffect DEF BeginRecoveryInstall, ghost, Differ, Contents
<1>. QED  BY <1>1, <1>2, <1>3, <1>4, <1>5, <1>6, <1>7, <1>8, <1>9, <1>10, <1>11, <1>12, <1>13, <1>14, <1>15, <1>16,
              <1>17, <1>18, <1>19, <1>20 DEF StoreNext

\* The initial states satisfy the invariant.
LEMMA StoreInvInit == StoreInit => StoreInv
<1>. SUFFICES ASSUME StoreInit
              PROVE  StoreInv
  OBVIOUS
<1>. USE ModulesAssumption DEF StoreInit, Idle, NoDir
<1>1. StoreTypeOK
  <2>1. modules \in [Modules -> Dirs] /\ modules_update \in [Modules -> Dirs]
    BY DEF Dirs, Contents, Flags
  <2>. QED  BY <2>1 DEF StoreTypeOK, Phases, Steps
<1>2. PhaseInv /\ ListInv /\ EnabledLoaded
  BY DEF PhaseInv, ListInv, EnabledLoaded
<1>3. \A m \in Modules : /\ modules_update[m].content = "none" /\ modules_update[m].flags = {}
                         /\ modules[m].flags = {} /\ modules[m].content \in {"none", "whole"}
  OBVIOUS
<1>4. UpdateInv /\ WholeInv /\ DisabledInv /\ EnabledInv
  BY <1>3 DEF UpdateInv, WholeInv, DisabledInv, EnabledInv, Exists
<1>5. NothingLost
  BY DEF NothingLost
<1>. QED  BY <1>1, <1>2, <1>4, <1>5 DEF StoreInv

\* Every step preserves the invariant.
LEMMA StoreInvStep == StoreInv /\ [StoreNext]_storeVars => StoreInv'
  BY TypeStep, PhaseStep, UpdateStep, WholeStep, LostStep, DisabledStep, EnabledStep, ListStep, LoadedStep
  DEF StoreInv

\* The invariant holds in every reachable state.
LEMMA StoreInvariance == StoreSpec => []StoreInv
  BY StoreInvInit, StoreInvStep, PTL DEF StoreSpec

(***************************************************************************)
(* Modules: what survives                                                  *)
(***************************************************************************)

\* prepare_modules, collect_modules and the installer may be cut at any step
\* and any number of times: what is installed and wanted is complete in
\* modules or in modules_update.
THEOREM NoModuleLost == StoreSpec => []NothingLost
  BY StoreInvariance, PTL DEF StoreInv

\* handle_modules hands on every enabled module, whole, and none that is
\* disabled or was removed, after whatever history of crashes, updates and
\* removals; excepted are modules whose own installation or removal was cut
\* (interrupted), that keep the flag of a boot that crashed (staleFlag) or
\* were removed while an update of them waited (revived).
THEOREM LoadsWhatWasAsked == StoreSpec => []LoadedAsAsked
<1>1. StoreInv => LoadedAsAsked
  BY DEF StoreInv, ListInv, LoadedAsAsked, StaysDisabled, LoadedWhole, OnlyWanted
<1>. QED  BY <1>1, StoreInvariance, PTL

(***************************************************************************)
(* Persistent properties                                                   *)
(***************************************************************************)

\* While the list is on its way to the file it is the disk without the
\* property that is deleted, unless init writes in the meantime.
PropInv ==
    ~propRaced =>
        /\ propDisk = propWant
        /\ propStep \in {"dump", "rename"} => propList = [propDisk EXCEPT ![propJob.name] = ""]

\* The property service writes the file and says so.
LEMMA ServiceKept ==
    ASSUME NEW n, NEW v, ServiceSets(n, v), propDisk = propWant
    PROVE  propDisk' = propWant'
<1>1. CASE n \in Persist
  <2>1. propDisk' = [propDisk EXCEPT ![n] = v] /\ propWant' = [propWant EXCEPT ![n] = v]
    BY <1>1 DEF ServiceSets
  <2>. QED  BY ONLY <2>1, propDisk = propWant
<1>2. CASE n \notin Persist
  BY <1>2 DEF ServiceSets
<1>. QED  BY <1>1, <1>2

\* Each action of resetprop and of init preserves it.
LEMMA PropStep == PropInv /\ [PropNext]_propVars => PropInv'
<1>. SUFFICES ASSUME PropInv, [PropNext]_propVars
              PROVE  PropInv'
  OBVIOUS
<1>. USE DEF PropInv
<1>1. ASSUME PropCall \/ SetDeletes \/ Deletes \/ Gets \/ Dump \/ PropKilled \/ PropReboot
      PROVE  PropInv'
  BY <1>1 DEF PropCall, SetDeletes, Deletes, Gets, Dump, PropKilled, PropReboot, PropDone
<1>2. ASSUME SetWrites
      PROVE  PropInv'
  <2>1. propStep' = "idle" /\ propRaced' = propRaced
    BY <1>2 DEF SetWrites, PropDone
  <2>2. ServiceSets(propJob.name, propJob.value) \/ UNCHANGED <<propDisk, propWant>>
    BY <1>2 DEF SetWrites
  <2>. QED  BY <2>1, <2>2, ServiceKept
<1>3. ASSUME Unlink
      PROVE  PropInv'
  BY <1>3 DEF Unlink, PropDone
<1>4. ASSUME ReadList
      PROVE  PropInv'
  BY <1>4 DEF ReadList
<1>5. ASSUME RenameList
      PROVE  PropInv'
  BY <1>5 DEF RenameList, PropDone
<1>6. ASSUME InitSets
      PROVE  PropInv'
  <2>1. PICK n, v : ServiceSets(n, v)
    BY <1>6 DEF InitSets
  <2>. QED  BY <1>6, <2>1, ServiceKept DEF InitSets
<1>7. ASSUME UNCHANGED propVars
      PROVE  PropInv'
  BY <1>7 DEF propVars
<1>. QED  BY <1>1, <1>2, <1>3, <1>4, <1>5, <1>6, <1>7 DEF PropNext

\* persist_deleteprop may be killed at any step: the file holds what was set
\* and not deleted, as long as init writes none while the list is copied.
THEOREM PropertiesSurvive == PropSpec => []PersistKept
<1>1. PropInit => PropInv
  BY DEF PropInit, PropInv
<1>2. PropInv => PersistKept
  BY DEF PropInv, PersistKept
<1>. QED  BY <1>1, <1>2, PropStep, PTL DEF PropSpec

(***************************************************************************)
(* The log                                                                 *)
(***************************************************************************)

Message == [prio : {0, 1}, msg : Nat]

LogTypeOK ==
    /\ logChan \in Seq(Message) /\ logBuf \in Seq(Nat) /\ logFile \in Seq(Nat) /\ logBak \in Seq(Nat)
    /\ log_sockfd \in BOOLEAN /\ logOpen \in BOOLEAN /\ logWriter \in {"idle", "run", "dead", "closed"}
    /\ logSent \in Nat /\ logSetups \in Nat /\ logResets \in Nat

\* The messages of a channel are the numbers from base to top, in order.
Carries(chan, base, top) ==
    /\ base <= top + 1
    /\ \A i \in 1 .. Len(chan) : chan[i].prio = 1 => chan[i].msg \in base .. top
    /\ \A k \in base .. top : \E i \in 1 .. Len(chan) : chan[i].prio = 1 /\ chan[i].msg = k
    /\ \A i, j \in 1 .. Len(chan) :
          chan[i].prio = 1 /\ chan[j].prio = 1 /\ i < j => chan[i].msg < chan[j].msg

\* A sequence that counts from 0.
Counts(s) == \A i \in 1 .. Len(s) : s[i] = i - 1

\* Nothing is in memory once the file is open, and there is no backup before
\* the first reset, so that what is logged is one sequence.
LogInv ==
    /\ logWriter = "idle" => logChan = <<>> /\ logSent = 0
    /\ logOpen => logBuf = <<>>
    /\ logWriter \in {"idle", "run"} /\ logResets = 0 => logBak = <<>>
    /\ logWriter \in {"idle", "run"} /\ logResets < 2 =>
          Counts(Logged) /\ Carries(logChan, Len(Logged), logSent)

\* One more message at the end of what is logged.
LEMMA OneMore ==
    ASSUME NEW a \in Seq(Nat), NEW b \in Seq(Nat), NEW c \in Seq(Nat), NEW x \in Nat
    PROVE  /\ a \o b \o Append(c, x) = Append(a \o b \o c, x)
           /\ a \o Append(b, x) \o <<>> = Append(a \o b \o <<>>, x)
           /\ a \o b \o c \in Seq(Nat)
  OBVIOUS

\* Moving what is in memory to the file, and the file to the backup, changes
\* nothing.
LEMMA Moved ==
    ASSUME NEW a \in Seq(Nat), NEW b \in Seq(Nat), NEW c \in Seq(Nat)
    PROVE  /\ a \o (b \o c) \o <<>> = a \o b \o c
           /\ b \o (<<>> \o c) \o <<>> = <<>> \o b \o c
  BY SMTT(30)

\* Appending the next number to a sequence that counts.
LEMMA CountsOn ==
    ASSUME NEW s \in Seq(Nat), Counts(s)
    PROVE  Counts(Append(s, Len(s)))
  BY DEF Counts

\* A message is sent.
LEMMA Sent ==
    ASSUME NEW chan \in Seq(Message), NEW base \in Nat, NEW top \in Nat,
           Carries(chan, base, top)
    PROVE  Carries(Append(chan, [prio |-> 1, msg |-> top + 1]), base, top + 1)
<1>. DEFINE x == [prio |-> 1, msg |-> top + 1]
             new == Append(chan, x)
<1>2. x \in Message /\ x.prio = 1 /\ x.msg = top + 1
  BY DEF Message
<1>. HIDE DEF x
<1>1. /\ Len(chan) \in Nat /\ Len(new) = Len(chan) + 1 /\ new[Len(chan) + 1] = x
      /\ \A i \in 1 .. Len(chan) : new[i] = chan[i] /\ chan[i] \in Message
  BY <1>2
<1>. HIDE DEF new
<1>3. ASSUME NEW i \in 1 .. Len(new), new[i].prio = 1
      PROVE  new[i].msg \in base .. top + 1
  <2>1. CASE i = Len(chan) + 1
    <3>1. base <= top + 1
      BY DEF Carries
    <3>. QED  BY <1>1, <1>2, <2>1, <3>1
  <2>2. CASE i \in 1 .. Len(chan)
    <3>1. chan[i].prio = 1 /\ new[i] = chan[i]
      BY <1>1, <1>3, <2>2
    <3>2. chan[i].msg \in base .. top
      BY <2>2, <3>1 DEF Carries
    <3>. QED  BY <3>1, <3>2
  <2>. QED  BY <1>1, <2>1, <2>2
<1>4. ASSUME NEW k \in base .. top + 1
      PROVE  \E i \in 1 .. Len(new) : new[i].prio = 1 /\ new[i].msg = k
  <2>1. CASE k = top + 1
    <3>1. Len(chan) + 1 \in 1 .. Len(new)
      BY <1>1
    <3>. QED  BY <1>1, <1>2, <2>1, <3>1
  <2>2. CASE k \in base .. top
    <3>1. PICK i \in 1 .. Len(chan) : chan[i].prio = 1 /\ chan[i].msg = k
      BY <2>2 DEF Carries
    <3>. QED  BY <1>1, <3>1
  <2>. QED  BY <2>1, <2>2
<1>5. ASSUME NEW i \in 1 .. Len(new), NEW j \in 1 .. Len(new), new[i].prio = 1, new[j].prio = 1, i < j
      PROVE  new[i].msg < new[j].msg
  <2>1. i \in 1 .. Len(chan) /\ chan[i].msg \in base .. top
    BY <1>1, <1>5 DEF Carries
  <2>2. CASE j = Len(chan) + 1
    BY <1>1, <1>2, <2>1, <2>2
  <2>3. CASE j \in 1 .. Len(chan)
    BY <1>1, <1>5, <2>1, <2>3 DEF Carries
  <2>. QED  BY <1>1, <2>2, <2>3
<1>6. Carries(new, base, top + 1)
  BY <1>3, <1>4, <1>5 DEF Carries
<1>. QED  BY <1>6 DEF new, x

\* A request to open the file takes no number.
LEMMA Asked ==
    ASSUME NEW chan \in Seq(Message), NEW base \in Nat, NEW top \in Nat, NEW r \in {0, 1},
           Carries(chan, base, top)
    PROVE  Carries(Append(chan, [prio |-> 0, msg |-> r]), base, top)
<1>. DEFINE x == [prio |-> 0, msg |-> r]
             new == Append(chan, x)
<1>1. /\ Len(chan) \in Nat /\ Len(new) = Len(chan) + 1 /\ new[Len(chan) + 1] = x /\ x.prio = 0
      /\ \A i \in 1 .. Len(chan) : new[i] = chan[i]
  BY DEF Message
<1>. HIDE DEF x, new
<1>2. \A i \in 1 .. Len(new) : new[i].prio = 1 => i \in 1 .. Len(chan)
  BY <1>1
<1>3. \A i \in 1 .. Len(new) : new[i].prio = 1 => new[i].msg \in base .. top
  BY <1>1, <1>2 DEF Carries
<1>4. ASSUME NEW k \in base .. top
      PROVE  \E i \in 1 .. Len(new) : new[i].prio = 1 /\ new[i].msg = k
  <2>1. PICK i \in 1 .. Len(chan) : chan[i].prio = 1 /\ chan[i].msg = k
    BY DEF Carries
  <2>. QED  BY <1>1, <2>1
<1>5. \A i, j \in 1 .. Len(new) : new[i].prio = 1 /\ new[j].prio = 1 /\ i < j => new[i].msg < new[j].msg
  BY <1>1, <1>2 DEF Carries
<1>. QED  BY <1>3, <1>4, <1>5 DEF Carries, new, x

\* The writer takes the first: if it is a message, it is the next one.
LEMMA Taken ==
    ASSUME NEW chan \in Seq(Message), NEW base \in Nat, NEW top \in Nat, chan # <<>>,
           Carries(chan, base, top)
    PROVE  /\ Tail(chan) \in Seq(Message) /\ Head(chan) \in Message
           /\ Head(chan).prio = 0 => Carries(Tail(chan), base, top)
           /\ Head(chan).prio = 1 => Head(chan).msg = base /\ Carries(Tail(chan), base + 1, top)
<1>. DEFINE t == Tail(chan)
             h == Head(chan)
<1>1. /\ t \in Seq(Message) /\ h \in Message /\ h = chan[1] /\ Len(chan) \in Nat \ {0} /\ Len(t) = Len(chan) - 1
      /\ \A i \in 1 .. Len(t) : t[i] = chan[i + 1]
  OBVIOUS
<1>2. \A i \in 1 .. Len(chan) : chan[i] \in Message
  OBVIOUS
<1>. HIDE DEF t, h
<1>3. \A i \in 2 .. Len(chan) : i - 1 \in 1 .. Len(t) /\ t[i - 1] = chan[i]
  BY <1>1
<1>4. \A i \in 1 .. Len(t) : i + 1 \in 1 .. Len(chan) /\ t[i] = chan[i + 1]
  BY <1>1
<1>5. \A i, j \in 1 .. Len(t) : t[i].prio = 1 /\ t[j].prio = 1 /\ i < j => t[i].msg < t[j].msg
  <2>. SUFFICES ASSUME NEW i \in 1 .. Len(t), NEW j \in 1 .. Len(t), t[i].prio = 1, t[j].prio = 1, i < j
                PROVE  t[i].msg < t[j].msg
    OBVIOUS
  <2>1. i + 1 \in 1 .. Len(chan) /\ j + 1 \in 1 .. Len(chan) /\ i + 1 < j + 1
    BY <1>1, <1>4
  <2>2. chan[i + 1].msg < chan[j + 1].msg
    BY <1>4, <2>1 DEF Carries
  <2>. QED  BY <1>4, <2>2
<1>6. CASE h.prio = 0
  <2>1. \A i \in 1 .. Len(t) : t[i].prio = 1 => t[i].msg \in base .. top
    BY <1>4 DEF Carries
  <2>2. ASSUME NEW k \in base .. top
        PROVE  \E i \in 1 .. Len(t) : t[i].prio = 1 /\ t[i].msg = k
    <3>1. PICK i \in 1 .. Len(chan) : chan[i].prio = 1 /\ chan[i].msg = k
      BY DEF Carries
    <3>2. i \in 2 .. Len(chan)
      BY <1>1, <1>6, <3>1
    <3>. QED  BY <1>3, <3>1, <3>2
  <2>3. base <= top + 1
    BY DEF Carries
  <2>4. Carries(t, base, top)
    BY <1>5, <2>1, <2>2, <2>3 DEF Carries
  <2>. QED  BY <1>1, <1>6, <2>4 DEF t, h
<1>7. CASE h.prio = 1
  <2>1. h.msg \in base .. top
    BY <1>1, <1>7 DEF Carries
  <2>2. PICK f \in 1 .. Len(chan) : chan[f].prio = 1 /\ chan[f].msg = base
    BY <2>1 DEF Carries
  <2>3. f = 1
    BY <1>1, <1>7, <2>1, <2>2 DEF Carries
  <2>4. h.msg = base
    BY <1>1, <2>2, <2>3
  <2>5. ASSUME NEW i \in 1 .. Len(t), t[i].prio = 1
        PROVE  t[i].msg \in base + 1 .. top
    <3>1. i + 1 \in 1 .. Len(chan) /\ t[i] = chan[i + 1] /\ 1 \in 1 .. Len(chan) /\ 1 < i + 1
      BY <1>1, <1>4
    <3>2. chan[1].msg < chan[i + 1].msg /\ chan[i + 1].msg \in base .. top
      BY <1>1, <1>7, <2>5, <3>1 DEF Carries
    <3>. QED  BY <1>1, <2>4, <3>1, <3>2
  <2>6. ASSUME NEW k \in base + 1 .. top
        PROVE  \E i \in 1 .. Len(t) : t[i].prio = 1 /\ t[i].msg = k
    <3>1. PICK i \in 1 .. Len(chan) : chan[i].prio = 1 /\ chan[i].msg = k
      BY DEF Carries
    <3>2. i \in 2 .. Len(chan)
      BY <1>1, <2>4, <3>1
    <3>. QED  BY <1>3, <3>1, <3>2
  <2>7. base + 1 <= top + 1
    BY <2>1
  <2>8. Carries(t, base + 1, top)
    BY <1>5, <2>5, <2>6, <2>7 DEF Carries
  <2>. QED  BY <1>1, <1>7, <2>4, <2>8 DEF t, h
<1>. QED  BY <1>1, <1>6, <1>7 DEF Message, t, h

\* The steps preserve the types ...
LEMMA LogTypeStep == LogTypeOK /\ [LogNext]_logVars => LogTypeOK'
<1>. SUFFICES ASSUME LogTypeOK, [LogNext]_logVars
              PROVE  LogTypeOK'
  OBVIOUS
<1>. USE DEF LogTypeOK
<1>1. ASSUME logChan # <<>>
      PROVE  Tail(logChan) \in Seq(Message) /\ Head(logChan).prio \in {0, 1} /\ Head(logChan).msg \in Nat
  <2>1. Tail(logChan) \in Seq(Message) /\ Head(logChan) \in Message
    BY <1>1
  <2>. QED  BY <2>1 DEF Message
<1>2. ASSUME NEW r \in {0, 1}
      PROVE  Append(logChan, [prio |-> 0, msg |-> r]) \in Seq(Message)
  BY DEF Message
<1>3. ASSUME StartLogDaemon
      PROVE  LogTypeOK'
  BY <1>3 DEF StartLogDaemon
<1>4. ASSUME MagiskLog
      PROVE  LogTypeOK'
  <2>1. Append(logChan, [prio |-> 1, msg |-> logSent + 1]) \in Seq(Message)
    BY DEF Message
  <2>2. logChan' \in Seq(Message) /\ log_sockfd' \in BOOLEAN
    BY <1>4, <2>1 DEF MagiskLog
  <2>. QED  BY <1>4, <2>2 DEF MagiskLog
<1>5. ASSUME SetupLogfile
      PROVE  LogTypeOK'
  <2>1. logChan' \in Seq(Message)
    BY <1>2, <1>5 DEF SetupLogfile
  <2>. QED  BY <1>5, <2>1 DEF SetupLogfile
<1>6. ASSUME HandleSetup
      PROVE  LogTypeOK'
  <2>1. logChan' \in Seq(Message) /\ logResets' \in Nat
    BY <1>1, <1>6 DEF HandleSetup
  <2>2. logBak' \in Seq(Nat) /\ logFile' \in Seq(Nat) /\ logBuf' \in Seq(Nat) /\ logOpen' \in BOOLEAN
    BY <1>6 DEF HandleSetup, OpenLog
  <2>. QED  BY <1>6, <2>1, <2>2 DEF HandleSetup
<1>7. ASSUME OpenFails
      PROVE  LogTypeOK'
  <2>1. logBak' \in Seq(Nat) /\ logFile' \in Seq(Nat)
    <3>1. (logBak' = logFile /\ logFile' = <<>>) \/ (logBak' = logBak /\ logFile' = logFile)
      BY <1>7 DEF OpenFails
    <3>2. logBak \in Seq(Nat) /\ logFile \in Seq(Nat) /\ <<>> \in Seq(Nat)
      OBVIOUS
    <3>. QED  BY ONLY <3>1, <3>2, Zenon
  <2>. QED  BY <1>7, <2>1 DEF OpenFails
<1>8. ASSUME CloseSender
      PROVE  LogTypeOK'
  BY <1>8 DEF CloseSender
<1>9. ASSUME HandleMessage
      PROVE  LogTypeOK'
  <2>1. logChan' \in Seq(Message) /\ Head(logChan).msg \in Nat
    BY <1>1, <1>9 DEF HandleMessage
  <2>2. logFile' \in Seq(Nat) /\ logBuf' \in Seq(Nat)
    <3>1. \/ logFile' = Append(logFile, Head(logChan).msg) /\ logBuf' = logBuf
          \/ logBuf' = Append(logBuf, Head(logChan).msg) /\ logFile' = logFile
      BY <1>9 DEF HandleMessage
    <3>2. /\ logFile \in Seq(Nat) /\ Append(logFile, Head(logChan).msg) \in Seq(Nat)
          /\ logBuf \in Seq(Nat) /\ Append(logBuf, Head(logChan).msg) \in Seq(Nat)
      BY <2>1
    <3>. QED  BY ONLY <3>1, <3>2, Zenon
  <2>. QED  BY <1>9, <2>1, <2>2 DEF HandleMessage
<1>10. ASSUME UNCHANGED logVars
       PROVE  LogTypeOK'
  BY <1>10 DEF logVars
<1>. QED  BY <1>3, <1>4, <1>5, <1>6, <1>7, <1>8, <1>9, <1>10 DEF LogNext

\* ... and the invariant.
LEMMA LogStep == LogTypeOK /\ LogInv /\ [LogNext]_logVars => LogInv'
<1>. SUFFICES ASSUME LogTypeOK, LogInv, [LogNext]_logVars
              PROVE  LogInv'
  OBVIOUS
<1>1. Logged \in Seq(Nat) /\ Len(Logged) \in Nat
  BY OneMore DEF LogTypeOK, Logged
<1>2. ASSUME StartLogDaemon \/ CloseSender \/ UNCHANGED logVars
      PROVE  LogInv'
  BY <1>2 DEF LogInv, StartLogDaemon, CloseSender, logVars, Logged
<1>3. ASSUME OpenFails
      PROVE  LogInv'
  BY <1>3 DEF LogInv, OpenFails
<1>4. ASSUME MagiskLog
      PROVE  LogInv'
  <2>1. Logged' = Logged
    BY <1>4 DEF MagiskLog, Logged
  <2>2. ASSUME logWriter = "run", logResets < 2
        PROVE  Counts(Logged) /\ Carries(logChan', Len(Logged), logSent')
    <3>1. Counts(Logged) /\ Carries(logChan, Len(Logged), logSent)
      BY <2>2 DEF LogInv
    <3>. QED  BY <1>1, <1>4, <2>2, <3>1, Sent DEF LogTypeOK, MagiskLog
  <2>. QED  BY <1>4, <2>1, <2>2 DEF LogInv, MagiskLog
<1>5. ASSUME SetupLogfile
      PROVE  LogInv'
  <2>1. Logged' = Logged
    BY <1>5 DEF SetupLogfile, Logged
  <2>2. ASSUME logWriter = "run", logResets < 2
        PROVE  Counts(Logged) /\ Carries(logChan', Len(Logged), logSent)
    <3>1. Counts(Logged) /\ Carries(logChan, Len(Logged), logSent)
      BY <2>2 DEF LogInv
    <3>2. PICK r \in {0, 1} : logChan' = Append(logChan, [prio |-> 0, msg |-> r])
      BY <1>5, <2>2 DEF SetupLogfile
    <3>. QED  BY <1>1, <3>1, <3>2, Asked DEF LogTypeOK
  <2>. QED  BY <1>5, <2>1, <2>2 DEF LogInv, SetupLogfile
<1>6. ASSUME HandleSetup
      PROVE  LogInv'
  <2>. DEFINE reset == Head(logChan).msg
  <2>1. logChan # <<>> /\ Head(logChan).prio = 0 /\ logWriter = "run" /\ reset \in Nat
    <3>1. logChan # <<>> /\ Head(logChan) \in Message
      BY <1>6 DEF HandleSetup, LogTypeOK
    <3>. QED  BY <1>6, <3>1 DEF HandleSetup, Message
  <2>2. logResets' = logResets + reset /\ logBuf' = <<>>
    BY <1>6 DEF HandleSetup, OpenLog
  <2>3. logResets' = 0 => logBak' = <<>>
    BY <1>6, <2>1, <2>2 DEF HandleSetup, OpenLog, LogInv, LogTypeOK
  <2>4. ASSUME logResets' < 2
        PROVE  Logged' = Logged
    <3>1. CASE reset = 1
      <4>1. logBak = <<>>
        BY <2>1, <2>2, <2>4, <3>1 DEF LogInv, LogTypeOK
      <4>2. logBak' = logFile /\ logFile' = <<>> \o logBuf
        BY <1>6, <3>1 DEF HandleSetup, OpenLog
      <4>. QED  BY <2>2, <4>1, <4>2, Moved DEF Logged, LogTypeOK
    <3>2. CASE reset # 1
      <4>1. logBak' = logBak /\ logFile' = logFile \o logBuf
        BY <1>6, <3>2 DEF HandleSetup, OpenLog
      <4>. QED  BY <2>2, <4>1, Moved DEF Logged, LogTypeOK
    <3>. QED  BY <3>1, <3>2
  <2>5. ASSUME logResets' < 2
        PROVE  Counts(Logged') /\ Carries(logChan', Len(Logged'), logSent')
    <3>1. Counts(Logged) /\ Carries(logChan, Len(Logged), logSent)
      BY <2>1, <2>2, <2>5 DEF LogInv, LogTypeOK
    <3>2. Carries(Tail(logChan), Len(Logged), logSent)
      BY <1>1, <2>1, <3>1, Taken DEF LogTypeOK
    <3>. QED  BY <1>6, <2>4, <2>5, <3>1, <3>2 DEF HandleSetup
  <2>. QED  BY <1>6, <2>1, <2>2, <2>3, <2>5 DEF LogInv, HandleSetup
<1>7. ASSUME HandleMessage
      PROVE  LogInv'
  <2>1. logChan # <<>> /\ Head(logChan).prio = 1 /\ logWriter = "run"
    BY <1>7 DEF HandleMessage
  <2>2. logResets' = 0 => logBak' = <<>>
    BY <1>7 DEF HandleMessage, LogInv
  <2>3. logOpen' => logBuf' = <<>>
    BY <1>7 DEF HandleMessage, LogInv, LogTypeOK
  <2>4. ASSUME logResets' < 2
        PROVE  Counts(Logged') /\ Carries(logChan', Len(Logged'), logSent')
    <3>1. Counts(Logged) /\ Carries(logChan, Len(Logged), logSent)
      BY <1>7, <2>1, <2>4 DEF LogInv, HandleMessage
    <3>2. Head(logChan).msg = Len(Logged) /\ Carries(Tail(logChan), Len(Logged) + 1, logSent)
      BY <1>1, <2>1, <3>1, Taken DEF LogTypeOK
    <3>3. Logged' = Append(Logged, Len(Logged))
      <4>0. /\ logBak \in Seq(Nat) /\ logFile \in Seq(Nat) /\ logBuf \in Seq(Nat) /\ Len(Logged) \in Nat
        BY <1>1 DEF LogTypeOK
      <4>1. CASE logOpen
        <5>1. logBuf = <<>> /\ logBuf' = <<>> /\ logBak' = logBak /\ logFile' = Append(logFile, Len(Logged))
          BY <1>7, <3>2, <4>1 DEF HandleMessage, LogInv
        <5>2. Logged = logBak \o logFile \o <<>>
          BY <5>1 DEF Logged
        <5>3. \A n \in Nat : logBak \o Append(logFile, n) \o <<>> = Append(logBak \o logFile \o <<>>, n)
          BY ONLY <4>0
        <5>4. Logged' = logBak \o Append(logFile, Len(Logged)) \o <<>>
          BY <5>1 DEF Logged
        <5>. QED  BY <4>0, <5>2, <5>3, <5>4, Zenon
      <4>2. CASE ~logOpen
        <5>1. logBuf' = Append(logBuf, Len(Logged)) /\ logBak' = logBak /\ logFile' = logFile
          BY <1>7, <3>2, <4>2 DEF HandleMessage
        <5>2. \A n \in Nat : logBak \o logFile \o Append(logBuf, n) = Append(logBak \o logFile \o logBuf, n)
          BY ONLY <4>0, SMTT(30)
        <5>3. Logged' = logBak \o logFile \o Append(logBuf, Len(Logged))
          BY <5>1 DEF Logged
        <5>. QED  BY <4>0, <5>2, <5>3, Zenon DEF Logged
      <4>. QED  BY <4>1, <4>2 DEF LogTypeOK
    <3>4. Counts(Logged') /\ Len(Logged') = Len(Logged) + 1
      BY <1>1, <3>1, <3>3, CountsOn
    <3>. QED  BY <1>7, <3>2, <3>4 DEF HandleMessage
  <2>. QED  BY <1>7, <2>1, <2>2, <2>3, <2>4 DEF LogInv, HandleMessage
<1>. QED  BY <1>2, <1>3, <1>4, <1>5, <1>6, <1>7 DEF LogNext

\* Whenever the file is opened, and however often, the log has every message
\* that was sent, once and in order, as long as at most one backup was made.
THEOREM NoMessageLost == LogSpec => []LogComplete
<1>1. LogInit => LogTypeOK /\ LogInv
  <2>. SUFFICES ASSUME LogInit
                PROVE  LogTypeOK /\ LogInv
    OBVIOUS
  <2>1. LogTypeOK
    <3>1. log_sockfd \in BOOLEAN /\ logOpen \in BOOLEAN
      BY DEF LogInit
    <3>2. logFile \in Seq(Nat)
      BY DEF LogInit
    <3>. QED  BY <3>1, <3>2 DEF LogInit, LogTypeOK
  <2>2. Logged = <<0>>
    BY DEF LogInit, Logged
  <2>3. Counts(Logged) /\ Carries(logChan, Len(Logged), logSent)
    BY <2>2 DEF LogInit, Counts, Carries
  <2>. QED  BY <2>1, <2>3 DEF LogInit, LogInv
<1>2. LogTypeOK /\ LogInv => LogComplete
  <2>. SUFFICES ASSUME LogTypeOK, LogInv, logWriter = "run", logResets < 2
                PROVE  /\ \A i \in DOMAIN Logged : Logged[i] = i - 1
                       /\ {logChan[i].msg : i \in OnTheWay} = Len(Logged) .. logSent
                       /\ \A i, j \in OnTheWay : i < j => logChan[i].msg < logChan[j].msg
    BY DEF LogComplete
  <2>1. Counts(Logged) /\ Carries(logChan, Len(Logged), logSent) /\ Logged \in Seq(Nat)
    BY OneMore DEF LogInv, LogTypeOK, Logged
  <2>2. DOMAIN Logged = 1 .. Len(Logged) /\ DOMAIN logChan = 1 .. Len(logChan)
    BY <2>1 DEF LogTypeOK
  <2>3. {logChan[i].msg : i \in OnTheWay} = Len(Logged) .. logSent
    BY <2>1, <2>2, SMTT(30) DEF Carries, OnTheWay
  <2>. QED  BY <2>1, <2>2, <2>3 DEF Counts, Carries, OnTheWay
<1>. QED  BY <1>1, <1>2, LogTypeStep, LogStep, PTL DEF LogSpec

(***************************************************************************)
(* Superuser sessions: the invariant                                       *)
(***************************************************************************)

ClientStates == {"idle", "ack", "open", "send", "raw", "flag", "start", "pump", "read", "restore", "code", "ended", "killed"}
SignalStates == {"raw", "flag", "start", "pump", "read", "restore", "code"}
HandlerStates == {"none", "ack", "streams", "terminal", "exec", "shell", "gone"}

FlagOK ==
    /\ stdin_is_raw \in BOOLEAN /\ inClosed \in BOOLEAN /\ stdClosed \in BOOLEAN /\ toHandler \in BOOLEAN /\ slave \in BOOLEAN

ClientOK ==
    /\ (cli # "idle" => ses \in Sessions) /\ cli \in ClientStates /\ code \in Int
    /\ term \in {"cooked", "raw"} /\ signalAt \in SignalStates \cup {"never"} /\ keyAt \in ClientStates \cup {"never"}
    /\ ptmx \in {"none", "open", "closed", "held"} /\ reader \in {"off", "on", "in"}

DaemonOK ==
    /\ toClient \in {"none", "ack", "code"} /\ srv \in {"off", "wait", "done", "dead"}
    /\ hdl \in HandlerStates /\ ns \in {"none", "global", "requester", "private"} /\ exit \in Int

DataOK ==
    /\ input \in Nat /\ inPty \in Nat /\ outPty \in Nat /\ shown \in Nat /\ got \in Nat /\ wrote \in Nat

SessTypeOK == FlagOK /\ ClientOK /\ DaemonOK /\ DataOK

\* The terminal is raw from SetRaw until it is restored, and the flag says
\* so, but for the step between the two and for a signal in that step; once
\* the streams are closed nobody makes it raw any more. Stdin is closed by
\* the handler, or by the other thread at a key it cannot pass on, which
\* needs the master to be closed: not while the client reads from it.
TermInv ==
    /\ stdClosed <=> signalAt # "never"
    /\ stdClosed => inClosed
    /\ stdin_is_raw => OnTty("in")
    /\ inClosed /\ ~stdClosed => keyAt # "never" \/ ~OnTty("in")
    /\ cli = "idle" => ~inClosed
    /\ ~(Pumping \/ ClientGone) => reader = "off" /\ keyAt = "never" /\ (inClosed => stdClosed)
    /\ cli = "read" => HasMaster
    /\ ptmx = "held" => reader = "off" /\ cli = "read"
    /\ keyAt # "never" => reader = "off"
    /\ keyAt \in {"never", "pump", "restore", "code"} /\ (keyAt = "code" => cli \in {"code", "ended", "killed"})
    /\ cli \in {"idle", "ack", "open", "send", "raw"} => term = "cooked" /\ ~stdin_is_raw
    /\ cli = "flag" => signalAt \in {"never", "flag"} /\ term = "raw" /\ ~stdin_is_raw /\ OnTty("in")
    /\ signalAt # "flag" /\ cli \notin {"flag", "killed"} => (term = "raw" <=> stdin_is_raw)
    /\ signalAt # "flag" /\ keyAt \notin {"pump", "restore"} /\ (stdClosed \/ cli \in {"code", "ended"}) =>
          term = "cooked" /\ ~stdin_is_raw

\* Nothing has begun before the fork.
IdleInv ==
    /\ cli = "idle" => /\ hdl = "none" /\ srv = "off" /\ toClient = "none" /\ ~toHandler /\ ptmx = "none"
                       /\ outPty = 0 /\ shown = 0 /\ wrote = 0
    /\ hdl = "none" \/ srv = "off" => cli = "idle"

\* The two ints of the socket: the ack is the first, and the code is sent
\* once and by a thread that knows how the shell ended.
SocketInv ==
    /\ cli = "ack" => toClient # "code" /\ (hdl # "ack" => toClient = "ack")
    /\ toClient = "code" => srv = "done"
    /\ srv = "done" => hdl = "gone"
    /\ srv = "done" /\ ~ClientGone => toClient = "code"
    /\ hdl = "ack" => cli \in {"ack", "ended", "killed"} /\ toClient # "ack"

\* No shell without streams, and none on a terminal that was never made.
StartInv ==
    /\ cli \in {"ack", "open", "send"} => ~toHandler
    /\ cli \in {"ack", "open"} => ptmx = "none"
    /\ ~toHandler => hdl \notin {"terminal", "exec", "shell"} /\ wrote = 0
    /\ ptmx = "none" /\ cli # "idle" /\ ses.tty # {} => hdl \notin {"exec", "shell"} /\ wrote = 0

\* What was written is shown or still in the pty; the pump of a client whose
\* stdin is the terminal stops only when nothing more can come.
OutputInv ==
    cli # "idle" /\ OnTty("out") =>
        /\ wrote = shown + outPty
        /\ OnTty("in") /\ signalAt = "never" =>
            /\ cli \in {"send", "raw", "flag", "start", "pump", "read"} => ptmx \in {"none", "open"}
            /\ cli \in {"restore", "code", "ended"} => outPty = 0 /\ (hdl = "gone" \/ ptmx = "none" \/ ~toHandler)

\* Who waits for the code has sent everything, has read the ack and has given
\* up the master; a signal in the pump leads there.
EndInv ==
    /\ cli \in {"raw", "flag", "start"} \/ Pumping => toHandler /\ toClient # "ack"
    /\ cli \in {"open", "send"} => toClient # "ack" /\ (cli = "send" /\ ses.tty = {} => ptmx = "none")
    /\ cli \in {"restore", "code", "ended", "killed"} => ptmx \in {"none", "closed"}
    /\ signalAt \in {"read", "restore", "code"} => cli \in {"restore", "code", "ended", "killed"}

SessInv == SessTypeOK /\ TermInv /\ IdleInv /\ SocketInv /\ ShellCode /\ StartInv /\ OutputInv /\ EndInv

(***************************************************************************)
(* Superuser sessions: the steps                                           *)
(***************************************************************************)

\* Each action preserves the types.
LEMMA SessTypeStep == SessTypeOK /\ IdleInv /\ [SessNext]_sessVars => SessTypeOK'
<1>. SUFFICES ASSUME SessTypeOK, IdleInv, [SessNext]_sessVars
              PROVE  SessTypeOK'
  OBVIOUS
<1>. USE SessionsAssumption DEF ClientStates, SignalStates, HandlerStates, EACCES
<1>1. ASSUME ForkHandler
      PROVE  SessTypeOK'
  BY <1>1 DEF SessTypeOK, FlagOK, ClientOK, DaemonOK, DataOK, ForkHandler, termVars
<1>2. ASSUME ReadAck
      PROVE  SessTypeOK'
  <2>1. FlagOK'
    BY <1>2 DEF SessTypeOK, FlagOK, ReadAck, termVars, dataVars, shellVars, Eof, HandlerHoldsSocket
  <2>2. ClientOK'
    BY <1>2 DEF SessTypeOK, ClientOK, DaemonOK, DataOK, ReadAck, termVars, dataVars, shellVars, Eof, HandlerHoldsSocket
  <2>3. DaemonOK'
    BY <1>2 DEF SessTypeOK, DaemonOK, ClientOK, ReadAck, termVars, dataVars, shellVars, Eof, HandlerHoldsSocket
  <2>4. DataOK'
    BY <1>2 DEF SessTypeOK, DataOK, ReadAck, termVars, dataVars, shellVars, Eof, HandlerHoldsSocket
  <2>. QED  BY <2>1, <2>2, <2>3, <2>4 DEF SessTypeOK
<1>3. ASSUME OpenPty
      PROVE  SessTypeOK'
  BY <1>3 DEF SessTypeOK, FlagOK, ClientOK, DaemonOK, DataOK, OpenPty, termVars, dataVars, shellVars
<1>4. ASSUME SendStreams
      PROVE  SessTypeOK'
  <2>1. FlagOK'
    BY <1>4 DEF SessTypeOK, FlagOK, SendStreams, termVars, dataVars, shellVars, HandlerHoldsSocket
  <2>2. ClientOK'
    BY <1>4 DEF SessTypeOK, ClientOK, DaemonOK, DataOK, SendStreams, termVars, dataVars, shellVars, HandlerHoldsSocket
  <2>3. DaemonOK'
    BY <1>4 DEF SessTypeOK, DaemonOK, ClientOK, SendStreams, termVars, dataVars, shellVars, HandlerHoldsSocket
  <2>4. DataOK'
    BY <1>4 DEF SessTypeOK, DataOK, SendStreams, termVars, dataVars, shellVars, HandlerHoldsSocket
  <2>. QED  BY <2>1, <2>2, <2>3, <2>4 DEF SessTypeOK
<1>5. ASSUME SetRaw
      PROVE  SessTypeOK'
  BY <1>5 DEF SessTypeOK, FlagOK, ClientOK, DaemonOK, DataOK, SetRaw, dataVars, shellVars, OnTty
<1>6. ASSUME SetRawFlag
      PROVE  SessTypeOK'
  BY <1>6 DEF SessTypeOK, FlagOK, ClientOK, DaemonOK, DataOK, SetRawFlag, dataVars, shellVars
<1>7. ASSUME StartPumps
      PROVE  SessTypeOK'
  BY <1>7 DEF SessTypeOK, FlagOK, ClientOK, DaemonOK, DataOK, StartPumps, termVars, dataVars, shellVars
<1>8. ASSUME PumpInput
      PROVE  SessTypeOK'
  <2>1. FlagOK'
    BY <1>8 DEF SessTypeOK, FlagOK, PumpInput, shellVars
  <2>2. ClientOK'
    BY <1>8 DEF SessTypeOK, ClientOK, PumpInput, shellVars
  <2>3. DaemonOK'
    BY <1>8 DEF SessTypeOK, DaemonOK, PumpInput, shellVars
  <2>4. DataOK'
    BY <1>8 DEF SessTypeOK, DataOK, PumpInput, shellVars
  <2>. QED  BY <2>1, <2>2, <2>3, <2>4 DEF SessTypeOK
<1>9. ASSUME InputEnds
      PROVE  SessTypeOK'
  <2>1. FlagOK'
    BY <1>9 DEF SessTypeOK, FlagOK, InputEnds, dataVars, shellVars
  <2>2. ClientOK' /\ DaemonOK' /\ DataOK'
    BY <1>9 DEF SessTypeOK, ClientOK, DaemonOK, DataOK, InputEnds, dataVars, shellVars
  <2>. QED  BY <2>1, <2>2 DEF SessTypeOK
<1>10. ASSUME PumpOutput \/ ReaderReads \/ MainReads
      PROVE  SessTypeOK'
  <2>1. FlagOK'
    BY <1>10 DEF SessTypeOK, FlagOK, PumpOutput, ReaderReads, MainReads, termVars, dataVars, shellVars
  <2>2. ClientOK' /\ DaemonOK' /\ DataOK'
    BY <1>10
    DEF SessTypeOK, ClientOK, DaemonOK, DataOK, PumpOutput, ReaderReads, MainReads, termVars, dataVars, shellVars,
        Released
  <2>. QED  BY <2>1, <2>2 DEF SessTypeOK
<1>11. ASSUME OutputEnds \/ RestoreTerminal
      PROVE  SessTypeOK'
  <2>1. FlagOK'
    BY <1>11 DEF SessTypeOK, FlagOK, OutputEnds, RestoreTerminal, termVars, dataVars, shellVars, HasMaster, Released, RestoreStdin, HungUp
  <2>2. ClientOK'
    BY <1>11 DEF SessTypeOK, ClientOK, DaemonOK, DataOK, OutputEnds, RestoreTerminal, termVars, dataVars, shellVars, HasMaster, Released, RestoreStdin, HungUp
  <2>3. DaemonOK'
    BY <1>11 DEF SessTypeOK, DaemonOK, ClientOK, OutputEnds, RestoreTerminal, termVars, dataVars, shellVars, HasMaster, Released, RestoreStdin, HungUp
  <2>4. DataOK'
    BY <1>11 DEF SessTypeOK, DataOK, OutputEnds, RestoreTerminal, termVars, dataVars, shellVars, HasMaster, Released, RestoreStdin, HungUp
  <2>. QED  BY <2>1, <2>2, <2>3, <2>4 DEF SessTypeOK
<1>12. ASSUME ReadCode
      PROVE  SessTypeOK'
  <2>1. FlagOK'
    BY <1>12 DEF SessTypeOK, FlagOK, ReadCode, termVars, dataVars, shellVars, Eof, HandlerHoldsSocket, Released
  <2>2. ClientOK'
    BY <1>12 DEF SessTypeOK, ClientOK, DaemonOK, DataOK, ReadCode, Answered, termVars, dataVars, shellVars, Eof, HandlerHoldsSocket, Released
  <2>3. DaemonOK'
    BY <1>12 DEF SessTypeOK, DaemonOK, ClientOK, ReadCode, termVars, dataVars, shellVars, Eof, HandlerHoldsSocket, Released
  <2>4. DataOK'
    BY <1>12 DEF SessTypeOK, DataOK, ReadCode, termVars, dataVars, shellVars, Eof, HandlerHoldsSocket, Released
  <2>. QED  BY <2>1, <2>2, <2>3, <2>4 DEF SessTypeOK
<1>13. ASSUME HandlerAck
      PROVE  SessTypeOK'
  BY <1>13 DEF SessTypeOK, FlagOK, ClientOK, DaemonOK, DataOK, HandlerAck, clientVars, ClientGone
<1>14. ASSUME HandlerStreams
      PROVE  SessTypeOK'
  <2>1. FlagOK'
    BY <1>14 DEF SessTypeOK, FlagOK, HandlerStreams, clientVars, HandlerExits, ClientGone
  <2>2. ClientOK'
    BY <1>14 DEF SessTypeOK, ClientOK, DaemonOK, DataOK, HandlerStreams, clientVars, HandlerExits, ClientGone
  <2>3. DaemonOK'
    BY <1>14 DEF SessTypeOK, DaemonOK, ClientOK, HandlerStreams, clientVars, HandlerExits, ClientGone
  <2>4. DataOK'
    BY <1>14 DEF SessTypeOK, DataOK, HandlerStreams, clientVars, HandlerExits, ClientGone
  <2>. QED  BY <2>1, <2>2, <2>3, <2>4 DEF SessTypeOK
<1>15. ASSUME HandlerTerminal
      PROVE  SessTypeOK'
  <2>1. FlagOK'
    BY <1>15 DEF SessTypeOK, FlagOK, HandlerTerminal, clientVars, HasMaster, HandlerExits
  <2>2. ClientOK'
    BY <1>15 DEF SessTypeOK, ClientOK, DaemonOK, DataOK, HandlerTerminal, clientVars, HasMaster, HandlerExits
  <2>3. DaemonOK'
    BY <1>15 DEF SessTypeOK, DaemonOK, ClientOK, HandlerTerminal, clientVars, HasMaster, HandlerExits
  <2>4. DataOK'
    BY <1>15 DEF SessTypeOK, DataOK, HandlerTerminal, clientVars, HasMaster, HandlerExits
  <2>. QED  BY <2>1, <2>2, <2>3, <2>4 DEF SessTypeOK
<1>16. ASSUME HandlerExec
      PROVE  SessTypeOK'
  <2>1. FlagOK'
    BY <1>16 DEF SessTypeOK, FlagOK, HandlerExec, clientVars, HandlerExits, Joined
  <2>2. ClientOK'
    BY <1>16 DEF SessTypeOK, ClientOK, DaemonOK, DataOK, HandlerExec, clientVars, HandlerExits, Joined
  <2>3. DaemonOK'
    BY <1>16 DEF SessTypeOK, DaemonOK, ClientOK, HandlerExec, clientVars, HandlerExits, Joined
  <2>4. DataOK'
    BY <1>16 DEF SessTypeOK, DataOK, HandlerExec, clientVars, HandlerExits, Joined
  <2>. QED  BY <2>1, <2>2, <2>3, <2>4 DEF SessTypeOK
<1>17. ASSUME ShellReads
      PROVE  SessTypeOK'
  BY <1>17 DEF SessTypeOK, FlagOK, ClientOK, DaemonOK, DataOK, ShellReads, Readable, termVars, OnTty
<1>18. ASSUME ShellWrites
      PROVE  SessTypeOK'
  BY <1>18 DEF SessTypeOK, FlagOK, ClientOK, DaemonOK, DataOK, ShellWrites, termVars, OnTty, HasMaster
<1>19. ASSUME ShellEnds
      PROVE  SessTypeOK'
  <2>1. FlagOK'
    BY <1>19 DEF SessTypeOK, FlagOK, ShellEnds, clientVars, OnTty, HasMaster
  <2>2. ClientOK'
    BY <1>19 DEF SessTypeOK, ClientOK, DaemonOK, DataOK, ShellEnds, clientVars, OnTty, HasMaster
  <2>3. DaemonOK'
    <3>1. exit' \in {0, 2}
      BY <1>19 DEF ShellEnds
    <3>. QED  BY <1>19, <3>1 DEF SessTypeOK, DaemonOK, ShellEnds
  <2>4. DataOK'
    BY <1>19 DEF SessTypeOK, DataOK, ShellEnds, clientVars, OnTty, HasMaster
  <2>. QED  BY <2>1, <2>2, <2>3, <2>4 DEF SessTypeOK
<1>20. ASSUME BackgroundEnds
      PROVE  SessTypeOK'
  <2>1. FlagOK'
    BY <1>20 DEF SessTypeOK, FlagOK, BackgroundEnds, clientVars
  <2>2. ClientOK'
    BY <1>20 DEF SessTypeOK, ClientOK, DaemonOK, DataOK, BackgroundEnds, clientVars
  <2>3. DaemonOK'
    BY <1>20 DEF SessTypeOK, DaemonOK, ClientOK, BackgroundEnds, clientVars
  <2>4. DataOK'
    BY <1>20 DEF SessTypeOK, DataOK, BackgroundEnds, clientVars
  <2>. QED  BY <2>1, <2>2, <2>3, <2>4 DEF SessTypeOK
<1>21. ASSUME SendCode
      PROVE  SessTypeOK'
  BY <1>21 DEF SessTypeOK, FlagOK, ClientOK, DaemonOK, DataOK, SendCode, clientVars, shellVars, ClientGone, Waited
<1>22. ASSUME QuitSignal
      PROVE  SessTypeOK'
  <2>1. FlagOK'
    BY <1>22 DEF SessTypeOK, FlagOK, QuitSignal, Pumping, dataVars, shellVars, Sighandler, Released, RestoreStdin
  <2>2. ClientOK'
    BY <1>22 DEF SessTypeOK, ClientOK, DaemonOK, DataOK, QuitSignal, Pumping, dataVars, shellVars, Sighandler, Released, RestoreStdin
  <2>3. DaemonOK'
    BY <1>22 DEF SessTypeOK, DaemonOK, ClientOK, QuitSignal, Pumping, dataVars, shellVars, Sighandler, Released, RestoreStdin
  <2>4. DataOK'
    BY <1>22 DEF SessTypeOK, DataOK, QuitSignal, Pumping, dataVars, shellVars, Sighandler, Released, RestoreStdin
  <2>. QED  BY <2>1, <2>2, <2>3, <2>4 DEF SessTypeOK
<1>23. ASSUME Kill
      PROVE  SessTypeOK'
  BY <1>23 DEF SessTypeOK, FlagOK, ClientOK, DaemonOK, DataOK, Kill, termVars, dataVars, shellVars, Released
<1>24. ASSUME DaemonDies
      PROVE  SessTypeOK'
  BY <1>24 DEF SessTypeOK, FlagOK, ClientOK, DaemonOK, DataOK, DaemonDies, clientVars, shellVars
<1>25. ASSUME UNCHANGED sessVars
      PROVE  SessTypeOK'
  BY <1>25 DEF sessVars, SessTypeOK, FlagOK, ClientOK, DaemonOK, DataOK
<1>. QED  BY <1>1, <1>2, <1>3, <1>4, <1>5, <1>6, <1>7, <1>8, <1>9, <1>10, <1>11, <1>12, <1>13, <1>14, <1>15, <1>16, <1>17, <1>18, <1>19, <1>20, <1>21, <1>22, <1>23, <1>24, <1>25 DEF SessNext, SessStep

\* Each action preserves TermInv.
LEMMA TermStep == SessTypeOK /\ TermInv /\ [SessNext]_sessVars => TermInv'
<1>. SUFFICES ASSUME SessTypeOK, TermInv, [SessNext]_sessVars
              PROVE  TermInv'
  OBVIOUS
<1>. USE DEF SessTypeOK, FlagOK, ClientOK, DaemonOK, DataOK, ClientStates, SignalStates, TermInv, Pumping, ClientGone,
             HasMaster, OnTty
<1>1. ASSUME ForkHandler
      PROVE  TermInv'
  BY <1>1 DEF ForkHandler, termVars
<1>2. ASSUME ReadAck \/ OpenPty \/ SendStreams
      PROVE  TermInv'
  BY <1>2
  DEF ReadAck, OpenPty, SendStreams, termVars, dataVars, shellVars, Eof, HandlerHoldsSocket
<1>3. ASSUME SetRaw
      PROVE  TermInv'
  BY <1>3 DEF SetRaw, dataVars, shellVars, OnTty
<1>4. ASSUME SetRawFlag
      PROVE  TermInv'
  BY <1>4 DEF SetRawFlag, dataVars, shellVars
<1>5. ASSUME StartPumps
      PROVE  TermInv'
  BY <1>5 DEF StartPumps, termVars, dataVars, shellVars
<1>6. ASSUME PumpInput \/ InputEnds \/ PumpOutput \/ ReaderReads \/ MainReads
      PROVE  TermInv'
  <2>1. CASE PumpInput
    BY <2>1 DEF PumpInput, shellVars
  <2>2. CASE InputEnds
    BY <2>2 DEF InputEnds, shellVars, dataVars
  <2>3. CASE PumpOutput
    BY <2>3 DEF PumpOutput, termVars, shellVars, Released
  <2>4. CASE ReaderReads \/ MainReads
    BY <2>4 DEF ReaderReads, MainReads, termVars, shellVars, dataVars
  <2>. QED  BY <1>6, <2>1, <2>2, <2>3, <2>4
<1>7. ASSUME OutputEnds \/ RestoreTerminal
      PROVE  TermInv'
  BY <1>7 DEF OutputEnds, RestoreTerminal, termVars, dataVars, shellVars, HasMaster, Released, RestoreStdin, HungUp
<1>8. ASSUME ReadCode
      PROVE  TermInv'
  BY <1>8 DEF ReadCode, Answered, termVars, dataVars, shellVars, Eof, HandlerHoldsSocket, Released
<1>9. ASSUME HandlerAck \/ HandlerStreams \/ HandlerTerminal \/ HandlerExec
      PROVE  TermInv'
  BY <1>9
  DEF HandlerAck, HandlerStreams, HandlerTerminal, HandlerExec, clientVars, StreamsOver, ClientGone, HandlerExits,
      HasMaster, Joined
<1>10. ASSUME ShellReads \/ ShellWrites
      PROVE  TermInv'
  BY <1>10
  DEF ShellReads, ShellWrites, Readable, termVars, OnTty, HasMaster
<1>11. ASSUME ShellEnds
      PROVE  TermInv'
  BY <1>11 DEF ShellEnds, ToldToEnd, Hangup, clientVars, OnTty, HasMaster
<1>12. ASSUME BackgroundEnds
      PROVE  TermInv'
  BY <1>12 DEF BackgroundEnds, clientVars
<1>13. ASSUME SendCode \/ DaemonDies
      PROVE  TermInv'
  BY <1>13
  DEF SendCode, DaemonDies, Sendable, clientVars, shellVars, ClientGone, Waited
<1>14. ASSUME QuitSignal
      PROVE  TermInv'
  BY <1>14 DEF QuitSignal, Pumping, dataVars, shellVars, Sighandler, Released, RestoreStdin
<1>15. ASSUME Kill
      PROVE  TermInv'
  BY <1>15 DEF Kill, termVars, dataVars, shellVars, Released
<1>16. ASSUME UNCHANGED sessVars
      PROVE  TermInv'
  BY <1>16 DEF sessVars
<1>. QED  BY <1>1, <1>2, <1>3, <1>4, <1>5, <1>6, <1>7, <1>8, <1>9, <1>10, <1>11, <1>12, <1>13, <1>14, <1>15, <1>16 DEF SessNext, SessStep

\* Each action preserves IdleInv.
LEMMA IdleStep == SessTypeOK /\ IdleInv /\ [SessNext]_sessVars => IdleInv'
<1>. SUFFICES ASSUME SessTypeOK, IdleInv, [SessNext]_sessVars
              PROVE  IdleInv'
  OBVIOUS
<1>. USE DEF SessTypeOK, FlagOK, ClientOK, DaemonOK, DataOK, IdleInv
<1>1. ASSUME ForkHandler
      PROVE  IdleInv'
  BY <1>1 DEF ForkHandler, termVars
<1>2. ASSUME ReadAck \/ OpenPty \/ SendStreams
      PROVE  IdleInv'
  BY <1>2
  DEF ReadAck, OpenPty, SendStreams, termVars, dataVars, shellVars, Eof, HandlerHoldsSocket
<1>3. ASSUME SetRaw \/ SetRawFlag \/ StartPumps
      PROVE  IdleInv'
  BY <1>3
  DEF SetRaw, SetRawFlag, StartPumps, dataVars, shellVars, OnTty, termVars
<1>4. ASSUME PumpInput \/ InputEnds \/ PumpOutput \/ ReaderReads \/ MainReads
      PROVE  IdleInv'
  BY <1>4
  DEF PumpInput, InputEnds, PumpOutput, ReaderReads, MainReads, Pumping, termVars, shellVars, dataVars, OnTty, HasMaster, Released
<1>5. ASSUME OutputEnds \/ RestoreTerminal
      PROVE  IdleInv'
  BY <1>5 DEF OutputEnds, RestoreTerminal, termVars, dataVars, shellVars, HasMaster, Released, RestoreStdin, HungUp
<1>6. ASSUME ReadCode
      PROVE  IdleInv'
  BY <1>6 DEF ReadCode, Answered, termVars, dataVars, shellVars, Eof, HandlerHoldsSocket, Released
<1>7. ASSUME HandlerAck \/ HandlerStreams \/ HandlerTerminal \/ HandlerExec
      PROVE  IdleInv'
  BY <1>7
  DEF HandlerAck, HandlerStreams, HandlerTerminal, HandlerExec, clientVars, StreamsOver, ClientGone, HandlerExits,
      HasMaster, Joined
<1>8. ASSUME ShellReads \/ ShellWrites \/ ShellEnds \/ BackgroundEnds
      PROVE  IdleInv'
  BY <1>8
  DEF ShellReads, ShellWrites, ShellEnds, BackgroundEnds, Readable, ToldToEnd, Hangup, termVars, OnTty, HasMaster, clientVars
<1>9. ASSUME SendCode \/ DaemonDies
      PROVE  IdleInv'
  BY <1>9
  DEF SendCode, DaemonDies, Sendable, clientVars, shellVars, ClientGone, Waited
<1>10. ASSUME QuitSignal
      PROVE  IdleInv'
  BY <1>10 DEF QuitSignal, Pumping, dataVars, shellVars, Sighandler, Released, RestoreStdin
<1>11. ASSUME Kill
      PROVE  IdleInv'
  BY <1>11 DEF Kill, termVars, dataVars, shellVars, Released
<1>12. ASSUME UNCHANGED sessVars
      PROVE  IdleInv'
  BY <1>12 DEF sessVars
<1>. QED  BY <1>1, <1>2, <1>3, <1>4, <1>5, <1>6, <1>7, <1>8, <1>9, <1>10, <1>11, <1>12 DEF SessNext, SessStep

\* Each action preserves SocketInv.
LEMMA SocketStep == SessTypeOK /\ IdleInv /\ SocketInv /\ [SessNext]_sessVars => SocketInv'
<1>. SUFFICES ASSUME SessTypeOK, IdleInv, SocketInv, [SessNext]_sessVars
              PROVE  SocketInv'
  OBVIOUS
<1>. USE DEF SessTypeOK, FlagOK, ClientOK, DaemonOK, DataOK, ClientStates, HandlerStates, IdleInv, SocketInv, ClientGone
<1>1. ASSUME ForkHandler
      PROVE  SocketInv'
  BY <1>1 DEF ForkHandler, termVars
<1>2. ASSUME ReadAck \/ OpenPty \/ SendStreams
      PROVE  SocketInv'
  BY <1>2
  DEF ReadAck, OpenPty, SendStreams, termVars, dataVars, shellVars, Eof, HandlerHoldsSocket
<1>3. ASSUME SetRaw \/ SetRawFlag \/ StartPumps
      PROVE  SocketInv'
  BY <1>3
  DEF SetRaw, SetRawFlag, StartPumps, dataVars, shellVars, OnTty, termVars
<1>4. ASSUME PumpInput \/ InputEnds \/ PumpOutput \/ ReaderReads \/ MainReads
      PROVE  SocketInv'
  BY <1>4
  DEF PumpInput, InputEnds, PumpOutput, ReaderReads, MainReads, Pumping, termVars, shellVars, dataVars, OnTty, HasMaster, Released
<1>5. ASSUME OutputEnds \/ RestoreTerminal
      PROVE  SocketInv'
  BY <1>5 DEF OutputEnds, RestoreTerminal, termVars, dataVars, shellVars, HasMaster, Released, RestoreStdin, HungUp
<1>6. ASSUME ReadCode
      PROVE  SocketInv'
  BY <1>6 DEF ReadCode, Answered, termVars, dataVars, shellVars, Eof, HandlerHoldsSocket, Released
<1>7. ASSUME HandlerAck \/ HandlerStreams \/ HandlerTerminal \/ HandlerExec
      PROVE  SocketInv'
  BY <1>7
  DEF HandlerAck, HandlerStreams, HandlerTerminal, HandlerExec, clientVars, StreamsOver, ClientGone, HandlerExits,
      HasMaster, Joined
<1>8. ASSUME ShellReads \/ ShellWrites \/ ShellEnds \/ BackgroundEnds
      PROVE  SocketInv'
  BY <1>8
  DEF ShellReads, ShellWrites, ShellEnds, BackgroundEnds, Readable, ToldToEnd, Hangup, termVars, OnTty, HasMaster, clientVars
<1>9. ASSUME SendCode \/ DaemonDies
      PROVE  SocketInv'
  BY <1>9
  DEF SendCode, DaemonDies, Sendable, clientVars, shellVars, ClientGone, Waited
<1>10. ASSUME QuitSignal
      PROVE  SocketInv'
  BY <1>10 DEF QuitSignal, Pumping, dataVars, shellVars, Sighandler, Released, RestoreStdin
<1>11. ASSUME Kill
      PROVE  SocketInv'
  BY <1>11 DEF Kill, termVars, dataVars, shellVars, Released
<1>12. ASSUME UNCHANGED sessVars
      PROVE  SocketInv'
  BY <1>12 DEF sessVars
<1>. QED  BY <1>1, <1>2, <1>3, <1>4, <1>5, <1>6, <1>7, <1>8, <1>9, <1>10, <1>11, <1>12 DEF SessNext, SessStep

\* The code a client returns is the status of its shell.
LEMMA CodeStep == SessTypeOK /\ IdleInv /\ SocketInv /\ ShellCode /\ [SessNext]_sessVars => ShellCode'
<1>. SUFFICES ASSUME SessTypeOK, IdleInv, SocketInv, ShellCode, [SessNext]_sessVars
              PROVE  ShellCode'
  OBVIOUS
<1>. USE DEF SessTypeOK, FlagOK, ClientOK, DaemonOK, DataOK, ClientStates, IdleInv, SocketInv, ClientGone, ShellCode
<1>1. ASSUME ForkHandler
      PROVE  ShellCode'
  BY <1>1 DEF ForkHandler, termVars
<1>2. ASSUME ReadAck \/ OpenPty \/ SendStreams
      PROVE  ShellCode'
  BY <1>2
  DEF ReadAck, OpenPty, SendStreams, termVars, dataVars, shellVars, Eof, HandlerHoldsSocket
<1>3. ASSUME SetRaw \/ SetRawFlag \/ StartPumps
      PROVE  ShellCode'
  BY <1>3
  DEF SetRaw, SetRawFlag, StartPumps, dataVars, shellVars, OnTty, termVars
<1>4. ASSUME PumpInput \/ InputEnds \/ PumpOutput \/ ReaderReads \/ MainReads
      PROVE  ShellCode'
  BY <1>4
  DEF PumpInput, InputEnds, PumpOutput, ReaderReads, MainReads, Pumping, termVars, shellVars, dataVars, OnTty, HasMaster, Released
<1>5. ASSUME OutputEnds \/ RestoreTerminal
      PROVE  ShellCode'
  BY <1>5 DEF OutputEnds, RestoreTerminal, termVars, dataVars, shellVars, HasMaster, Released, RestoreStdin, HungUp
<1>6. ASSUME ReadCode
      PROVE  ShellCode'
  BY <1>6 DEF ReadCode, Answered, termVars, dataVars, shellVars, Eof, HandlerHoldsSocket, Released
<1>7. ASSUME HandlerAck \/ HandlerStreams \/ HandlerTerminal \/ HandlerExec
      PROVE  ShellCode'
  BY <1>7
  DEF HandlerAck, HandlerStreams, HandlerTerminal, HandlerExec, clientVars, StreamsOver, ClientGone, HandlerExits,
      HasMaster, Joined
<1>8. ASSUME ShellReads \/ ShellWrites \/ ShellEnds \/ BackgroundEnds
      PROVE  ShellCode'
  BY <1>8
  DEF ShellReads, ShellWrites, ShellEnds, BackgroundEnds, Readable, ToldToEnd, Hangup, termVars, OnTty, HasMaster, clientVars
<1>9. ASSUME SendCode \/ DaemonDies
      PROVE  ShellCode'
  BY <1>9
  DEF SendCode, DaemonDies, Sendable, clientVars, shellVars, ClientGone, Waited
<1>10. ASSUME QuitSignal
      PROVE  ShellCode'
  BY <1>10 DEF QuitSignal, Pumping, dataVars, shellVars, Sighandler, Released, RestoreStdin
<1>11. ASSUME Kill
      PROVE  ShellCode'
  BY <1>11 DEF Kill, termVars, dataVars, shellVars, Released
<1>12. ASSUME UNCHANGED sessVars
      PROVE  ShellCode'
  BY <1>12 DEF sessVars
<1>. QED  BY <1>1, <1>2, <1>3, <1>4, <1>5, <1>6, <1>7, <1>8, <1>9, <1>10, <1>11, <1>12 DEF SessNext, SessStep

\* Each action preserves StartInv.
LEMMA StartStep == SessTypeOK /\ IdleInv /\ StartInv /\ [SessNext]_sessVars => StartInv'
<1>. SUFFICES ASSUME SessTypeOK, IdleInv, StartInv, [SessNext]_sessVars
              PROVE  StartInv'
  OBVIOUS
<1>. USE DEF SessTypeOK, FlagOK, ClientOK, DaemonOK, DataOK, IdleInv, StartInv
<1>1. ASSUME ForkHandler
      PROVE  StartInv'
  BY <1>1 DEF ForkHandler, termVars
<1>2. ASSUME ReadAck \/ OpenPty \/ SendStreams
      PROVE  StartInv'
  BY <1>2
  DEF ReadAck, OpenPty, SendStreams, termVars, dataVars, shellVars, Eof, HandlerHoldsSocket
<1>3. ASSUME SetRaw \/ SetRawFlag \/ StartPumps
      PROVE  StartInv'
  BY <1>3
  DEF SetRaw, SetRawFlag, StartPumps, dataVars, shellVars, OnTty, termVars
<1>4. ASSUME PumpInput \/ InputEnds \/ PumpOutput \/ ReaderReads \/ MainReads
      PROVE  StartInv'
  BY <1>4
  DEF PumpInput, InputEnds, PumpOutput, ReaderReads, MainReads, Pumping, termVars, shellVars, dataVars, OnTty, HasMaster, Released
<1>5. ASSUME OutputEnds \/ RestoreTerminal
      PROVE  StartInv'
  BY <1>5 DEF OutputEnds, RestoreTerminal, termVars, dataVars, shellVars, HasMaster, Released, RestoreStdin, HungUp
<1>6. ASSUME ReadCode
      PROVE  StartInv'
  BY <1>6 DEF ReadCode, Answered, termVars, dataVars, shellVars, Eof, HandlerHoldsSocket, Released
<1>7. ASSUME HandlerAck \/ HandlerStreams \/ HandlerTerminal \/ HandlerExec
      PROVE  StartInv'
  BY <1>7
  DEF HandlerAck, HandlerStreams, HandlerTerminal, HandlerExec, clientVars, StreamsOver, ClientGone, HandlerExits,
      HasMaster, Joined
<1>8. ASSUME ShellReads \/ ShellWrites
      PROVE  StartInv'
  BY <1>8
  DEF ShellReads, ShellWrites, Readable, termVars, OnTty, HasMaster
<1>9. ASSUME ShellEnds
      PROVE  StartInv'
  BY <1>9 DEF ShellEnds, ToldToEnd, Hangup, clientVars, OnTty, HasMaster
<1>10. ASSUME BackgroundEnds
      PROVE  StartInv'
  BY <1>10 DEF BackgroundEnds, clientVars
<1>11. ASSUME SendCode \/ DaemonDies
      PROVE  StartInv'
  BY <1>11
  DEF SendCode, DaemonDies, Sendable, clientVars, shellVars, ClientGone, Waited
<1>12. ASSUME QuitSignal
      PROVE  StartInv'
  BY <1>12 DEF QuitSignal, Pumping, dataVars, shellVars, Sighandler, Released, RestoreStdin
<1>13. ASSUME Kill
      PROVE  StartInv'
  BY <1>13 DEF Kill, termVars, dataVars, shellVars, Released
<1>14. ASSUME UNCHANGED sessVars
      PROVE  StartInv'
  BY <1>14 DEF sessVars
<1>. QED  BY <1>1, <1>2, <1>3, <1>4, <1>5, <1>6, <1>7, <1>8, <1>9, <1>10, <1>11, <1>12, <1>13, <1>14 DEF SessNext, SessStep

\* Each action preserves OutputInv.
LEMMA OutputStep == SessTypeOK /\ TermInv /\ IdleInv /\ StartInv /\ OutputInv /\ [SessNext]_sessVars => OutputInv'
<1>. SUFFICES ASSUME SessTypeOK, TermInv, IdleInv, StartInv, OutputInv, [SessNext]_sessVars
              PROVE  OutputInv'
  OBVIOUS
<1>. USE DEF TermInv, SessTypeOK, FlagOK, ClientOK, DaemonOK, DataOK, IdleInv, StartInv, OutputInv, OnTty
<1>1. ASSUME ForkHandler
      PROVE  OutputInv'
  BY <1>1 DEF ForkHandler, termVars
<1>2. ASSUME ReadAck \/ OpenPty \/ SendStreams
      PROVE  OutputInv'
  <2>1. CASE ReadAck
    BY <2>1 DEF ReadAck, termVars, dataVars, shellVars, Eof, HandlerHoldsSocket
  <2>2. CASE OpenPty
    BY <2>2 DEF OpenPty, termVars, dataVars, shellVars
  <2>3. CASE SendStreams
    BY <2>3 DEF SendStreams, termVars, dataVars, shellVars, HandlerHoldsSocket
  <2>. QED  BY <1>2, <2>1, <2>2, <2>3
<1>3. ASSUME SetRaw \/ SetRawFlag \/ StartPumps
      PROVE  OutputInv'
  BY <1>3
  DEF SetRaw, SetRawFlag, StartPumps, dataVars, shellVars, OnTty, termVars
<1>4. ASSUME PumpInput \/ InputEnds \/ PumpOutput \/ ReaderReads \/ MainReads
      PROVE  OutputInv'
  <2>1. CASE PumpInput
    BY <2>1 DEF PumpInput, shellVars, OnTty
  <2>2. CASE InputEnds
    BY <2>2 DEF InputEnds, Pumping, shellVars, dataVars, OnTty
  <2>3. CASE PumpOutput
    BY <2>3 DEF PumpOutput, termVars, shellVars, HasMaster, Released, OnTty
  <2>4. CASE ReaderReads \/ MainReads
    BY <2>4 DEF ReaderReads, MainReads, termVars, shellVars, dataVars, OnTty
  <2>. QED  BY <1>4, <2>1, <2>2, <2>3, <2>4
<1>5. ASSUME OutputEnds \/ RestoreTerminal
      PROVE  OutputInv'
  BY <1>5 DEF OutputEnds, RestoreTerminal, termVars, dataVars, shellVars, HasMaster, Released, RestoreStdin, HungUp
<1>6. ASSUME ReadCode
      PROVE  OutputInv'
  BY <1>6 DEF ReadCode, Answered, termVars, dataVars, shellVars, Eof, HandlerHoldsSocket, Released
<1>7. ASSUME HandlerAck \/ HandlerStreams \/ HandlerTerminal \/ HandlerExec
      PROVE  OutputInv'
  BY <1>7
  DEF HandlerAck, HandlerStreams, HandlerTerminal, HandlerExec, clientVars, StreamsOver, ClientGone, HandlerExits,
      HasMaster, Joined
<1>8. ASSUME ShellReads \/ ShellWrites
      PROVE  OutputInv'
  BY <1>8
  DEF ShellReads, ShellWrites, Readable, termVars, OnTty, HasMaster
<1>9. ASSUME ShellEnds
      PROVE  OutputInv'
  BY <1>9 DEF ShellEnds, ToldToEnd, Hangup, clientVars, OnTty, HasMaster
<1>10. ASSUME BackgroundEnds
      PROVE  OutputInv'
  BY <1>10 DEF BackgroundEnds, clientVars
<1>11. ASSUME SendCode \/ DaemonDies
      PROVE  OutputInv'
  BY <1>11
  DEF SendCode, DaemonDies, Sendable, clientVars, shellVars, ClientGone, Waited
<1>12. ASSUME QuitSignal
      PROVE  OutputInv'
  BY <1>12 DEF QuitSignal, Pumping, dataVars, shellVars, Sighandler, Released, RestoreStdin
<1>13. ASSUME Kill
      PROVE  OutputInv'
  BY <1>13 DEF Kill, termVars, dataVars, shellVars, Released
<1>14. ASSUME UNCHANGED sessVars
      PROVE  OutputInv'
  BY <1>14 DEF sessVars
<1>. QED  BY <1>1, <1>2, <1>3, <1>4, <1>5, <1>6, <1>7, <1>8, <1>9, <1>10, <1>11, <1>12, <1>13, <1>14 DEF SessNext, SessStep

\* Each action preserves EndInv.
LEMMA EndStep == SessTypeOK /\ IdleInv /\ SocketInv /\ StartInv /\ EndInv /\ [SessNext]_sessVars => EndInv'
<1>. SUFFICES ASSUME SessTypeOK, IdleInv, SocketInv, StartInv, EndInv, [SessNext]_sessVars
              PROVE  EndInv'
  OBVIOUS
<1>. USE DEF SessTypeOK, FlagOK, ClientOK, DaemonOK, DataOK, ClientStates, IdleInv, SocketInv, StartInv, EndInv,
             Pumping
<1>1. ASSUME ForkHandler
      PROVE  EndInv'
  BY <1>1 DEF ForkHandler, termVars
<1>2. ASSUME ReadAck \/ OpenPty \/ SendStreams
      PROVE  EndInv'
  BY <1>2
  DEF ReadAck, OpenPty, SendStreams, termVars, dataVars, shellVars, Eof, HandlerHoldsSocket
<1>3. ASSUME SetRaw \/ SetRawFlag \/ StartPumps
      PROVE  EndInv'
  BY <1>3
  DEF SetRaw, SetRawFlag, StartPumps, dataVars, shellVars, OnTty, termVars
<1>4. ASSUME PumpInput \/ InputEnds \/ PumpOutput \/ ReaderReads \/ MainReads
      PROVE  EndInv'
  BY <1>4
  DEF PumpInput, InputEnds, PumpOutput, ReaderReads, MainReads, Pumping, termVars, shellVars, dataVars, OnTty, HasMaster, Released
<1>5. ASSUME OutputEnds \/ RestoreTerminal
      PROVE  EndInv'
  BY <1>5 DEF OutputEnds, RestoreTerminal, termVars, dataVars, shellVars, HasMaster, Released, RestoreStdin, HungUp
<1>6. ASSUME ReadCode
      PROVE  EndInv'
  BY <1>6 DEF ReadCode, Answered, termVars, dataVars, shellVars, Eof, HandlerHoldsSocket, Released
<1>7. ASSUME HandlerAck \/ HandlerStreams \/ HandlerTerminal \/ HandlerExec
      PROVE  EndInv'
  BY <1>7
  DEF HandlerAck, HandlerStreams, HandlerTerminal, HandlerExec, clientVars, StreamsOver, ClientGone, HandlerExits,
      HasMaster, Joined
<1>8. ASSUME ShellReads \/ ShellWrites
      PROVE  EndInv'
  BY <1>8
  DEF ShellReads, ShellWrites, Readable, termVars, OnTty, HasMaster
<1>9. ASSUME ShellEnds
      PROVE  EndInv'
  BY <1>9 DEF ShellEnds, ToldToEnd, Hangup, clientVars, OnTty, HasMaster
<1>10. ASSUME BackgroundEnds
      PROVE  EndInv'
  BY <1>10 DEF BackgroundEnds, clientVars
<1>11. ASSUME SendCode \/ DaemonDies
      PROVE  EndInv'
  BY <1>11
  DEF SendCode, DaemonDies, Sendable, clientVars, shellVars, ClientGone, Waited
<1>12. ASSUME QuitSignal
      PROVE  EndInv'
  BY <1>12 DEF QuitSignal, Pumping, dataVars, shellVars, Sighandler, Released, RestoreStdin
<1>13. ASSUME Kill
      PROVE  EndInv'
  BY <1>13 DEF Kill, termVars, dataVars, shellVars, Released
<1>14. ASSUME UNCHANGED sessVars
      PROVE  EndInv'
  BY <1>14 DEF sessVars
<1>. QED  BY <1>1, <1>2, <1>3, <1>4, <1>5, <1>6, <1>7, <1>8, <1>9, <1>10, <1>11, <1>12, <1>13, <1>14 DEF SessNext, SessStep

\* The initial state satisfies the invariant.
LEMMA InvInit == SessInit => SessInv
<1>. SUFFICES ASSUME SessInit
              PROVE  SessInv
  OBVIOUS
<1>1. FlagOK
  BY DEF SessInit, FlagOK
<1>2. ClientOK /\ DaemonOK /\ DataOK
  BY DEF SessInit, ClientOK, DaemonOK, DataOK, ClientStates, SignalStates, HandlerStates
<1>3. TermInv /\ IdleInv /\ SocketInv /\ ShellCode /\ StartInv /\ OutputInv /\ EndInv
  BY DEF SessInit, TermInv, IdleInv, SocketInv, ShellCode, StartInv, OutputInv, EndInv, ClientGone, Pumping, HasMaster
<1>. QED  BY <1>1, <1>2, <1>3 DEF SessInv, SessTypeOK

\* Every step preserves the invariant.
LEMMA InvStep == SessInv /\ [SessNext]_sessVars => SessInv'
  BY SessTypeStep, TermStep, IdleStep, SocketStep, CodeStep, StartStep, OutputStep, EndStep DEF SessInv

\* The invariant holds in every reachable state.
LEMMA SessInvariance == SessSpec => []SessInv
  BY InvInit, InvStep, PTL DEF SessSpec

(***************************************************************************)
(* What a session promises                                                 *)
(***************************************************************************)

\* However the client ends, by the shell's end, by a signal during the pumps
\* or during any other step, the terminal is cooked; the exceptions are a
\* signal between the two steps of set_stdin_raw and a key that the other
\* thread reads after the master was closed and before restore_stdin.
THEOREM TerminalGivenBack == SessSpec => []TerminalRestored
<1>1. SessInv => TerminalRestored
  BY DEF SessInv, TermInv, TerminalRestored
<1>. QED  BY <1>1, SessInvariance, PTL

\* The client returns the exit status of its own shell, and what the shell
\* wrote to the terminal has been shown when it does.
THEOREM ResultIsTheShells == SessSpec => []ResultPassedOn
<1>1. SessInv => ResultPassedOn
  <2>. SUFFICES ASSUME SessInv
                PROVE  OutputShown
    BY DEF SessInv, ResultPassedOn
  <2>. QED  BY DEF SessInv, SessTypeOK, FlagOK, ClientOK, DaemonOK, DataOK, OutputInv, OutputShown
<1>. QED  BY <1>1, SessInvariance, PTL

\* After a signal that interrupts the read of the pump or comes later, or
\* once the client is dead, some step of the session is possible until both
\* the client and the shell are gone. A signal before that read or between
\* two reads is not covered: client and shell may then wait for each other.
THEOREM SessionsEnd == SessSpec => []SessionEnds
<1>1. SessInv => SessionEnds
  <2>. SUFFICES ASSUME SessInv, cli # "idle", signalAt \in {"read", "restore", "code"} \/ cli = "killed", ~GoesOn
                PROVE  ClientGone /\ hdl = "gone"
    BY DEF SessionEnds
  <2>1. SessTypeOK /\ IdleInv /\ SocketInv /\ EndInv
    BY DEF SessInv
  <2>2. cli \in {"code", "ended", "killed"} /\ ~HasMaster /\ StreamsOver
    BY <2>1 DEF EndInv, HasMaster, StreamsOver, ClientGone, Pumping, GoesOn
  <2>3. hdl \in {"shell", "gone"}
    BY <2>1, <2>2 DEF SessTypeOK, DaemonOK, HandlerStates, IdleInv, GoesOn
  <2>4. hdl # "shell"
    BY <2>1, <2>2 DEF SessTypeOK, DataOK, GoesOn, Readable, ToldToEnd, Hangup, OnTty
  <2>5. cli # "code"
    <3>. SUFFICES ASSUME cli = "code"
                  PROVE  FALSE
      OBVIOUS
    <3>1. srv \in {"wait", "done", "dead"}
      BY <2>1 DEF SessTypeOK, DaemonOK, IdleInv
    <3>2. toClient # "ack" /\ (srv = "done" => toClient = "code") /\ (toClient = "code" \/ toClient = "none")
      BY <2>1 DEF SessTypeOK, DaemonOK, EndInv, Pumping, SocketInv, ClientGone
    <3>. QED  BY <2>3, <2>4, <3>1, <3>2 DEF GoesOn, Sendable, Waited, Answered, Eof, HandlerHoldsSocket
  <2>. QED  BY <2>2, <2>3, <2>4, <2>5 DEF ClientGone
<1>. QED  BY <1>1, SessInvariance, PTL


(***************************************************************************)
(* The database: the inductive invariant                                   *)
(***************************************************************************)

\* The schema of every database there is: what its version promises, and that
\* a table hidelist made by an upgrade that was not finished is a final one.
SchemaOf(f) ==
    /\ f.ver >= 3 => {"policies", "settings"} \subseteq f.tables
    /\ f.ver >= 4 => "strings" \in f.tables
    /\ f.ver >= 7 => "hidelist" \in f.tables
    /\ f.ver < 7 /\ "hidelist" \in f.tables => f.final
    /\ f.ver >= 9 => f.final
    /\ f.ver >= 10 => f.tables = Tables
SchemaInv == \A i \in 1 .. Len(files) : SchemaOf(files[i])

\* What is done of the upgrade of f when statement s is next.
Reached(s, f) ==
    /\ f.ver < 10
    /\ s = "policies" => f.ver < 3
    /\ s = "settings" => f.ver < 3 /\ "policies" \in f.tables
    /\ s = "strings" => f.ver < 4 /\ {"policies", "settings"} \subseteq f.tables
    /\ s = "uids" => f.ver < 5 /\ {"policies", "settings", "strings"} \subseteq f.tables
    /\ s = "hidelist" => f.ver < 7 /\ {"policies", "settings", "strings"} \subseteq f.tables
    /\ s = "process" => f.ver = 7
    /\ s = "key" => f.ver = 8
    /\ s = "logs" => f.final /\ Tables \subseteq f.tables
    /\ s = "user_version" => f.final /\ Tables = f.tables

\* An upgrade works on the database at MAGISKDB, and only the second attempt
\* of a call works on another one than the first.
ConnInv ==
    /\ dbPc \in Migrations \cup {"version"} => conn = "open" /\ mDB = linked
    /\ dbPc \in Migrations => Reached(dbPc, files[mDB])
    /\ retry /\ dbPc = "open" => linked = 0
    /\ retry /\ dbPc \in Migrations \cup {"version"} => linked # 1
    /\ dbPc = "open" /\ ~retry => conn = "null"
    /\ dbPc \in {"idle", "run"} /\ conn = "open" => mDB = linked

\* A connection that is left open is to an upgraded database, or the second
\* attempt failed, and then it is not the first database.
OpenInv ==
    /\ broken => dbPc \in {"idle", "run"} /\ conn # "null"
    /\ broken /\ conn = "open" => mDB # 1
    /\ (conn = "open" /\ ~broken /\ dbPc \in {"idle", "run"}) => files[mDB].ver = DB_VERSION

\* The first database: its data before it is upgraded, by the statements that
\* have been run on it, and after.
FirstInv ==
    LET f == files[1] IN
    /\ f.ver \in {orig.ver, DB_VERSION} /\ f.twice = orig.twice
    /\ f.ver = DB_VERSION => f.uids = MigratedUids \cup stored /\ f.rows = MigratedRows
    /\ f.ver # DB_VERSION =>
            /\ stored = {}
            /\ f.uids \in {orig.uids, MigratedUids} /\ f.rows \in {orig.rows, MigratedRows}
    /\ mDB = 1 /\ dbPc \in {"hidelist", "process", "key", "logs", "user_version"} =>
            f.uids = MigratedUids
    /\ mDB = 1 /\ dbPc \in {"logs", "user_version"} => f.rows = MigratedRows

DbInv == DbTypeOK /\ Len(files) > 0 /\ SchemaInv /\ ConnInv /\ OpenInv /\ FirstInv /\ RemovedForCause

(***************************************************************************)
(* The database: the statements of the upgrade                             *)
(***************************************************************************)

\* The statements, by name.
LEMMA MigrationSet ==
    Migrations = {"policies", "settings", "strings", "uids", "hidelist", "process", "key", "logs",
                  "user_version"}
BY DEF Migrations, After

\* Versions are numbers.
LEMMA FileFields ==
    ASSUME NEW f \in Files
    PROVE  /\ f.ver \in 0 .. 11 /\ f.ver \in Int
           /\ f.tables \subseteq Tables \cup {"logs"} /\ f.final \in BOOLEAN /\ f.twice \in BOOLEAN
           /\ f.uids \subseteq Users \X AppIds
BY DEF Files, DB_VERSION

\* A statement leaves a database a database.
LEMMA StatementType ==
    ASSUME NEW s \in Migrations, NEW f \in Files
    PROVE  Statement(s, f) \in Files
<1>1. CASE s \in Tables
  BY <1>1 DEF Statement, CreateTable, Files, Tables
<1>2. CASE s = "uids"
  <2>1. Statement(s, f) = [f EXCEPT !.uids = {<<Owner, x[2]>> : x \in f.uids}]
    BY <1>2 DEF Statement, Tables
  <2>2. {<<Owner, x[2]>> : x \in f.uids} \subseteq Users \X AppIds
    BY OwnerAssumption DEF Files
  <2>. QED  BY <2>1, <2>2 DEF Files
<1>3. CASE s = "process"
  <2>. DEFINE R == {<<x[2], x[2]>> : x \in f.rows}
  <2>1. Statement(s, f) = [f EXCEPT !.rows = R, !.final = TRUE]
    BY <1>3 DEF Statement, Tables
  <2>2. R \subseteq ({NoPkg} \cup {x[1] : x \in Targets} \cup {x[2] : x \in Targets})
                    \X {x[2] : x \in Targets}
    BY DEF Files
  <2>. HIDE DEF R
  <2>. QED  BY <2>1, <2>2 DEF Files
<1>4. CASE s = "key"
  BY <1>4 DEF Statement, Tables, Files
<1>5. CASE s = "logs"
  BY <1>5 DEF Statement, Tables, Files
<1>6. CASE s = "user_version"
  BY <1>6 DEF Statement, Tables, Files, DB_VERSION
<1>. QED  BY <1>1, <1>2, <1>3, <1>4, <1>5, <1>6, MigrationSet DEF Tables

\* The policies moved to the owner, and the rows with the process as package.
ToOwner(S) == {<<Owner, x[2]>> : x \in S}
NamedByProcess(S) == {<<x[2], x[2]>> : x \in S}

\* What a statement does to a database, field by field.
LEMMA StatementFields ==
    ASSUME NEW s \in Migrations, NEW f \in Files
    PROVE  /\ Statement(s, f).ver = IF s = "user_version" THEN 10 ELSE f.ver
           /\ Statement(s, f).tables = IF s \in Tables THEN f.tables \cup {s}
                                       ELSE IF s = "logs" THEN f.tables \ {"logs"} ELSE f.tables
           /\ Statement(s, f).final <=> (f.final \/ s \in {"process", "key"}
                                         \/ (s = "hidelist" /\ "hidelist" \notin f.tables))
           /\ Statement(s, f).twice = f.twice
           /\ Statement(s, f).uids = IF s = "uids" THEN ToOwner(f.uids) ELSE f.uids
           /\ Statement(s, f).rows = IF s = "process" THEN NamedByProcess(f.rows) ELSE f.rows
<1>1. CASE s \in Tables
  BY <1>1 DEF Statement, CreateTable, Files, Tables
<1>2. CASE s \notin Tables
  BY <1>2, MigrationSet DEF Statement, Files, Tables, DB_VERSION, ToOwner, NamedByProcess
<1>. QED  BY <1>1, <1>2

\* From what is done before a statement follows what is done after it: the
\* upgrade meets each next statement as it should, and ends with the final
\* schema.
LEMMA StatementReaches ==
    ASSUME NEW s \in Migrations, NEW f \in Files, SchemaOf(f), Reached(s, f)
    PROVE  /\ SchemaOf(Statement(s, f))
           /\ s # "user_version" => After[s] \in Migrations /\ Reached(After[s], Statement(s, f))
           /\ s = "user_version" => After[s] = "run" /\ Statement(s, f).ver = DB_VERSION
<1>1. Statement(s, f) \in Files
  BY StatementType
<1>2. /\ f.ver \in 0 .. 11 /\ f.final \in BOOLEAN
      /\ Statement(s, f).ver \in 0 .. 11 /\ Statement(s, f).final \in BOOLEAN
  BY <1>1 DEF Files, DB_VERSION
<1>3. /\ Statement(s, f).ver = IF s = "user_version" THEN 10 ELSE f.ver
      /\ Statement(s, f).tables = IF s \in Tables THEN f.tables \cup {s}
                                  ELSE IF s = "logs" THEN f.tables \ {"logs"} ELSE f.tables
      /\ Statement(s, f).final <=> (f.final \/ s \in {"process", "key"}
                                    \/ (s = "hidelist" /\ "hidelist" \notin f.tables))
  BY StatementFields
<1>4. f.tables \subseteq Tables \cup {"logs"}
  BY DEF Files
<1>. USE DEF SchemaOf, Reached, After, Tables, DB_VERSION
<1>5. CASE s = "policies"
  BY <1>5, <1>2, <1>3, MigrationSet
<1>6. CASE s = "settings"
  BY <1>6, <1>2, <1>3, MigrationSet
<1>7. CASE s = "strings"
  BY <1>7, <1>2, <1>3, MigrationSet
<1>8. CASE s = "uids"
  BY <1>8, <1>2, <1>3, MigrationSet
<1>9. CASE s = "hidelist"
  BY <1>9, <1>2, <1>3, MigrationSet
<1>10. CASE s = "process"
  BY <1>10, <1>2, <1>3, MigrationSet
<1>11. CASE s = "key"
  BY <1>11, <1>2, <1>3, MigrationSet
<1>12. CASE s = "logs"
  BY <1>12, <1>2, <1>3, <1>4, MigrationSet
<1>13. CASE s = "user_version"
  BY <1>13, <1>2, <1>3, MigrationSet
<1>. QED  BY <1>5, <1>6, <1>7, <1>8, <1>9, <1>10, <1>11, <1>12, <1>13, MigrationSet

\* The first statement of an upgrade has nothing to wait for.
LEMMA FirstReached ==
    ASSUME NEW f \in Files, SchemaOf(f), f.ver <= DB_VERSION
    PROVE  \/ f.ver = DB_VERSION /\ FirstStep(f.ver) = "run"
           \/ f.ver < DB_VERSION /\ FirstStep(f.ver) \in Migrations /\ Reached(FirstStep(f.ver), f)
<1>1. f.ver \in 0 .. 10
  BY DEF Files, DB_VERSION
<1>. QED  BY <1>1, MigrationSet DEF SchemaOf, FirstStep, Reached, DB_VERSION, Tables

\* Moving the policies to the owner, or naming the package after the process,
\* once more changes nothing.
LEMMA Idempotent ==
    ASSUME NEW S
    PROVE  ToOwner(ToOwner(S)) = ToOwner(S) /\ NamedByProcess(NamedByProcess(S)) = NamedByProcess(S)
BY DEF ToOwner, NamedByProcess

(***************************************************************************)
(* The database: the steps of db_exec                                      *)
(***************************************************************************)

\* The reference is about the first database as it was.
LEMMA ReferenceKept ==
    ASSUME orig' = orig
    PROVE  MigratedUids' = MigratedUids /\ MigratedRows' = MigratedRows
BY DEF MigratedUids, MigratedRows

\* From version 5 on the policies are kept, and the hide list unless its
\* version is 7; the statements that change them lead to the reference.
LEMMA Reference ==
    /\ orig.ver >= 5 /\ orig.ver \in Int => MigratedUids = orig.uids
    /\ orig.ver # 7 => MigratedRows = orig.rows
    /\ orig.ver < 5 => MigratedUids = ToOwner(orig.uids) /\ MigratedUids = ToOwner(MigratedUids)
    /\ orig.ver = 7 => /\ MigratedRows = NamedByProcess(orig.rows)
                       /\ MigratedRows = NamedByProcess(MigratedRows)
<1>1. orig.ver >= 5 /\ orig.ver \in Int => MigratedUids = orig.uids
  BY DEF MigratedUids
<1>2. orig.ver # 7 => MigratedRows = orig.rows
  BY DEF MigratedRows
<1>3. orig.ver < 5 => MigratedUids = ToOwner(orig.uids)
  BY DEF MigratedUids, ToOwner
<1>4. orig.ver = 7 => MigratedRows = NamedByProcess(orig.rows)
  BY DEF MigratedRows, NamedByProcess
<1>. QED  BY <1>1, <1>2, <1>3, <1>4, Idempotent

\* At first.
LEMMA DbInitInv == DbInit => DbInv
<1>. SUFFICES ASSUME DbInit PROVE DbInv
  OBVIOUS
<1>1. PICK v \in 0 .. DB_VERSION + 1, u \in SUBSET (Users \X AppIds), r \in SUBSET Targets,
           d \in BOOLEAN : orig = OldFile(v, u, r, d)
  BY DEF DbInit
<1>2. v \in 0 .. 11
  BY DEF DB_VERSION
<1>3. orig.ver = v /\ SchemaOf(orig)
  <2>1. orig.ver = v /\ (orig.final <=> v >= 9)
    BY <1>1 DEF OldFile
  <2>2. /\ v < 7 => "hidelist" \notin orig.tables
        /\ v >= 7 => "hidelist" \in orig.tables
        /\ v >= 4 => "strings" \in orig.tables
        /\ v >= 3 => "policies" \in orig.tables /\ "settings" \in orig.tables
        /\ v >= 10 => orig.tables = Tables
    BY <1>1, <1>2 DEF OldFile, Tables
  <2>. QED  BY <2>1, <2>2, <1>2 DEF SchemaOf
<1>4. orig \in Files
  <2>1. orig.rows \subseteq ({NoPkg} \cup {x[1] : x \in Targets} \cup {x[2] : x \in Targets})
                            \X {x[2] : x \in Targets}
    <3>1. r \subseteq {x[1] : x \in Targets} \X {x[2] : x \in Targets}
      BY TargetAssumption
    <3>2. {<<NoPkg, x[2]>> : x \in r} \subseteq {NoPkg} \X {x[2] : x \in Targets}
      OBVIOUS
    <3>3. orig.rows \in {{}, r, {<<NoPkg, x[2]>> : x \in r}}
      BY <1>1 DEF OldFile
    <3>. QED  BY <3>1, <3>2, <3>3
  <2>2. orig.tables \subseteq Tables \cup {"logs"}
    BY <1>1 DEF OldFile, Tables
  <2>3. orig.uids \subseteq Users \X AppIds
    BY <1>1 DEF OldFile
  <2>4. orig.ver \in 0 .. DB_VERSION + 1 /\ orig.final \in BOOLEAN /\ orig.twice \in BOOLEAN
    BY <1>1, <1>2 DEF OldFile, DB_VERSION
  <2>5. orig = [ver |-> orig.ver, tables |-> orig.tables, uids |-> orig.uids,
                final |-> orig.final, rows |-> orig.rows, twice |-> orig.twice]
    BY <1>1 DEF OldFile
  <2>. QED  BY <2>1, <2>2, <2>3, <2>4, <2>5 DEF Files
<1>5. files = <<orig>> /\ Len(files) = 1 /\ files[1] = orig /\ files \in Seq(Files)
  BY <1>4 DEF DbInit
<1>6. DbTypeOK
  <2>1. lost \in {"no", "failure", "conflict"}
    BY <1>5 DEF DbInit
  <2>2. linked \in 0 .. Len(files) /\ mDB \in 0 .. Len(files) /\ dbCrashes \in 0 .. MaxDbCrashes
    BY <1>5, BoundAssumption DEF DbInit
  <2>. QED  BY <1>4, <1>5, <2>1, <2>2 DEF DbInit, DbTypeOK
<1>7. SchemaInv
  BY <1>3, <1>5 DEF SchemaInv
<1>8. ConnInv /\ OpenInv /\ RemovedForCause
  BY MigrationSet DEF DbInit, ConnInv, OpenInv, RemovedForCause
<1>9. FirstInv
  BY <1>5, <1>3, <1>2, Reference DEF DbInit, FirstInv, DB_VERSION
<1>. QED  BY <1>5, <1>6, <1>7, <1>8, <1>9 DEF DbInv

\* Exec, and the caller's statement if it stores no policy.
LEMMA ExecStep == DbInv /\ (Exec \/ RunOther) => DbInv'
<1>. SUFFICES ASSUME DbInv, Exec \/ RunOther PROVE DbInv'
  OBVIOUS
<1>. USE DEF DbInv, Exec, RunOther
<1>1. DbTypeOK' /\ (Len(files) > 0)' /\ SchemaInv' /\ RemovedForCause'
  BY DEF DbTypeOK, SchemaInv, RemovedForCause, SchemaOf
<1>2. ConnInv' /\ OpenInv'
  BY MigrationSet DEF DbTypeOK, ConnInv, OpenInv
<1>3. FirstInv'
  BY ReferenceKept DEF FirstInv
<1>. QED  BY <1>1, <1>2, <1>3

\* sqlite3_open_v2 succeeds.
LEMMA OpenStep == DbInv /\ Open => DbInv'
<1>. SUFFICES ASSUME DbInv, Open PROVE DbInv'
  OBVIOUS
<1>. USE DEF DbInv
<1>1. CASE linked # 0
  <2>1. UNCHANGED <<files, linked>> /\ mDB' = linked
    BY <1>1 DEF Open
  <2>2. DbTypeOK' /\ (Len(files) > 0)' /\ SchemaInv' /\ RemovedForCause'
    BY <1>1, <2>1 DEF Open, DbTypeOK, SchemaInv, RemovedForCause, SchemaOf
  <2>3. ConnInv' /\ OpenInv'
    BY <1>1, <2>1, MigrationSet DEF Open, DbTypeOK, ConnInv, OpenInv
  <2>4. FirstInv'
    BY <2>1, ReferenceKept DEF Open, FirstInv
  <2>. QED  BY <2>2, <2>3, <2>4
<1>2. CASE linked = 0
  <2>1. /\ files' = Append(files, Fresh) /\ linked' = Len(files) + 1 /\ mDB' = linked'
    BY <1>2 DEF Open
  <2>2. Fresh \in Files /\ SchemaOf(Fresh)
    BY DEF Fresh, Files, SchemaOf, DB_VERSION
  <2>3. /\ files' \in Seq(Files) /\ Len(files') = Len(files) + 1
        /\ \A i \in 1 .. Len(files) : files'[i] = files[i]
        /\ files'[Len(files) + 1] = Fresh
    BY <2>1, <2>2 DEF DbTypeOK
  <2>4. Len(files) \in Nat
    BY DEF DbTypeOK
  <2>5. DbTypeOK' /\ (Len(files) > 0)' /\ RemovedForCause'
    BY <2>1, <2>3, <2>4 DEF Open, DbTypeOK, RemovedForCause
  <2>6. SchemaInv'
    BY <2>2, <2>3, <2>4 DEF SchemaInv
  <2>7. ConnInv' /\ OpenInv'
    BY <2>1, <2>4, MigrationSet DEF Open, DbTypeOK, ConnInv, OpenInv
  <2>8. FirstInv'
    BY <2>3, <2>4, <2>1, ReferenceKept DEF Open, FirstInv
  <2>. QED  BY <2>3, <2>4, <2>5, <2>6, <2>7, <2>8
<1>. QED  BY <1>1, <1>2

\* PRAGMA user_version decides where the upgrade begins.
LEMMA ReadVersionStep == DbInv /\ ReadVersion => DbInv'
<1>. SUFFICES ASSUME DbInv, ReadVersion PROVE DbInv'
  OBVIOUS
<1>. USE DEF DbInv
<1>1. mDB \in 1 .. Len(files) /\ conn = "open" /\ mDB = linked /\ files[mDB] \in Files
      /\ SchemaOf(files[mDB])
  BY DEF ReadVersion, ConnInv, DbTypeOK, SchemaInv
<1>2. files[mDB].ver \in 0 .. 11
  BY <1>1 DEF Files, DB_VERSION
<1>3. \/ files[mDB].ver > 10 /\ dbPc' = "run" /\ conn' = "closed"
      \/ files[mDB].ver = 10 /\ dbPc' = "run" /\ conn' = conn
      \/ /\ files[mDB].ver < 10 /\ conn' = conn /\ dbPc' = FirstStep(files[mDB].ver)
         /\ dbPc' \in Migrations /\ Reached(dbPc', files[mDB])
  BY <1>1, <1>2, FirstReached DEF ReadVersion, DB_VERSION
<1>4. (Len(files) > 0)' /\ SchemaInv' /\ RemovedForCause' /\ DbTypeOK'
  BY <1>1, <1>3, MigrationSet DEF ReadVersion, DbTypeOK, SchemaInv, RemovedForCause, SchemaOf
<1>5. ConnInv' /\ OpenInv'
  BY <1>1, <1>3, MigrationSet DEF ReadVersion, ConnInv, OpenInv, DB_VERSION
<1>6. FirstInv'
  <2>1. mDB = 1 /\ dbPc' \in {"hidelist", "process", "key", "logs", "user_version"} =>
            files[1].ver = orig.ver /\ orig.ver >= 5 /\ files[1].ver # 10
            /\ (orig.ver = 7 => dbPc' = "process")
    BY <1>2, <1>3 DEF FirstInv, FirstStep, DB_VERSION
  <2>. QED  BY <2>1, <1>2, Reference, ReferenceKept DEF ReadVersion, FirstInv, DB_VERSION
<1>. QED  BY <1>4, <1>5, <1>6

\* A statement of the upgrade.
LEMMA UpgradeStep == DbInv /\ Upgrade => DbInv'
<1>. SUFFICES ASSUME DbInv, Upgrade PROVE DbInv'
  OBVIOUS
<1>. USE DEF DbInv
<1>1. /\ mDB \in 1 .. Len(files) /\ conn = "open" /\ mDB = linked /\ files[mDB] \in Files
      /\ SchemaOf(files[mDB]) /\ dbPc \in Migrations /\ Reached(dbPc, files[mDB])
  BY DEF Upgrade, ConnInv, DbTypeOK, SchemaInv
<1>. DEFINE g == Statement(dbPc, files[mDB])
<1>2. g \in Files /\ SchemaOf(g)
  BY <1>1, StatementType, StatementReaches
<1>3. /\ dbPc # "user_version" => dbPc' \in Migrations /\ Reached(dbPc', g)
      /\ dbPc = "user_version" => dbPc' = "run" /\ g.ver = DB_VERSION
  BY <1>1, StatementReaches DEF Upgrade
<1>4. files' = [files EXCEPT ![mDB] = g]
  BY DEF Upgrade
<1>f. /\ g.ver = IF dbPc = "user_version" THEN 10 ELSE files[mDB].ver
      /\ g.twice = files[mDB].twice
      /\ g.uids = IF dbPc = "uids" THEN ToOwner(files[mDB].uids)
                  ELSE files[mDB].uids
      /\ g.rows = IF dbPc = "process" THEN NamedByProcess(files[mDB].rows)
                  ELSE files[mDB].rows
  <2>1. dbPc \in Migrations /\ files[mDB] \in Files
    BY <1>1
  <2>. HIDE DEF DbInv
  <2>. QED  BY ONLY <2>1, StatementFields, ZenonT(60)
<1>. HIDE DEF g
<1>5. /\ files' \in Seq(Files) /\ Len(files') = Len(files) /\ files'[mDB] = g
      /\ \A i \in 1 .. Len(files) : i # mDB => files'[i] = files[i]
  BY <1>1, <1>2, <1>4 DEF DbTypeOK
<1>6. DbTypeOK' /\ (Len(files) > 0)' /\ RemovedForCause'
  BY <1>1, <1>3, <1>5 DEF Upgrade, DbTypeOK, RemovedForCause
<1>7. SchemaInv'
  BY <1>2, <1>5 DEF SchemaInv
<1>8. ConnInv' /\ OpenInv'
  BY <1>1, <1>3, <1>5, MigrationSet DEF Upgrade, ConnInv, OpenInv
<1>9. FirstInv'
  <2>1. CASE mDB # 1
    BY <2>1, <1>5, ReferenceKept DEF Upgrade, FirstInv, DbTypeOK
  <2>2. CASE mDB = 1
    <3>0. /\ files[1].ver < 10 /\ files[1].ver \in 0 .. 11
          /\ orig.ver = files[1].ver /\ orig.ver \in Int /\ orig.ver # 10
      BY <1>1, <2>2 DEF Reached, FirstInv, DB_VERSION, Files
    <3>1. files'[1] = g
      BY <1>5, <2>2
    <3>2. /\ stored = {} /\ files[1].twice = orig.twice
          /\ files[1].uids \in {orig.uids, MigratedUids} /\ files[1].rows \in {orig.rows, MigratedRows}
      BY <3>0 DEF FirstInv, DB_VERSION
    <3>3. g.uids \in {orig.uids, MigratedUids} /\ (dbPc = "uids" => g.uids = MigratedUids)
      BY <1>f, <1>1, <2>2, <3>0, <3>2, Reference DEF Reached
    <3>4. g.rows \in {orig.rows, MigratedRows} /\ (dbPc = "process" => g.rows = MigratedRows)
      BY <1>f, <1>1, <2>2, <3>0, <3>2, Reference DEF Reached
    <3>5. dbPc' \in {"hidelist", "process", "key", "logs", "user_version", "run"} =>
            g.uids = MigratedUids
      BY <3>3, <1>f, <2>2, MigrationSet, <1>1 DEF Upgrade, After, FirstInv
    <3>6. dbPc' \in {"logs", "user_version", "run"} => g.rows = MigratedRows
      BY <3>4, <3>0, <1>f, <1>1, <2>2, MigrationSet, Reference DEF Upgrade, After, FirstInv, Reached
    <3>7. g.ver = 10 => dbPc' = "run"
      BY <1>f, <1>3, <3>0, <2>2
    <3>. QED  BY <1>f, <2>2, <3>0, <3>1, <3>2, <3>3, <3>4, <3>5, <3>6, <3>7, ReferenceKept
              DEF Upgrade, FirstInv, DB_VERSION
  <2>. QED  BY <2>1, <2>2
<1>. QED  BY <1>6, <1>7, <1>8, <1>9

\* A database is given up, or both attempts failed.
LEMMA FailStep == DbInv /\ (OpenDbFails \/ StatementFails) => DbInv'
<1>. SUFFICES ASSUME DbInv, OpenDbFails \/ StatementFails PROVE DbInv'
  OBVIOUS
<1>. USE DEF DbInv, OpenDbFails, StatementFails, RemoveFile
<1>0. lost' \in {"no", "failure", "conflict"}
  BY DEF DbTypeOK
<1>a. linked' \in 0 .. Len(files) /\ mDB' \in 0 .. Len(files)
  BY DEF DbTypeOK
<1>1. DbTypeOK' /\ (Len(files) > 0)' /\ SchemaInv'
  BY <1>0, <1>a DEF DbTypeOK, SchemaInv, SchemaOf
<1>2. ConnInv' /\ OpenInv'
  BY MigrationSet DEF DbTypeOK, ConnInv, OpenInv
<1>3. RemovedForCause'
  BY DEF RemovedForCause
<1>4. FirstInv'
  BY ReferenceKept DEF FirstInv
<1>. QED  BY <1>1, <1>2, <1>3, <1>4

\* A conflict: the first database had it to begin with.
LEMMA ConflictStep == DbInv /\ Conflict => DbInv'
<1>. SUFFICES ASSUME DbInv, Conflict PROVE DbInv'
  OBVIOUS
<1>. USE DEF DbInv, Conflict, RemoveFile
<1>0. lost' \in {"no", "failure", "conflict"}
  BY DEF DbTypeOK
<1>a. linked' \in 0 .. Len(files) /\ mDB' \in 0 .. Len(files)
  BY DEF DbTypeOK
<1>1. DbTypeOK' /\ (Len(files) > 0)' /\ SchemaInv'
  BY <1>0, <1>a DEF DbTypeOK, SchemaInv, SchemaOf
<1>2. ConnInv' /\ OpenInv'
  BY MigrationSet DEF DbTypeOK, ConnInv, OpenInv
<1>3. RemovedForCause'
  <2>1. CASE retry \/ linked # 1
    BY <2>1 DEF RemovedForCause
  <2>2. CASE ~retry /\ linked = 1
    <3>1. mDB = 1 /\ Reached(dbPc, files[1]) /\ Conflicts(dbPc, files[1])
      BY <2>2 DEF ConnInv
    <3>2. /\ files[1] \in Files /\ files[1].ver # 10 /\ files[1].ver = orig.ver
          /\ files[1].twice = orig.twice
          /\ files[1].uids \in {orig.uids, MigratedUids}
      <4>0. files[1] \in Files
        BY <3>1 DEF DbTypeOK
      <4>1. files[1] \in Files /\ files[1].ver \in Int /\ files[1].ver < 10
        BY <3>1, <4>0, FileFields DEF Reached
      <4>. QED  BY <4>1 DEF FirstInv, DB_VERSION
    <3>3. Conflicts(dbPc, orig)
      <4>1. CASE dbPc = "uids"
        <5>1. orig.ver < 5
          BY <3>1, <3>2, <4>1 DEF Reached
        <5>2. files[1].uids = orig.uids
          <6>1. PICK x, y \in files[1].uids : x # y /\ x[2] = y[2]
            BY <3>1, <4>1 DEF Conflicts
          <6>2. MigratedUids = ToOwner(orig.uids)
            BY <5>1, Reference
          <6>3. ~(files[1].uids = ToOwner(orig.uids))
            BY <6>1 DEF ToOwner
          <6>. QED  BY <3>2, <6>2, <6>3
        <5>. QED  BY <3>1, <4>1, <5>2 DEF Conflicts
      <4>2. CASE dbPc # "uids"
        BY <3>1, <3>2, <4>2 DEF Conflicts
      <4>. QED  BY <4>1, <4>2
    <3>. QED  BY <3>3 DEF RemovedForCause, Conflicts
  <2>. QED  BY <2>1, <2>2
<1>4. FirstInv'
  BY ReferenceKept DEF FirstInv
<1>. QED  BY <1>1, <1>2, <1>3, <1>4

\* A policy is stored.
LEMMA RunStoreStep == DbInv /\ RunStore => DbInv'
<1>. SUFFICES ASSUME DbInv, RunStore PROVE DbInv'
  OBVIOUS
<1>. USE DEF DbInv
<1>1. PICK x \in Users \X AppIds :
          /\ files' = [files EXCEPT ![mDB].uids = @ \cup {x}]
          /\ stored' = IF mDB = 1 THEN stored \cup {x} ELSE stored
  BY DEF RunStore
<1>. DEFINE g == [files[mDB] EXCEPT !.uids = @ \cup {x}]
<1>2. mDB \in 1 .. Len(files) /\ files[mDB] \in Files /\ SchemaOf(files[mDB])
  BY DEF RunStore, DbTypeOK, SchemaInv
<1>3. /\ g \in Files /\ g.ver = files[mDB].ver /\ g.tables = files[mDB].tables
      /\ g.final = files[mDB].final /\ g.rows = files[mDB].rows /\ g.twice = files[mDB].twice
      /\ g.uids = files[mDB].uids \cup {x}
  BY <1>2 DEF Files
<1>4. files' = [files EXCEPT ![mDB] = g]
  BY <1>1
<1>. HIDE DEF g
<1>5. /\ files' \in Seq(Files) /\ Len(files') = Len(files) /\ files'[mDB] = g
      /\ \A i \in 1 .. Len(files) : i # mDB => files'[i] = files[i]
  BY <1>2, <1>3, <1>4 DEF DbTypeOK
<1>6. DbTypeOK' /\ (Len(files) > 0)' /\ RemovedForCause'
  BY <1>1, <1>2, <1>5 DEF RunStore, DbTypeOK, RemovedForCause
<1>7. SchemaInv'
  <2>1. SchemaOf(g)
    BY <1>2, <1>3 DEF SchemaOf
  <2>. QED  BY <2>1, <1>5 DEF SchemaInv
<1>8. ConnInv' /\ OpenInv'
  BY <1>2, <1>3, <1>5, MigrationSet DEF RunStore, ConnInv, OpenInv
<1>9. FirstInv'
  <2>1. CASE mDB # 1
    BY <2>1, <1>1, <1>5, ReferenceKept DEF RunStore, FirstInv, DbTypeOK
  <2>2. CASE mDB = 1
    <3>1. files[1].ver = DB_VERSION
      BY <2>2 DEF RunStore, OpenInv
    <3>2. files'[1] = g
      BY <1>5, <2>2
    <3>. QED  BY <1>1, <1>3, <2>2, <3>1, <3>2, ReferenceKept DEF RunStore, FirstInv
  <2>. QED  BY <2>1, <2>2
<1>. QED  BY <1>6, <1>7, <1>8, <1>9

\* The daemon dies.
LEMMA CrashStep == DbInv /\ DbCrash => DbInv'
<1>. SUFFICES ASSUME DbInv, DbCrash PROVE DbInv'
  OBVIOUS
<1>. USE DEF DbInv, DbCrash
<1>0. dbCrashes' \in 0 .. MaxDbCrashes
  BY BoundAssumption DEF DbTypeOK
<1>a. 0 \in 0 .. Len(files)
  BY DEF DbTypeOK
<1>1. DbTypeOK' /\ (Len(files) > 0)' /\ SchemaInv' /\ RemovedForCause'
  BY <1>0, <1>a DEF DbTypeOK, SchemaInv, RemovedForCause, SchemaOf
<1>2. ConnInv' /\ OpenInv'
  BY MigrationSet DEF ConnInv, OpenInv
<1>3. FirstInv'
  BY ReferenceKept DEF FirstInv
<1>. QED  BY <1>1, <1>2, <1>3

(***************************************************************************)
(* The database: the theorems                                              *)
(***************************************************************************)

\* The invariant holds at first and is inductive.
LEMMA DbInvariance == DbSpec => []DbInv
<1>1. DbInv /\ UNCHANGED dbVars => DbInv'
  <2>. SUFFICES ASSUME DbInv, UNCHANGED dbVars PROVE DbInv'
    OBVIOUS
  <2>1. FirstInv'
    BY ReferenceKept DEF DbInv, FirstInv, dbVars
  <2>. QED  BY <2>1 DEF DbInv, DbTypeOK, SchemaInv, SchemaOf, ConnInv, Reached, OpenInv, RemovedForCause,
                        dbVars
<1>2. DbInv /\ [DbNext]_dbVars => DbInv'
  BY <1>1, ExecStep, OpenStep, ReadVersionStep, UpgradeStep, FailStep, ConflictStep, RunStoreStep,
     CrashStep DEF DbNext
<1>. QED  BY <1>2, DbInitInv, PTL DEF DbSpec

\* The variables keep their types; a connection is to a database that exists.
THEOREM DbTypeCorrect == DbSpec => []DbTypeOK
<1>1. DbInv => DbTypeOK
  BY DEF DbInv
<1>. QED  BY <1>1, DbInvariance, PTL

\* Whatever version it finds and however often it died before, db_exec runs
\* the daemon's statements on the final schema.
THEOREM FinalSchema == DbSpec => []RunsOnFinalSchema
<1>1. DbInv => RunsOnFinalSchema
  <2>. SUFFICES ASSUME DbInv, dbPc = "run", conn = "open", ~broken
                PROVE  /\ files[mDB].ver = DB_VERSION /\ files[mDB].tables = Tables
                       /\ files[mDB].final
    BY DEF RunsOnFinalSchema
  <2>1. files[mDB].ver = 10 /\ mDB \in 1 .. Len(files)
    BY DEF DbInv, OpenInv, DbTypeOK, DB_VERSION
  <2>2. SchemaOf(files[mDB])
    BY <2>1 DEF DbInv, SchemaInv
  <2>. QED  BY <2>1, <2>2 DEF SchemaOf, DB_VERSION
<1>. QED  BY <1>1, DbInvariance, PTL

\* An upgrade, interrupted and done again at any statement, costs no policy
\* and no entry of the hide list unless SQLite fails or the database has rows
\* that conflict in the new schema, and what is stored later is at MAGISKDB.
THEOREM UpgradeKeepsData == DbSpec => []DataKept
<1>1. DbInv => DataKept
  BY DEF DbInv, FirstInv, ConnInv, DataKept, DataHeld, StoredThere
<1>. QED  BY <1>1, DbInvariance, PTL
=============================================================================
