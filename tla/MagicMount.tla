----------------------------- MODULE MagicMount -----------------------------
(* Magic mount (core/module.cpp): the files of all modules are collected in *)
(* one tree of nodes, the tree is adapted to the real file system, and each *)
(* node is mounted.                                                         *)
(*                                                                          *)
(* A path is a sequence of names; a tree maps the path of each node to the  *)
(* node, a file system maps paths to "dir", "file" or "link".  The order of *)
(* the entries of a directory makes no difference to the result.            *)
EXTENDS Integers, Sequences, SequencesExt

CONSTANT Devices   \* the devices magic mount is run on: see device

\* TYPE_MIRROR ... TYPE_CUSTOM: a node gives way to one of a greater type.
MIRROR == 1
INTER == 2
SKEL == 4
MODULE_ == 8
ROOT == 16
CUSTOM == 32

SYSTEM == <<"system">>
BIN == <<"system", "bin">>
Partitions == <<"vendor", "product", "system_ext">>
Applets == {"su"}

VARIABLES
    device,     \* real: the real file system, modules: what each module holds,
                \* replace: its directories with .replace, sbin: MAGISKTMP = /sbin,
                \* mirror: the real paths that the mirror of the partition has too;
                \* what a nested mount point holds is not among them
    tree, mountStep

mountVars == <<device, tree, mountStep>>

Node(type, ft, mod) == [type |-> type, ft |-> ft, mod |-> mod, exist |-> FALSE]

Parent(p) == SubSeq(p, 1, Len(p) - 1)
Below(p, q) == Len(q) > Len(p) /\ SubSeq(q, 1, Len(p)) = p
Children(t, p) == {q \in DOMAIN t : Len(q) = Len(p) + 1 /\ Below(p, q)}
Without(t, S) == [q \in DOMAIN t \ S |-> t[q]]
Subtree(t, p) == {q \in DOMAIN t : q = p \/ Below(p, q)}
IsDirNode(n) == n.type \in {INTER, SKEL, ROOT}

\* merge_node: the new node takes the file type of the old one, and its
\* children if both are directories.
Replace(t, p, n) ==
    LET m == [n EXCEPT !.ft = t[p].ft, !.exist = t[p].exist]
    IN  (IF IsDirNode(n) /\ IsDirNode(t[p]) THEN Without(t, {p}) ELSE Without(t, Subtree(t, p)))
        @@ (p :> m)

\* dir_node::insert: an existing node is replaced only by a greater type.
Insert_(t, p, n) ==
    IF p \notin DOMAIN t THEN t @@ (p :> n)
    ELSE IF t[p].type < n.type THEN Replace(t, p, n) ELSE t

(***************************************************************************)
(* collect_files                                                           *)
(***************************************************************************)

RECURSIVE CollectFiles(_, _, _, _)

CollectEntry(t, p, dev, m) ==
    LET u == Insert_(t, p, Node(INTER, "dir", m))
    IN  CASE dev.modules[m][p] # "dir" -> Insert_(t, p, Node(MODULE_, dev.modules[m][p], m))
          [] u[p].type # INTER -> t
          [] p \in dev.replace[m] -> Replace(u, p, Node(MODULE_, "dir", m))
          [] OTHER -> CollectFiles(u, p, dev, m)

CollectFiles(t, p, dev, m) ==
    FoldSet(LAMBDA q, u : CollectEntry(u, q, dev, m), t, Children(dev.modules[m], p))

\* inject_magisk_bins: magisk itself, and no applet of a module (magiskinit
\* and its applets likewise).
InjectBins(t) ==
    LET u == IF BIN \in DOMAIN t THEN t ELSE t @@ (BIN :> Node(INTER, "dir", 0))
    IN  Without(Insert_(u, Append(BIN, "magisk"), Node(CUSTOM, "file", 0)),
                {Append(BIN, a) : a \in Applets})

\* A partition of its own is taken out of /system.
Extract(t, part) ==
    LET old == <<"system", part>>
        New(q) == Tail(q)
        moved == IF IsDirNode(t[old]) THEN Subtree(t, old) ELSE {old}
    IN  [q \in (DOMAIN t \ Subtree(t, old)) \cup {New(x) : x \in moved} |->
            IF q = <<part>> THEN [t[old] EXCEPT !.type = ROOT]
            ELSE IF q \in DOMAIN t THEN t[q] ELSE t[<<"system">> \o q]]

\* The path of a node in its module: root_node::prefix.
InModule(p) == IF Head(p) = "system" THEN p ELSE <<"system">> \o p

(***************************************************************************)
(* prepare                                                                 *)
(***************************************************************************)

Real(dev, p) == IF p \in DOMAIN dev.real THEN dev.real[p] ELSE "none"

\* Only the target is looked at, not the module's own link.
NeedSkelByTarget(t, p, dev) == Real(dev, p) \in {"none", "link"}

\* need_skel_upgrade
NeedSkel(t, p, dev) == Real(dev, p) \in {"none", "link"} \/ t[p].ft = "link"

SetExist(t, p, dev) == IF Real(dev, p) = "none" THEN t ELSE [t EXCEPT ![p].exist = TRUE]

\* The skeleton without what the real directory holds.
ListNoMirror(t, p, dev) == t

\* The entries of the mirror that have no node yet.
ListMirror(t, p, dev) ==
    t @@ [q \in (Children(dev.real, p) \cap dev.mirror) \ DOMAIN t |-> Node(MIRROR, dev.real[q], 0)]

HasMirror(dev, p) == p \in dev.mirror /\ Real(dev, p) = "dir"

\* upgrade<skel_node>; in a skeleton every directory is one.  A directory
\* without a mirror is left to be ignored at mount.
RECURSIVE UpgradeSkel(_, _, _)
UpgradeSkel(t, p, dev) ==
    LET u == [t EXCEPT ![p].type = SKEL, ![p].exist = HasMirror(dev, p)]
        v == ListMirror(u, p, dev)
    IN  IF ~HasMirror(dev, p) THEN u
        ELSE FoldSet(LAMBDA q, w : UpgradeSkel(w, q, dev), v,
                     {q \in Children(v, p) : v[q].type = INTER})

\* dir_node::prepare: <<the tree, whether the node may stay what it is>>.
RECURSIVE Prepare(_, _, _)

PrepareChild(r, q, p, dev) ==
    LET t == SetExist(r[1], q, dev)
        sub == Prepare(t, q, dev)
        descended == IF ~IsDirNode(t[q]) \/ t[q].ft # "dir" THEN t
                     ELSE IF sub[2] THEN sub[1] ELSE UpgradeSkel(sub[1], q, dev)
    IN  IF ~NeedSkel(t, q, dev) THEN <<descended, r[2]>>
        ELSE IF t[p].type > SKEL THEN <<Without(t, Subtree(t, q)), r[2]>>
        ELSE IF t[q].type = INTER THEN <<Replace(t, q, Node(MODULE_, "dir", t[q].mod)), FALSE>>
        ELSE <<descended, FALSE>>

Prepare(t, p, dev) ==
    FoldSet(LAMBDA q, r : PrepareChild(r, q, p, dev), <<t, TRUE>>, Children(t, p))

(***************************************************************************)
(* mount: what a path shows afterwards, <<whose, file type>>.              *)
(***************************************************************************)

\* Whose it is, if not a module's.
REAL == 0
NOBODY == -1
TMPFS == -2
MAGISK == -3

Nothing == <<NOBODY, "none">>
FromReal(dev, x) == IF Real(dev, x) = "none" THEN Nothing ELSE <<REAL, Real(dev, x)>>
FromMirror(dev, x) == IF x \in dev.mirror THEN FromReal(dev, x) ELSE Nothing
FromModule(dev, m, x) ==
    IF InModule(x) \in DOMAIN dev.modules[m] THEN <<m, dev.modules[m][InModule(x)]>> ELSE Nothing

\* module_node::mount, create_and_mount: in a skeleton the target is created
\* by the node's file type; a bind mount needs both to be directories, or
\* neither.
ModuleMount(dev, t, p, x) ==
    LET n == t[p]
        src == dev.modules[n.mod][InModule(p)]
        inSkel == t[Parent(p)].type = SKEL
        dest == IF inSkel THEN n.ft ELSE Real(dev, p)
    IN  IF inSkel /\ n.ft = "link" THEN FromModule(dev, n.mod, x)
        ELSE IF n.ft # "link" /\ (src = "dir") = (dest = "dir") THEN FromModule(dev, n.mod, x)
        ELSE IF ~inSkel THEN FromReal(dev, x)
        ELSE IF x = p THEN <<TMPFS, n.ft>> ELSE Nothing

AppletLink(t, x) ==
    /\ Parent(x) = BIN /\ x[3] \in Applets /\ BIN \in DOMAIN t /\ t[BIN].type = SKEL
    /\ Append(BIN, "magisk") \in DOMAIN t

RECURSIVE Mounted(_, _, _, _)
Mounted(dev, t, p, x) ==
    LET n == t[p]
        q == SubSeq(x, 1, Len(p) + 1)
        down == p # x /\ q \in DOMAIN t
    IN  CASE n.type = MODULE_ -> ModuleMount(dev, t, p, x)
          [] n.type = MIRROR -> FromMirror(dev, x)
          [] n.type = CUSTOM -> IF x = p THEN <<MAGISK, "file">> ELSE Nothing
          [] n.type = SKEL /\ ~n.exist -> IF t[Parent(p)].type = SKEL THEN Nothing ELSE FromReal(dev, x)
          [] down -> Mounted(dev, t, q, x)
          [] n.type = SKEL ->
                IF x = p THEN FromReal(dev, x)
                ELSE IF AppletLink(t, x) THEN <<MAGISK, "link">> ELSE Nothing
          [] OTHER -> FromReal(dev, x)

(***************************************************************************)
(* magic_mount                                                             *)
(***************************************************************************)

MountInit == device = "none" /\ tree = <<>> /\ mountStep = "idle"

\* A new root and system node; a module with skip_mount is one without files.
LoadModules ==
    /\ mountStep = "idle" /\ mountStep' = "collect"
    /\ \E d \in Devices : device' = d
    /\ tree' = (<<>> :> Node(ROOT, "dir", 0)) @@ (SYSTEM :> Node(ROOT, "dir", 0))

\* The modules in the order of module_list.
Collect ==
    /\ mountStep = "collect" /\ mountStep' = "inject"
    /\ tree' = FoldLeft(LAMBDA t, m : CollectFiles(t, SYSTEM, device, m), tree,
                        [m \in 1..Len(device.modules) |-> m])
    /\ UNCHANGED device

\* inject_magisk_bins takes the node of system/bin for an inter_node.
BadCast == ~device.sbin /\ BIN \in DOMAIN tree /\ tree[BIN].type # INTER

\* If it is none, what the program does is undefined.
InjectUndefined ==
    /\ mountStep = "inject" /\ BadCast /\ mountStep' = "undefined"
    /\ UNCHANGED <<device, tree>>

\* Nothing to do if nobody has a file for /system.
Inject ==
    /\ mountStep = "inject" /\ ~BadCast
    /\ LET t == IF device.sbin THEN tree ELSE InjectBins(tree)
       IN  tree' = t /\ mountStep' = IF Children(t, SYSTEM) = {} THEN "done" ELSE "parts"
    /\ UNCHANGED device

SplitPartitions ==
    /\ mountStep = "parts" /\ mountStep' = "prepare"
    /\ tree' = FoldLeft(LAMBDA t, part :
                          IF Real(device, <<part>>) = "dir" /\ <<"system", part>> \in DOMAIN t
                          THEN Extract(t, part) ELSE t,
                        tree, Partitions)
    /\ UNCHANGED device

\* prepare, and mount: see Mounted.
PrepareTree ==
    /\ mountStep = "prepare" /\ mountStep' = "done"
    /\ tree' = Prepare(tree, <<>>, device)[1] /\ UNCHANGED device

MountNext == LoadModules \/ Collect \/ Inject \/ InjectUndefined \/ SplitPartitions \/ PrepareTree

(***************************************************************************)
(* Properties                                                              *)
(***************************************************************************)

Shown(x) == Mounted(device, tree, <<>>, x)
PathsTo(p) == {SubSeq(p, 1, i) : i \in 2..Len(p)}
Split(part) == Real(device, <<part>>) = "dir" /\ part \in ToSet(Partitions)

\* Where a file of a module's system directory is meant to appear.
Target(p) == IF Len(p) >= 2 /\ Split(p[2]) THEN Tail(p) ELSE p

Injected(x) == ~device.sbin /\ Parent(x) = BIN /\ x[3] \in Applets \cup {"magisk"}

\* Module m takes over what is at path p of its system directory.
TakesOver(m, p) ==
    LET has == device.modules[m]
    IN  p \in DOMAIN has /\ (has[p] # "dir" \/ p \in device.replace[m])

Touched(x) ==
    \E m \in DOMAIN device.modules : \E p \in DOMAIN device.modules[m] :
        /\ p # SYSTEM /\ (Target(p) = x \/ Below(Target(p), x))
        /\ TakesOver(m, p) \/ Real(device, Target(p)) # "dir"

\* The node at p is a skeleton.
Skeleton(p) == p \in DOMAIN tree /\ tree[p].type = SKEL

\* What a nested mount holds is not in the mirror, and so not in a skeleton
\* that covers the mount point or stands above it.
NestedCovered(x) ==
    /\ x \notin device.mirror
    /\ \E q \in PathsTo(x) : q \in device.mirror /\ Skeleton(q)

\* A real file that no module and not magisk itself replaces is still what
\* its path shows: a skeleton is a tmpfs, and everything it hides must come
\* back from the mirror.  Only what NestedCovered names cannot; a directory
\* inside a nested mount is ignored at mount and shows what it did.
UntouchedKept ==
    mountStep = "done" =>
        \A x \in DOMAIN device.real :
            Touched(x) \/ Injected(x) \/ NestedCovered(x) \/ Shown(x) = <<REAL, device.real[x]>>

\* What keeps file p of module m from being mounted: another module at the
\* same path or above it, a real file in place of a directory, a directory
\* the device does not have and another module brought first, a directory
\* that would need a skeleton and has no mirror, an entry of a partition's
\* root that would need a skeleton.
Kept(m, p) ==
    LET mods == DOMAIN device.modules
        has(n) == device.modules[n]
        x == Target(p)
        above == PathsTo(p) \ {p}
    IN  \/ Injected(x)
        \/ \E n \in 1..(m - 1) : p \in DOMAIN has(n)
        \/ \E n \in mods \ {m}, q \in above : TakesOver(n, q)
        \/ Real(device, x) = "dir"
        \/ \E q \in above : Real(device, Target(q)) = "file"
        \/ \E q \in above, n \in 1..(m - 1) : Real(device, Target(q)) # "dir" /\ q \in DOMAIN has(n)
        \/ \E q \in above : Skeleton(Target(q)) /\ Target(q) \notin device.mirror
        \/ \E q \in PathsTo(p) :
                /\ Len(Target(q)) = 2
                /\ Real(device, Target(q)) \in {"none", "link"} \/ has(m)[q] = "link"

\* A module's file is what its path shows, unless something in Kept keeps it
\* out: nothing else (the order of the modules, a skeleton above, a
\* partition that is not under /system) can lose it.
ModuleShown ==
    mountStep = "done" =>
        \A m \in DOMAIN device.modules : \A p \in DOMAIN device.modules[m] :
            device.modules[m][p] = "dir" \/ Kept(m, p)
                \/ Shown(Target(p)) = <<m, device.modules[m][p]>>

\* What the system shows after magic_mount is the overlay of the modules on
\* the device: nothing real is lost and nothing of a module is.  After the
\* bad cast of inject_magisk_bins nothing is claimed.
ModulesOverlaid == UntouchedKept /\ ModuleShown
=============================================================================
