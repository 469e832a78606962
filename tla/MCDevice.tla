----------------------------- MODULE MCDevice -----------------------------
(* The parts of the daemon that keep files or talk to one client, each for  *)
(* itself: part is the one this behaviour is about, the others stay where   *)
(* they begin.                                                              *)
EXTENDS MagicMount, ModuleStore, LogDaemon, Database, SuSession, Props

VARIABLE part

(***************************************************************************)
(* Magic mount: modules and devices                                        *)
(***************************************************************************)

Entry(p, kind) == IF kind = "none" THEN <<>> ELSE (p :> kind)
S(p) == SYSTEM \o p

\* What a module may hold: d is a directory with x, or replaced, or a file.
ModuleTrees ==
    {[tree |-> (SYSTEM :> "dir") @@ Entry(S(<<"etc">>), "dir")
        @@ Entry(S(<<"etc", "d">>), IF d \in {"full", "replace"} THEN "dir" ELSE d)
        @@ (IF d \in {"full", "replace"} THEN (S(<<"etc", "d", "x">>) :> "file") ELSE <<>>)
        @@ Entry(S(<<"etc", "f">>), f)
        @@ (IF v = "none" THEN <<>> ELSE (S(<<"vendor">>) :> "dir") @@ (S(<<"vendor", v>>) :> "file"))
        @@ (IF b = "none" THEN <<>> ELSE (BIN :> "dir") @@ (S(<<"bin", b>>) :> "file")),
      replace |-> IF d = "replace" THEN {S(<<"etc", "d">>)} ELSE {}] :
        d \in {"none", "file", "full", "replace"}, f \in {"none", "file", "link"},
        v \in {"none", "v"}, b \in {"su"}}
    \cup {[tree |-> (SYSTEM :> "dir") @@ (BIN :> "dir") @@ (S(<<"bin", "x">>) :> "file"), replace |-> {BIN}]}

RealTrees ==
    {(<<>> :> "dir") @@ (SYSTEM :> "dir") @@ (S(<<"etc">>) :> "dir") @@ (BIN :> "dir")
        @@ (S(<<"bin", "sh">>) :> "file") @@ (S(<<"etc", "g">>) :> "file")
        @@ Entry(S(<<"etc", "d">>), d)
        @@ (IF d = "dir" THEN (S(<<"etc", "d", "y">>) :> "file") ELSE <<>>)
        @@ Entry(S(<<"etc", "f">>), f)
        @@ (IF own THEN (S(<<"vendor">>) :> "link") @@ (<<"vendor">> :> "dir") @@ (<<"vendor", "v">> :> "file")
            ELSE (S(<<"vendor">>) :> "dir") @@ (S(<<"vendor", "v">>) :> "file")) :
        d \in {"none", "dir", "file", "link"}, f \in {"none", "file"}, own \in BOOLEAN}

\* One file system, or another mounted on etc or on etc/d.
Mirror(r, n) == {p \in DOMAIN r : n = <<>> \/ ~Below(n, p)}

MCDevices ==
    {[real |-> r, modules |-> <<a.tree, b.tree>>, replace |-> <<a.replace, b.replace>>, sbin |-> s,
      mirror |-> Mirror(r, IF s THEN <<>> ELSE n)] :
        r \in RealTrees, a \in ModuleTrees, b \in ModuleTrees, s \in BOOLEAN,
        n \in {<<>>, S(<<"etc">>), S(<<"etc", "d">>)}}

(***************************************************************************)
(* Database, sessions                                                      *)
(***************************************************************************)

MCTargets == {<<"app", "main">>, <<"app", "sub">>}

\* A shell on a terminal, and what may differ.
Login == [tty |-> {"in", "out", "err"}, owner |-> TRUE, root |-> FALSE, service |-> TRUE, ask |-> "requester",
          alive |-> TRUE, talks |-> TRUE]
MCSessions ==
    {Login, [Login EXCEPT !.talks = FALSE, !.ask = "isolate"], [Login EXCEPT !.owner = FALSE],
     [Login EXCEPT !.owner = FALSE, !.root = TRUE, !.alive = FALSE], [Login EXCEPT !.service = FALSE],
     [Login EXCEPT !.tty = {}, !.ask = "global"], [Login EXCEPT !.tty = {"in"}],
     [Login EXCEPT !.tty = {"out", "err"}], [Login EXCEPT !.tty = {"out", "err"}, !.talks = FALSE]}

(***************************************************************************)
(* One part at a time                                                      *)
(***************************************************************************)

Symmetry == Permutations(Modules)

ModulesOff == StoreInit /\ \A m \in Modules : modules[m] = NoDir
DbOff == DbInit /\ orig = Fresh

DeviceInit ==
    /\ MountInit /\ LogInit /\ SessInit /\ PropInit
    /\ \/ part \in {"mount", "log", "session", "props"} /\ ModulesOff /\ DbOff
       \/ part = "modules" /\ StoreInit /\ DbOff
       \/ part = "database" /\ ModulesOff /\ DbInit

DeviceNext ==
    \/ part = "mount" /\ MountNext /\ UNCHANGED <<part, storeVars, logVars, dbVars, sessVars, propVars>>
    \/ part = "modules" /\ StoreNext /\ UNCHANGED <<part, mountVars, logVars, dbVars, sessVars, propVars>>
    \/ part = "log" /\ LogNext /\ UNCHANGED <<part, mountVars, storeVars, dbVars, sessVars, propVars>>
    \/ part = "database" /\ DbNext /\ UNCHANGED <<part, mountVars, storeVars, logVars, sessVars, propVars>>
    \/ part = "session" /\ SessNext /\ UNCHANGED <<part, mountVars, storeVars, logVars, dbVars, propVars>>
    \/ part = "props" /\ PropNext /\ UNCHANGED <<part, mountVars, storeVars, logVars, dbVars, sessVars>>

DeviceSpec == DeviceInit /\ [][DeviceNext]_<<part, mountVars, storeVars, logVars, dbVars, sessVars, propVars>>
=============================================================================
