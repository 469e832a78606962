------------------------------ MODULE SePolicy ------------------------------
(* magiskpolicy: the statements that patch the SELinux policy of a device   *)
(* (magiskpolicy/sepolicy.cpp, statement.cpp, rules.cpp).                   *)
(*                                                                          *)
(* The policy is one record: types and attributes, the access vector table  *)
(* (a datum is a set of permission bits), extended permissions (a command   *)
(* is a driver and a function), type and file name transitions, contexts of *)
(* generated file systems, permissive types.                                *)
EXTENDS Integers, Sequences, FiniteSetsExt

CONSTANTS
    StockPolicies,    \* the policies of devices
    Statements,       \* the statements of rule files
    MaxStatements,    \* bound
    Classes, Perms,   \* classes, and their permissions (one table for all)
    Drivers, Funcs    \* ioctl commands: driver and function, intervals from 0

VARIABLES
    policy,       \* db
    policyRules,  \* how many calls of magisk_rules have been made
    policyTodo,   \* the calls the current statement still stands for
    policyDone,   \* history: the calls that were accepted, from rule files
    policyStock,  \* history: the policy that was loaded
    policyStep    \* idle, loaded, saved; noPolicy, notSaved: failed

policyVars == <<policy, policyRules, policyTodo, policyDone, policyStock, policyStep>>

ALL == "*"
AllNames(db) == db.types \cup db.attrs
OfType(db, t) == {t} \cup {a \in db.attrs : <<t, a>> \in db.member}

\* The value of a function where it is defined, else d.
At(f, k, d) == IF k \in DOMAIN f THEN f[k] ELSE d
SetAt(f, k, v) == [x \in DOMAIN f \cup {k} |-> IF x = k THEN v ELSE f[x]]

(***************************************************************************)
(* Access vectors: add_rule                                                *)
(***************************************************************************)

\* Attributes are enough when rules are removed, too.
StripNever(effect, invert) == FALSE

\* strip_av: dontaudit is stored inverted.
StripAv(effect, invert) == (effect = "auditdeny") = ~invert

\* The types that are there today.
MatchingTypes(db, n, effect, invert) ==
    IF n # ALL THEN {n} ELSE IF StripAv(effect, invert) THEN AllNames(db) ELSE db.types

\* What the match-all operator stands for: attributes when rules are added,
\* every name when they are removed.
Matching(db, n, effect, invert) ==
    IF n # ALL THEN {n} ELSE IF StripAv(effect, invert) THEN AllNames(db) ELSE db.attrs

\* One default for every kind of rule.
RedundantEmpty(effect) == {}

\* get_avtab_node and check_avtab_node: what a node that is not there holds.
Redundant(effect) == IF effect = "auditdeny" THEN Perms ELSE {}

NewDatum(old, p, invert) ==
    IF p = ALL THEN (IF invert THEN {} ELSE Perms)
    ELSE IF invert THEN old \ {p} ELSE old \cup {p}

\* A permission is given together with its class.
Known(db, s, t, c, p) ==
    /\ s = ALL \/ s \in AllNames(db)
    /\ t = ALL \/ t \in AllNames(db)
    /\ c = ALL \/ c \in Classes
    /\ p = ALL \/ (c # ALL /\ p \in Perms)

AddRule(db, s, t, c, p, effect, invert) ==
    IF ~Known(db, s, t, c, p) THEN db
    ELSE LET keys == {<<x, y, z, effect>> : x \in Matching(db, s, effect, invert),
                        y \in Matching(db, t, effect, invert), z \in IF c = ALL THEN Classes ELSE {c}}
             datum(k) == NewDatum(At(db.av, k, Redundant(effect)), p, invert)
             stay == {k \in keys : datum(k) # Redundant(effect)}
         IN  [db EXCEPT !.av = [k \in (DOMAIN @ \ keys) \cup stay |->
                                    IF k \in keys THEN datum(k) ELSE @[k]]]

(***************************************************************************)
(* Extended permissions: add_xperm_rule                                    *)
(***************************************************************************)

\* One node per kind only.
XNodeAnyDriver(low, high) ==
    [kind |-> IF low.driver # high.driver THEN "driver" ELSE "function", driver |-> 0]

\* The node of a range: by driver when it spans several.
XNode(low, high) ==
    IF low.driver # high.driver THEN [kind |-> "driver", driver |-> 0]
    ELSE [kind |-> "function", driver |-> low.driver]

XBits(low, high) ==
    IF low.driver # high.driver THEN low.driver..high.driver ELSE low.func..high.func

\* The match-all operator stands for the attributes; the node is overwritten.
AddXperm(db, s, t, c, low, high, effect) ==
    IF ~Known(db, s, t, c, ALL) THEN db
    ELSE LET keys == {<<x, y, z, effect, XNode(low, high)>> :
                        x \in IF s = ALL THEN db.attrs ELSE {s}, y \in IF t = ALL THEN db.attrs ELSE {t},
                        z \in IF c = ALL THEN Classes ELSE {c}}
         IN  [db EXCEPT !.xperm = [k \in DOMAIN @ \cup keys |-> IF k \in keys THEN XBits(low, high) ELSE @[k]]]

(***************************************************************************)
(* add_type_rule, add_filename_trans, add_genfscon                         *)
(***************************************************************************)

Named(db, s, t, c, d) == {s, t, d} \subseteq AllNames(db) /\ c \in Classes

AddTypeRule(db, s, t, c, d, effect) ==
    IF ~Named(db, s, t, c, d) THEN db
    ELSE [db EXCEPT !.trans = SetAt(@, <<s, t, c, effect>>, d)]

\* The rules for one name form a chain; a second default type is not put in
\* the table, where its key is taken.
AddFilenameTrans(db, s, t, c, d, o) ==
    LET key == <<t, c, o>>
        chain == At(db.names, key, <<>>)
        dup == {i \in DOMAIN chain : s \in chain[i].stypes}
        same == {i \in DOMAIN chain : chain[i].otype = d}
        first == IF dup \cup same = {} THEN 0 ELSE Min(dup \cup same)
        new == IF first = 0 THEN <<[stypes |-> {s}, otype |-> d]>>
               ELSE IF first \in dup THEN [chain EXCEPT ![first].otype = d]
               ELSE [chain EXCEPT ![first].stypes = @ \cup {s}]
    IN  IF ~Named(db, s, t, c, d) \/ (first = 0 /\ chain # <<>>) THEN db
        ELSE [db EXCEPT !.names = SetAt(@, key, new)]

\* context_from_string: a context is told apart by its type, which has to be
\* one of the policy.
KnownContext(db, ctx) == ctx \in db.types

\* Every context becomes the first.
GenfsconHead(db, fs, path, ctx) ==
    IF ~KnownContext(db, ctx) THEN db
    ELSE [db EXCEPT !.genfs = SetAt(@, fs, <<[path |-> path, ctx |-> ctx]>>)]

\* A path that is there is unlinked; the new context becomes the last, and
\* what followed the old one is lost.
AddGenfscon(db, fs, path, ctx) ==
    LET list == At(db.genfs, fs, <<>>)
        at == {i \in DOMAIN list : list[i].path = path}
        kept == IF at = {} THEN list ELSE SubSeq(list, 1, Min(at) - 1)
    IN  IF ~KnownContext(db, ctx) THEN db
        ELSE [db EXCEPT !.genfs = SetAt(@, fs, Append(kept, [path |-> path, ctx |-> ctx]))]

(***************************************************************************)
(* Types                                                                   *)
(***************************************************************************)

\* A name that is there stays what it is.
AddType(db, name, flavor) ==
    IF name \in AllNames(db) THEN db
    ELSE IF flavor = "type" THEN [db EXCEPT !.types = @ \cup {name}] ELSE [db EXCEPT !.attrs = @ \cup {name}]

AddTypeattribute(db, type, attr) ==
    IF type \in db.types /\ attr \in db.attrs THEN [db EXCEPT !.member = @ \cup {<<type, attr>>}] ELSE db

SetTypeState(db, type, permissive) ==
    LET S == IF type = ALL THEN AllNames(db) ELSE {type} \cap AllNames(db)
    IN  [db EXCEPT !.permissive = IF permissive THEN @ \cup S ELSE @ \ S]

(***************************************************************************)
(* Statements                                                              *)
(***************************************************************************)

\* One statement without lists. An attribute statement is left out: its
\* parser, parse_pattern_6, reads past the end of its list.
Applied(db, st) ==
    CASE st.op = "allow" -> AddRule(db, st.s, st.t, st.c, st.p, "allowed", FALSE)
      [] st.op = "deny" -> AddRule(db, st.s, st.t, st.c, st.p, "allowed", TRUE)
      [] st.op = "auditallow" -> AddRule(db, st.s, st.t, st.c, st.p, "auditallow", FALSE)
      [] st.op = "dontaudit" -> AddRule(db, st.s, st.t, st.c, st.p, "auditdeny", TRUE)
      [] st.op = "allowxperm" -> AddXperm(db, st.s, st.t, st.c, st.low, st.high, "xperms_allowed")
      [] st.op = "auditallowxperm" -> AddXperm(db, st.s, st.t, st.c, st.low, st.high, "xperms_auditallow")
      [] st.op = "dontauditxperm" -> AddXperm(db, st.s, st.t, st.c, st.low, st.high, "xperms_dontaudit")
      [] st.op = "type_change" -> AddTypeRule(db, st.s, st.t, st.c, st.d, "change")
      [] st.op = "type_member" -> AddTypeRule(db, st.s, st.t, st.c, st.d, "member")
      [] st.op = "type_transition" -> AddTypeRule(db, st.s, st.t, st.c, st.d, "transition")
      [] st.op = "name_transition" -> AddFilenameTrans(db, st.s, st.t, st.c, st.d, st.o)
      [] st.op = "genfscon" -> AddGenfscon(db, st.fs, st.path, st.ctx)
      [] st.op = "type" -> AddTypeattribute(AddType(db, st.s, "type"), st.s, st.a)
      [] st.op = "typeattribute" -> AddTypeattribute(db, st.s, st.a)
      [] st.op = "permissive" -> SetTypeState(db, st.s, TRUE)
      [] st.op = "enforce" -> SetTypeState(db, st.s, FALSE)

\* run_and_check: a statement that names something unknown is logged.
Accepted(db, st) ==
    /\ st.op \in {"allow", "allowxperm"} => Known(db, st.s, st.t, st.c, IF st.op = "allow" THEN st.p ELSE ALL)
    /\ st.op = "genfscon" => KnownContext(db, st.ctx)

\* run_fn for every element of a list of sources; one that fails does not
\* stop the others.
Expanded(st) ==
    IF "list" \notin DOMAIN st THEN <<st>>
    ELSE [i \in DOMAIN st.list |-> [f \in (DOMAIN st \ {"list"}) \cup {"s"} |-> IF f = "s" THEN st.list[i] ELSE st[f]]]

PROC == "magisk"                 \* SEPOL_PROC_DOMAIN
CLIENT == "magisk_client"        \* SEPOL_CLIENT_DOMAIN
FILE == "magisk_file"            \* SEPOL_FILE_TYPE
UPDATE == "update_engine"
SOCKET == "unix_stream_socket"
Allow(s, t, c, p) == [op |-> "allow", s |-> s, t |-> t, c |-> c, p |-> p]

\* The rules of magisk_rules, one of each kind: what comes first, whatever the
\* device.
FirstRules ==
    << [op |-> "deny", s |-> ALL, t |-> "kernel", c |-> "security", p |-> "load_policy"],
       [op |-> "type", s |-> PROC, a |-> "domain"],
       [op |-> "permissive", s |-> PROC],
       [op |-> "type", s |-> FILE, a |-> "file_type"],
       Allow(PROC, ALL, ALL, ALL),
       [op |-> "allowxperm", s |-> PROC, t |-> ALL, c |-> "fifo_file",
        low |-> [driver |-> 0, func |-> 0], high |-> [driver |-> Max(Drivers), func |-> Max(Funcs)]],
       Allow(ALL, FILE, "file", ALL) >>

\* untrusted_app_25 is there: API 26 and up.
ClientRules ==
    << [op |-> "type", s |-> CLIENT, a |-> "domain"],
       [op |-> "typeattribute", s |-> CLIENT, a |-> "appdomain"],
       Allow("init", CLIENT, "process", "transition"), Allow("appdomain", CLIENT, "process", "transition"),
       [op |-> "dontaudit", s |-> ALL, t |-> PROC, c |-> SOCKET, p |-> ALL],
       Allow(CLIENT, PROC, SOCKET, ALL), Allow("zygote", PROC, SOCKET, ALL) >>

FallbackRules ==
    [i \in 1..3 |-> Allow(<<"init", "appdomain", "zygote">>[i], PROC, SOCKET, "connectto")]

\* For tmpfs, init, the kernel and those that talk to the daemon.
CommonRules ==
    << Allow(ALL, "tmpfs", "file", ALL), Allow("init", PROC, "process", ALL),
       Allow(ALL, PROC, "process", "sigchld"), Allow("kernel", ALL, "file", "read"),
       [op |-> "permissive", s |-> UPDATE] >>

\* magisk_rules
MagiskStatements(db) ==
    FirstRules \o (IF "untrusted_app_25" \in AllNames(db) THEN ClientRules ELSE FallbackRules) \o CommonRules

(***************************************************************************)
(* What is assumed of policies and rule files                              *)
(***************************************************************************)

\* The calls the statements stand for.
Calls == UNION {{Expanded(st)[i] : i \in DOMAIN Expanded(st)} : st \in Statements}
Contexts == [path : STRING, ctx : STRING]

\* A policy as policydb holds it: the rules are about names it knows, and a
\* path of a file system has one context.
IsPolicy(db) ==
    /\ db = [types |-> db.types, attrs |-> db.attrs, member |-> db.member, av |-> db.av, xperm |-> db.xperm,
             trans |-> db.trans, names |-> db.names, genfs |-> db.genfs, permissive |-> db.permissive]
    /\ \A k \in DOMAIN db.av : /\ k = <<k[1], k[2], k[3], k[4]>> /\ k[1] \in AllNames(db)
                               /\ db.av[k] \subseteq Perms
    /\ \A fs \in DOMAIN db.genfs :
        /\ db.genfs[fs] \in Seq(Contexts)
        /\ \A m, n \in DOMAIN db.genfs[fs] : db.genfs[fs][m].path = db.genfs[fs][n].path => m = n

\* A rule that lets somebody load a policy.
LoadsPolicy(db, k) == k[3] = "security" /\ k[4] = "allowed" /\ "load_policy" \in db.av[k]

\* The policies of devices have such rules for kernel itself only, and magisk
\* is not an attribute there.
ASSUME StockAssumption ==
    \A db \in StockPolicies :
        /\ IsPolicy(db) /\ "kernel" \in db.types /\ PROC \notin db.attrs
        /\ \A k \in DOMAIN db.av : LoadsPolicy(db, k) => k[2] = "kernel"
ASSUME ClassAssumption == {"security", SOCKET} \subseteq Classes /\ "load_policy" \in Perms
ASSUME StatementAssumption ==
    /\ \A st \in Statements : "list" \in DOMAIN st => st.list \in Seq(STRING)
    /\ \A st \in Calls :
        /\ st.op \in {"allow", "deny", "auditallow", "dontaudit", "allowxperm", "auditallowxperm",
                      "dontauditxperm", "type_change", "type_member", "type_transition", "name_transition",
                      "genfscon", "type", "typeattribute", "permissive", "enforce"}
        /\ st.op = "genfscon" => st.path \in STRING /\ st.ctx \in STRING
        /\ st.op = "allowxperm" => st.low.driver \in Nat /\ st.high.driver \in Nat

(***************************************************************************)
(* magiskpolicy                                                            *)
(***************************************************************************)

PolicyInit ==
    /\ policy = <<>> /\ policyStock = <<>> /\ policyStep = "idle"
    /\ policyRules = 0 /\ policyTodo = <<>> /\ policyDone = <<>>

\* from_file, from_split, compile_split: a policy that is there.
LoadPolicy ==
    /\ policyStep = "idle" /\ policyStep' = "loaded"
    /\ policy' \in StockPolicies /\ policyStock' = policy'
    /\ UNCHANGED <<policyRules, policyTodo, policyDone>>

\* They return null, and the program ends.
LoadFails ==
    /\ policyStep = "idle" /\ policyStep' = "noPolicy"
    /\ UNCHANGED <<policy, policyRules, policyTodo, policyDone, policyStock>>

\* new_rules is read before the first call.
Rules == MagiskStatements(policyStock)
RulesLeft == policyRules < Len(Rules)
RulesRun == policyRules > 0 /\ ~RulesLeft

\* The next call of magisk_rules: magiskinit, and magiskpolicy --magisk, before
\* any rule file.
MagiskRules ==
    /\ policyStep = "loaded" /\ policyTodo = <<>> /\ policyDone = <<>> /\ RulesLeft
    /\ policy' = Applied(policy, Rules[policyRules + 1])
    /\ policyRules' = policyRules + 1
    /\ UNCHANGED <<policyTodo, policyDone, policyStock, policyStep>>

\* Nothing is half done.
Ready == policyStep = "loaded" /\ policyTodo = <<>> /\ (policyRules = 0 \/ RulesRun)

\* A line of a rule file or an argument of magiskpolicy.
ParseStatement ==
    /\ Ready /\ Len(policyDone) < MaxStatements
    /\ \E st \in Statements : policyTodo' = Expanded(st)
    /\ UNCHANGED <<policy, policyRules, policyDone, policyStock, policyStep>>

\* run_fn: the next call; one that is not accepted has no effect.
RunFn ==
    /\ policyTodo # <<>> /\ policyTodo' = Tail(policyTodo)
    /\ policy' = Applied(policy, Head(policyTodo))
    /\ policyDone' = IF Accepted(policy, Head(policyTodo)) THEN Append(policyDone, Head(policyTodo))
                     ELSE policyDone
    /\ UNCHANGED <<policyRules, policyStock, policyStep>>

\* to_file, of the whole image at once, or its failure; the program ends.
SavePolicy ==
    /\ Ready /\ policyStep' \in {"saved", "notSaved"}
    /\ UNCHANGED <<policy, policyRules, policyTodo, policyDone, policyStock>>

PolicyNext == LoadPolicy \/ LoadFails \/ MagiskRules \/ ParseStatement \/ RunFn \/ SavePolicy

PolicySpec == PolicyInit /\ [][PolicyNext]_policyVars

(***************************************************************************)
(* Properties                                                              *)
(***************************************************************************)

\* The rules of the types and of their attributes allow it.
Ruled(s, t, c, p) ==
    \E x \in OfType(policy, s), y \in OfType(policy, t) : p \in At(policy.av, <<x, y, c, "allowed">>, {})

\* What the kernel decides: a permissive type gets everything.
Access(s, t, c, p) == s \in policy.permissive \/ Ruled(s, t, c, p)

Audited(s, t, c, p) ==
    \A x \in OfType(policy, s), y \in OfType(policy, t) : p \in At(policy.av, <<x, y, c, "auditdeny">>, Perms)

XAccess(s, t, c, cmd) ==
    \E x \in OfType(policy, s), y \in OfType(policy, t) :
        LET bits(kind, driver) ==
                At(policy.xperm, <<x, y, c, "xperms_allowed", [kind |-> kind, driver |-> driver]>>, {})
        IN  cmd.driver \in bits("driver", 0) \/ cmd.func \in bits("function", cmd.driver)

Later(i) == {policyDone[j] : j \in (i + 1)..Len(policyDone)}
Ops == {policyDone[i].op : i \in DOMAIN policyDone}

\* The types a name of a statement means.
Means(n) == {t \in policy.types : n = ALL \/ n \in OfType(policy, t)}

\* "go through all attributes instead of types for optimization": a rule for
\* everybody is one for every attribute, and reaches the types that have one.
HasAttribute(t) == OfType(policy, t) # {t}
StandsFor(n) == {t \in Means(n) : n = ALL => HasAttribute(t)}

\* The types the device and the rules of Magisk make permissive: the kernel
\* denies them nothing.
MadePermissive == policyStock.permissive \cup {PROC, UPDATE}

\* "Prevent anything to change sepolicy except ourselves": after the rules of
\* Magisk the kernel lets no type load a policy but magisk, update_engine and
\* what the device has permissive, whatever rules of types or of attributes it
\* came with, until a rule file allows something or makes a type permissive.
OnlyMagiskLoadsPolicy ==
    RulesRun /\ Ops \cap {"allow", "permissive"} = {} =>
        \A t \in policy.types : Access(t, "kernel", "security", "load_policy") => t \in MadePermissive

\* "Don't allow pesky processes to monitor audit deny logs when poking magisk
\* daemon socket": on new devices no denied access of a type that has an
\* attribute to the socket is audited.
SocketDenialsSilent ==
    RulesRun /\ "untrusted_app_25" \in policy.types /\ policyDone = <<>> =>
        \A t \in StandsFor(ALL), p \in Perms : ~Audited(t, PROC, SOCKET, p)

\* What a statement allows stays allowed by the rules, whoever is permissive,
\* as long as nothing is denied, also to the types that are added later or get one of the attributes later.
AllowHolds ==
    \A i \in DOMAIN policyDone :
        LET st == policyDone[i]
        IN  st.op = "allow" /\ (\A u \in Later(i) : u.op # "deny") =>
                \A s \in StandsFor(st.s), t \in StandsFor(st.t), c \in IF st.c = ALL THEN Classes ELSE {st.c},
                   p \in IF st.p = ALL THEN Perms ELSE {st.p} : Ruled(s, t, c, p)

Spans(st) == st.low.driver # st.high.driver
SameNode(u, st) == Spans(u) = Spans(st) /\ (Spans(st) \/ u.low.driver = st.low.driver)
Cmds(st) ==
    {cmd \in [driver : st.low.driver..st.high.driver, func : Funcs] :
        Spans(st) \/ cmd.func \in st.low.func..st.high.func}

\* A range of ioctl commands stays allowed until a later statement gives a
\* range of the same driver, or also one of several drivers.
IoctlHolds ==
    \A i \in DOMAIN policyDone :
        LET st == policyDone[i]
        IN  /\ st.op = "allowxperm"
            /\ \A u \in Later(i) : u.op = "allowxperm" => ~SameNode(u, st)
            => \A s \in StandsFor(st.s), t \in StandsFor(st.t), c \in IF st.c = ALL THEN Classes ELSE {st.c},
                  cmd \in Cmds(st) : XAccess(s, t, c, cmd)

\* The i-th call names a path the file system has a context for: from the
\* start, or from an earlier call.
Replaces(i) ==
    LET st == policyDone[i]
        stock == At(policyStock.genfs, st.fs, <<>>)
    IN  \/ \E n \in DOMAIN stock : stock[n].path = st.path
        \/ \E j \in 1..(i - 1) : policyDone[j].op = "genfscon" /\ policyDone[j].fs = st.fs
                                  /\ policyDone[j].path = st.path

\* "Insert or replace genfs context": a context that was given is in the
\* policy, in its file system, until a later call replaces one there.
GenfsInserted ==
    \A i \in DOMAIN policyDone :
        LET st == policyDone[i]
        IN  /\ st.op = "genfscon"
            /\ \A j \in (i + 1)..Len(policyDone) :
                    policyDone[j].op = "genfscon" /\ policyDone[j].fs = st.fs => ~Replaces(j)
            => /\ st.fs \in DOMAIN policy.genfs
               /\ \E n \in DOMAIN policy.genfs[st.fs] :
                    policy.genfs[st.fs][n] = [path |-> st.path, ctx |-> st.ctx]

\* The rules of Magisk do what their comments say on any stock policy.
MagiskRulesHold == OnlyMagiskLoadsPolicy /\ SocketDenialsSilent

\* A statement takes effect and keeps it through the statements after it.
StatementsHold == AllowHolds /\ IoctlHolds /\ GenfsInserted
=============================================================================
