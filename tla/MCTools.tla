------------------------------ MODULE MCTools ------------------------------
(* The tools that rewrite what a device boots from: magiskboot on images,   *)
(* ramdisks and compressed data, magiskpolicy on the policy. Each works for *)
(* itself: tool is the one this behaviour is about.                         *)
EXTENDS BootImage, Ramdisk, Streams, SePolicy, TLC

VARIABLE tool

(***************************************************************************)
(* Boot images                                                             *)
(***************************************************************************)

\* An image as a vendor's tool builds it.
VendorImage(ver, pre, part, mtk, trailer, avb, slack, args) ==
    LET sz(p) == SizeOf(part[p])
        size == [p \in Blocks |->
                    IF p \notin FieldsOf[ver] THEN 0
                    ELSE sz(p) + (IF p \in mtk THEN 1 ELSE 0) + (IF p = "kernel" THEN sz("kernel_dtb") ELSE 0)]
        h == [ver |-> ver, size |-> size, cmdline |-> args[1], extra_cmdline |-> args[2],
              os_version |-> IF ver \in HasOsVersion THEN args[3] ELSE 0, id |-> <<>>, dtbo_offset |-> 0,
              name |-> SubSeq(args[4], 1, Upto(Len(args[4]), NameRoom[ver]))]
        base == PreSize[pre]
        off(p) == base + BlockOffset(h)[p]
        block(p) == IF size[p] = 0 THEN <<>>
                    ELSE IF p \in mtk THEN (off(p) :> MtkHdr(sz(p))) @@ (off(p) + 1 :> part[p])
                    ELSE (off(p) :> part[p])
        dt == IF part["kernel_dtb"] = Missing THEN <<>>
              ELSE (off("kernel") + size["kernel"] - sz("kernel_dtb") :> part["kernel_dtb"])
        tail == IF trailer = "none" THEN <<>> ELSE (off("tail") :> Data(trailer, "raw", 1))
        metaAt == off("tail") + PAGE
        end == IF avb THEN metaAt + 2 + FOOTER ELSE off("tail") + 2
    IN  [pre |-> pre, hdr |-> [h EXCEPT !.dtbo_offset = IF size["recovery_dtbo"] > 0 THEN off("recovery_dtbo") ELSE 0],
         at |-> block("kernel") @@ block("ramdisk") @@ block("second") @@ block("extra")
                @@ block("recovery_dtbo") @@ block("dtb") @@ dt @@ tail
                @@ (IF avb THEN (metaAt :> [Data("vbmeta", "raw", 2) EXCEPT !.v = 0]) ELSE <<>>),
         size |-> end + slack, footer |-> IF avb THEN <<off("tail"), metaAt>> ELSE <<>>,
         room |-> TRUE, payload |-> 0]

Only(S) == [p \in Parts |-> IF p \in DOMAIN S THEN S[p] ELSE Missing]
OptionalBlocks == [v0 |-> {"second", "extra"}, v1 |-> {"second", "recovery_dtbo"}, v2 |-> {"recovery_dtbo", "dtb"},
             v3 |-> {}, vnd_v3 |-> {"dtb"}, pxa |-> {"second", "extra"}]
KernelIn(ver, k, dt) ==
    IF ver = "vnd_v3" THEN <<>>
    ELSE ("kernel" :> k) @@ (IF dt THEN ("kernel_dtb" :> Data("kernel_dtb", "raw", 3)) ELSE <<>>)
\* Formats of the kernel and of the ramdisk, size of the kernel, appended tree.
Kernels == {<<"raw", "gzip", 3, FALSE>>, <<"gzip", "lz4_lg", 4, TRUE>>, <<"xz", "lzop", 7, TRUE>>, <<"raw", "raw", 4, FALSE>>}
\* Prefix, trailer, AVB, free space at the end, command line, version and name.
Args(i) == CASE i = 1 -> <<<<>>, <<>>, 0, <<1, BLANK>>>>
             [] i = 2 -> <<<<1>>, <<2, BLANK>>, 2^25 * 11 + 2^18 * 3 + 2^11 * 127 + 21 * 16 + 12, <<2, BLANK, 3>>>>
             [] OTHER -> <<<<1, 2>>, <<3, 4, 5>>, 2^25, <<>>>>
Ordinary == {<<"none", "none", FALSE, 0, 1>>, <<"none", "none", TRUE, 4, 2>>}
Layouts == [v0 |-> Ordinary \cup {<<"none", "seandroid", FALSE, 0, 2>>, <<"dhtb", "seandroid", FALSE, 4, 1>>,
                    <<"blob", "bump", TRUE, 0, 3>>, <<"nookhd", "none", FALSE, 0, 1>>,
                    <<"acclaim", "none", FALSE, 0, 2>>, <<"chromeos", "none", FALSE, 0, 3>>},
            v1 |-> Ordinary \cup {<<"none", "bump", TRUE, 0, 3>>}, v2 |-> Ordinary, v3 |-> Ordinary, vnd_v3 |-> Ordinary, pxa |-> Ordinary]
MCBootImages ==
    UNION {{VendorImage(ver, l[1], Only(KernelIn(ver, Data("kernel", k[1], k[3]), k[4])
                @@ ("ramdisk" :> Data("ramdisk", k[2], 5)) @@ [p \in S |-> Data(p, IF p = "extra" THEN k[2] ELSE "raw", 5)]),
                mtk, l[2], l[3], l[4], Args(l[5])) :
                l \in Layouts[ver], S \in SUBSET OptionalBlocks[ver],
                mtk \in (IF ver = "v0" THEN {{}, {"kernel", "ramdisk"}} ELSE {{}})} :
            ver \in DOMAIN FieldsOf, k \in Kernels}

MCBootEdits ==
    {[part |-> "ramdisk", data |-> d] : d \in {Missing, Data("new", "raw", 9), Data("new", "gzip", 9), Data("new", "lzop", 9)}}
    \cup {[part |-> p, data |-> Missing] : p \in {"second", "extra", "recovery_dtbo", "dtb"}}
    \cup {[part |-> "kernel", data |-> Data("newkernel", "raw", 2)]}

(***************************************************************************)
(* Ramdisks and what is done to them                                       *)
(***************************************************************************)

MCPlaces == <<<<"fstab">>, <<"init">>, <<"init.magisk.rc">>, <<"overlay">>, <<"recovery", "fstab">>, <<"sbin", "su">>, <<"verity_key">>, <<"z">>>>
MCNames ==
    <<Backup, MagiskConfig, Rmlist>> \o [i \in DOMAIN MCPlaces |-> Backup \o MCPlaces[i]]
    \o SubSeq(MCPlaces, 1, 4) \o <<RAMDISK_XZ>> \o SubSeq(MCPlaces, 5, 8)
\* Every remainder by 4.
MCNameSize(p) == IF p = Trailer THEN 11 ELSE 8 + CHOOSE i \in DOMAIN MCNames : MCNames[i] = p
MCFileSize(d) == 3 * Cardinality(d)
FstabNames == {<<"fstab">>, <<"recovery", "fstab">>}
MCStocks ==
    {[p \in S \cup {<<"init">>} |->
        IF p \in FstabNames THEN Reg({"wait", "verify", "forceencrypt"}) ELSE IF p = <<"z">> THEN Reg({}) ELSE Reg({"stock"})] :
        S \in {FstabNames} \cup SUBSET {<<"fstab">>, <<"verity_key">>, <<"z">>, <<".backup">>, <<".backup", "z">>}}
    \cup {[p \in {InitFile, <<"init.magisk.rc">>, <<"z">>} |-> Reg({"stock"})]}
MCEdits ==
    {[cmd |-> "add", name |-> <<"init">>, entry |-> Reg({"magiskinit", "x"})],
     [cmd |-> "add", name |-> <<"overlay">>, entry |-> Dir],
     [cmd |-> "add", name |-> <<"sbin", "su">>, entry |-> Reg({"su"})],
     [cmd |-> "rm", name |-> <<"z">>, r |-> FALSE],
     [cmd |-> "rm", name |-> <<"sbin">>, r |-> TRUE],
     [cmd |-> "mv", name |-> <<"z">>, to |-> <<"overlay">>],
     [cmd |-> "patch", keepverity |-> FALSE, keepforceencrypt |-> FALSE],
     [cmd |-> "patch", keepverity |-> TRUE, keepforceencrypt |-> FALSE],
     [cmd |-> "patch", keepverity |-> FALSE, keepforceencrypt |-> TRUE]}

(***************************************************************************)
(* Policies: rules of types and of attributes; every kind of statement     *)
(***************************************************************************)

Stock(apps, daemons) ==
    [types |-> {"kernel", "init", "zygote", "tmpfs"} \cup apps \cup daemons,
     attrs |-> {"domain", "appdomain", "file_type"},
     member |-> {<<"kernel", "domain">>, <<"init", "domain">>, <<"zygote", "domain">>, <<"tmpfs", "file_type">>}
                \cup (apps \X {"domain", "appdomain"}) \cup (daemons \X {"domain"}),
     av |-> <<"init", "kernel", "security", "allowed">> :> {"load_policy"}
            @@ <<"domain", "kernel", "security", "allowed">> :> {"load_policy", "read"}
            @@ <<"appdomain", "domain", "security", "allowed">> :> {"read"},
     xperm |-> <<>>, trans |-> <<>>, names |-> <<>>,
     genfs |-> "proc" :> <<[path |-> "/", ctx |-> "kernel"]>>, permissive |-> daemons \ {UPDATE}]
MCStockPolicies == {Stock({"untrusted_app_25"}, {UPDATE}), Stock({"untrusted_app"}, {"su"})}
Cmd(d, f) == [driver |-> d, func |-> f]
Xperm(low, high) == [op |-> "allowxperm", s |-> "init", t |-> "tmpfs", c |-> "file", low |-> low, high |-> high]
Genfs(path, ctx) == [op |-> "genfscon", fs |-> "proc", path |-> path, ctx |-> ctx]
Trans(s, d, o) == [op |-> "name_transition", s |-> s, t |-> "tmpfs", c |-> "file", d |-> d, o |-> o]
MCStatements ==
    { Allow(ALL, "tmpfs", "file", "read"), Allow("later", "tmpfs", "file", "read"),
      [Allow("init", "tmpfs", "file", "read") EXCEPT !.p = "transition"] @@ [list |-> <<"later", "init">>],
      Allow("domain", ALL, "process", ALL),
      [op |-> "deny", s |-> ALL, t |-> "tmpfs", c |-> "file", p |-> "read"],
      [op |-> "auditallow", s |-> "init", t |-> "tmpfs", c |-> "file", p |-> "read"],
      [op |-> "dontaudit", s |-> "init", t |-> ALL, c |-> ALL, p |-> ALL],
      Xperm(Cmd(0, 1), Cmd(1, 0)), Xperm(Cmd(1, 0), Cmd(1, 1)), Xperm(Cmd(2, 1), Cmd(2, 1)),
      [op |-> "type", s |-> "later", a |-> "domain"],
      [op |-> "type", s |-> "later", a |-> "nothing"],
      [op |-> "typeattribute", s |-> "later", a |-> "appdomain"],
      [Xperm(Cmd(1, 0), Cmd(1, 0)) EXCEPT !.s = ALL, !.c = ALL],
      [op |-> "permissive", s |-> ALL], [op |-> "enforce", s |-> "init"],
      [op |-> "type_transition", s |-> "init", t |-> "tmpfs", c |-> "process", d |-> "zygote"],
      [op |-> "type_change", s |-> "init", t |-> "tmpfs", c |-> "process", d |-> "zygote"],
      [op |-> "type_member", s |-> "init", t |-> "tmpfs", c |-> "process", d |-> "later"],
      [Xperm(Cmd(1, 0), Cmd(1, 0)) EXCEPT !.op = "auditallowxperm"],
      [Xperm(Cmd(0, 1), Cmd(1, 0)) EXCEPT !.op = "dontauditxperm"],
      Trans("init", "zygote", "a"), Trans("zygote", "zygote", "a"), Trans("kernel", "kernel", "a"),
      Genfs("/a", "init"), Genfs("/b", "later"), Genfs("/a", "zygote"), Genfs("/", "zygote"),
      [Genfs("/c", "init") EXCEPT !.fs = "sysfs"] }

(***************************************************************************)
(* One tool at a time                                                      *)
(***************************************************************************)

ToolsInit ==
    BootInit /\ CpioInit /\ ZInit /\ PolicyInit /\ tool \in {"image", "ramdisk", "stream", "policy"}

ToolsNext ==
    \/ tool = "image" /\ BootNext /\ UNCHANGED <<tool, cpioVars, zVars, policyVars>>
    \/ tool = "ramdisk" /\ CpioNext /\ UNCHANGED <<tool, bootVars, zVars, policyVars>>
    \/ tool = "stream" /\ ZNext /\ UNCHANGED <<tool, bootVars, cpioVars, policyVars>>
    \/ tool = "policy" /\ PolicyNext /\ UNCHANGED <<tool, bootVars, cpioVars, zVars>>

ToolsSpec == ToolsInit /\ [][ToolsNext]_<<tool, bootVars, cpioVars, zVars, policyVars>>
=============================================================================
