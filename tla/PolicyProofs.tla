---------------------------- MODULE PolicyProofs ----------------------------
(* What magiskpolicy promises, for every stock policy and every rule file:  *)
(* the rules of Magisk do what their comments say, and a statement keeps    *)
(* its effect through the ones after it.                                    *)
EXTENDS SePolicy, TLAPS

(***************************************************************************)
(* What one call does to the policy                                        *)
(***************************************************************************)

CallOps == {"allow", "deny", "auditallow", "dontaudit", "allowxperm", "auditallowxperm",
            "dontauditxperm", "type_change", "type_member", "type_transition", "name_transition",
            "genfscon", "type", "typeattribute", "permissive", "enforce"}
XpermOps == {"allowxperm", "auditallowxperm", "dontauditxperm"}
AvOps == {"allow", "deny", "auditallow", "dontaudit"}

\* The record type of a policy.
IsRecord(db) ==
    db = [types |-> db.types, attrs |-> db.attrs, member |-> db.member, av |-> db.av, xperm |-> db.xperm,
          trans |-> db.trans, names |-> db.names, genfs |-> db.genfs, permissive |-> db.permissive]

\* new differs from old at most in the access vectors.
OnlyAv(old, new) ==
    /\ IsRecord(new) /\ new.types = old.types /\ new.attrs = old.attrs /\ new.member = old.member
    /\ new.xperm = old.xperm /\ new.genfs = old.genfs /\ new.permissive = old.permissive

\* add_rule leaves everything but the access vectors alone.
LEMMA AddRuleFrame ==
    ASSUME NEW db, IsRecord(db), NEW s, NEW t, NEW c, NEW p, NEW effect, NEW invert
    PROVE  OnlyAv(db, AddRule(db, s, t, c, p, effect, invert))
  BY DEF AddRule, IsRecord, OnlyAv

\* The keys add_rule visits.
RuleKeys(db, s, t, c, effect, invert) ==
    {<<x, y, z, effect>> : x \in Matching(db, s, effect, invert), y \in Matching(db, t, effect, invert),
        z \in IF c = ALL THEN Classes ELSE {c}}

\* What add_rule leaves in the table: the other keys as they were, and for
\* its own the new datum, unless it is redundant.
LEMMA AddRuleEffect ==
    ASSUME NEW db, IsRecord(db), NEW s, NEW t, NEW c, NEW p, NEW effect, NEW invert,
           Known(db, s, t, c, p)
    PROVE  LET new == AddRule(db, s, t, c, p, effect, invert)
               keys == RuleKeys(db, s, t, c, effect, invert)
               datum(k) == NewDatum(At(db.av, k, Redundant(effect)), p, invert)
           IN  /\ \A k : k \notin keys => /\ k \in DOMAIN new.av <=> k \in DOMAIN db.av
                                          /\ k \in DOMAIN db.av => new.av[k] = db.av[k]
               /\ \A k \in keys : /\ k \in DOMAIN new.av <=> datum(k) # Redundant(effect)
                                  /\ k \in DOMAIN new.av => new.av[k] = datum(k)
<1>. DEFINE keys == RuleKeys(db, s, t, c, effect, invert)
            datum(k) == NewDatum(At(db.av, k, Redundant(effect)), p, invert)
            stay == {k \in keys : datum(k) # Redundant(effect)}
            table == [k \in (DOMAIN db.av \ keys) \cup stay |-> IF k \in keys THEN datum(k) ELSE db.av[k]]
<1>1. AddRule(db, s, t, c, p, effect, invert).av = table
  BY DEF AddRule, IsRecord, RuleKeys
<1>. HIDE DEF keys, datum
<1>2. /\ \A k : k \notin keys => /\ k \in DOMAIN table <=> k \in DOMAIN db.av
                                 /\ k \in DOMAIN db.av => table[k] = db.av[k]
      /\ \A k \in keys : /\ k \in DOMAIN table <=> datum(k) # Redundant(effect)
                         /\ k \in DOMAIN table => table[k] = datum(k)
  OBVIOUS
<1>. QED  BY <1>1, <1>2 DEF keys, datum

\* What a name of an allow statement is stored for.
Names(db, n) == IF n = ALL THEN db.attrs ELSE {n}
ClassesOf(c) == IF c = ALL THEN Classes ELSE {c}
PermsOf(p) == IF p = ALL THEN Perms ELSE {p}
Allowed(db, x, y, c, p) == p \in At(db.av, <<x, y, c, "allowed">>, {})

\* new differs from old at most in the extended permissions and the type rules.
OnlyX(old, new) ==
    /\ IsRecord(new) /\ new.types = old.types /\ new.attrs = old.attrs /\ new.av = old.av
    /\ new.genfs = old.genfs /\ new.permissive = old.permissive

\* add_xperm_rule leaves everything but the extended permissions alone.
LEMMA AddXpermFrame ==
    ASSUME NEW db, IsRecord(db), NEW s, NEW t, NEW c, NEW low, NEW high, NEW effect
    PROVE  OnlyX(db, AddXperm(db, s, t, c, low, high, effect))
  BY DEF AddXperm, IsRecord, OnlyX

\* add_type_rule leaves everything but the type rules alone.
LEMMA AddTypeRuleFrame ==
    ASSUME NEW db, IsRecord(db), NEW s, NEW t, NEW c, NEW d, NEW effect
    PROVE  OnlyX(db, AddTypeRule(db, s, t, c, d, effect)) /\ AddTypeRule(db, s, t, c, d, effect).xperm = db.xperm
  BY DEF AddTypeRule, IsRecord, OnlyX

\* Which tables a call may change; attributes are never added, and types
\* never taken away.
LEMMA CallFrame ==
    ASSUME NEW db, IsRecord(db), NEW st, st.op \in CallOps
    PROVE  LET new == Applied(db, st)
           IN  /\ IsRecord(new) /\ new.attrs = db.attrs /\ db.types \subseteq new.types
               /\ st.op \notin AvOps => new.av = db.av
               /\ st.op \notin XpermOps => new.xperm = db.xperm
               /\ st.op # "genfscon" => new.genfs = db.genfs
               /\ st.op # "type" => new.types = db.types
               /\ new.types \subseteq db.types \cup {st.s}
               /\ st.op # "permissive" => new.permissive \subseteq db.permissive
               /\ st.op = "permissive" /\ st.s # ALL => new.permissive \subseteq db.permissive \cup {st.s}
<1>. DEFINE new == Applied(db, st)
<1>1. CASE st.op \in AvOps
  <2>1. \A effect, invert : OnlyAv(db, AddRule(db, st.s, st.t, st.c, st.p, effect, invert))
    BY AddRuleFrame
  <2>2. \E effect, invert : new = AddRule(db, st.s, st.t, st.c, st.p, effect, invert)
    BY <1>1 DEF Applied, AvOps
  <2>. QED  BY <1>1, <2>1, <2>2 DEF OnlyAv, AvOps, XpermOps
<1>2. CASE st.op \in XpermOps
  <2>1. \E effect : new = AddXperm(db, st.s, st.t, st.c, st.low, st.high, effect)
    BY <1>2 DEF Applied, XpermOps
  <2>2. OnlyX(db, new)
    BY <2>1, AddXpermFrame
  <2>. HIDE DEF new
  <2>3. st.op # "genfscon" /\ st.op # "type" /\ st.op # "permissive"
    BY <1>2 DEF XpermOps
  <2>. QED  BY <1>2, <2>2, <2>3 DEF OnlyX, new
<1>3. CASE st.op \in {"type_change", "type_member", "type_transition"}
  <2>1. \E effect : new = AddTypeRule(db, st.s, st.t, st.c, st.d, effect)
    BY <1>3 DEF Applied
  <2>2. OnlyX(db, new) /\ new.xperm = db.xperm
    BY <2>1, AddTypeRuleFrame
  <2>. HIDE DEF new
  <2>3. st.op # "genfscon" /\ st.op # "type" /\ st.op # "permissive"
    BY <1>3
  <2>. QED  BY <1>3, <2>2, <2>3 DEF OnlyX, new
<1>4. CASE st.op = "name_transition"
  BY <1>4 DEF Applied, AddFilenameTrans, IsRecord, AvOps, XpermOps
<1>5. CASE st.op = "genfscon"
  BY <1>5 DEF Applied, AddGenfscon, IsRecord, AvOps, XpermOps
<1>6. CASE st.op = "type"
  BY <1>6 DEF Applied, AddType, AddTypeattribute, IsRecord, AvOps, XpermOps
<1>7. CASE st.op = "typeattribute"
  BY <1>7 DEF Applied, AddTypeattribute, IsRecord, AvOps, XpermOps
<1>8. CASE st.op = "permissive"
  BY <1>8 DEF Applied, SetTypeState, IsRecord, AvOps, XpermOps
<1>9. CASE st.op = "enforce"
  BY <1>9 DEF Applied, SetTypeState, IsRecord, AvOps, XpermOps
<1>. QED  BY <1>1, <1>2, <1>3, <1>4, <1>5, <1>6, <1>7, <1>8, <1>9 DEF CallOps, AvOps, XpermOps

\* The access vectors stay rules about known names with known permissions.
AvOK(db) ==
    \A k \in DOMAIN db.av : /\ k = <<k[1], k[2], k[3], k[4]>> /\ k[1] \in AllNames(db)
                            /\ db.av[k] \subseteq Perms

\* add_rule adds rules for names it knows only.
LEMMA AddRuleTyped ==
    ASSUME NEW db, IsRecord(db), AvOK(db), NEW s, NEW t, NEW c, NEW p, NEW effect, NEW invert
    PROVE  AvOK(AddRule(db, s, t, c, p, effect, invert))
<1>. DEFINE new == AddRule(db, s, t, c, p, effect, invert)
            keys == RuleKeys(db, s, t, c, effect, invert)
<1>0. CASE ~Known(db, s, t, c, p)
  BY <1>0 DEF AddRule
<1>. SUFFICES ASSUME Known(db, s, t, c, p) PROVE AvOK(new)
  BY <1>0
<1>1. AllNames(new) = AllNames(db)
  BY AddRuleFrame DEF AllNames, OnlyAv
<1>. SUFFICES ASSUME NEW k \in DOMAIN new.av
              PROVE  k = <<k[1], k[2], k[3], k[4]>> /\ k[1] \in AllNames(db) /\ new.av[k] \subseteq Perms
  BY <1>1 DEF AvOK
<1>2. CASE k \notin keys
  <2>1. k \in DOMAIN db.av /\ new.av[k] = db.av[k]
    BY <1>2, AddRuleEffect
  <2>. QED  BY <2>1 DEF AvOK
<1>3. CASE k \in keys
  <2>1. new.av[k] = NewDatum(At(db.av, k, Redundant(effect)), p, invert)
    BY <1>3, AddRuleEffect
  <2>2. At(db.av, k, Redundant(effect)) \subseteq Perms
    BY DEF At, AvOK, Redundant
  <2>3. p = ALL \/ p \in Perms
    BY DEF Known
  <2>4. new.av[k] \subseteq Perms
    BY <2>1, <2>2, <2>3 DEF NewDatum
  <2>5. PICK x \in Matching(db, s, effect, invert), y \in Matching(db, t, effect, invert),
             z \in IF c = ALL THEN Classes ELSE {c} : k = <<x, y, z, effect>>
    BY <1>3 DEF RuleKeys
  <2>6. x \in AllNames(db)
    BY DEF Matching, Known, AllNames
  <2>. QED  BY <2>4, <2>5, <2>6
<1>. QED  BY <1>2, <1>3

\* Where the path is among the contexts of a file system, if it is.
Same(list, path) == {i \in DOMAIN list : list[i].path = path}
PathsOnce(list) == \A m, n \in DOMAIN list : list[m].path = list[n].path => m = n
Before(list, path) == IF Same(list, path) = {} THEN list ELSE SubSeq(list, 1, Min(Same(list, path)) - 1)

\* add_genfscon keeps a part of the list from its beginning, and all of it if
\* the path is new; there the path does not occur.
LEMMA BeforePath ==
    ASSUME NEW list \in Seq(Contexts), PathsOnce(list), NEW path
    PROVE  /\ Before(list, path) \in Seq(Contexts)
           /\ Len(Before(list, path)) <= Len(list)
           /\ \A n \in DOMAIN Before(list, path) :
                n \in DOMAIN list /\ Before(list, path)[n] = list[n] /\ list[n].path # path
           /\ Same(list, path) = {} => Before(list, path) = list
<1>1. CASE Same(list, path) = {}
  BY <1>1 DEF Before, Same
<1>2. CASE Same(list, path) # {}
  <2>1. PICK i : i \in Same(list, path)
    BY <1>2
  <2>2. i \in 1 .. Len(list) /\ list[i].path = path /\ Len(list) \in Nat
    BY <2>1 DEF Same
  <2>3. Same(list, path) = {i}
    BY <2>1 DEF Same, PathsOnce
  <2>4. Min({i}) = i
    <3>1. \E x \in {i} : \A y \in {i} : x =< y
      BY <2>2
    <3>. QED  BY <3>1 DEF Min
  <2>5. Before(list, path) = SubSeq(list, 1, i - 1)
    BY <2>3, <2>4 DEF Before
  <2>6. SubSeq(list, 1, i - 1) \in Seq(Contexts) /\ Len(SubSeq(list, 1, i - 1)) = i - 1
        /\ \A n \in 1 .. i - 1 : SubSeq(list, 1, i - 1)[n] = list[n]
    BY <2>2
  <2>. HIDE DEF Before
  <2>7. DOMAIN Before(list, path) = 1 .. i - 1
    BY <2>5, <2>6
  <2>8. ASSUME NEW n \in 1 .. i - 1
        PROVE  n \in DOMAIN list /\ Before(list, path)[n] = list[n] /\ list[n].path # path
    <3>1. n \in DOMAIN list /\ i \in DOMAIN list /\ n # i
      BY <2>2
    <3>. QED  BY <2>2, <2>5, <2>6, <3>1 DEF PathsOnce
  <2>. QED  BY <1>2, <2>2, <2>5, <2>6, <2>7, <2>8
<1>. QED  BY <1>1, <1>2

\* The contexts of a file system.
ListOf(db, fs) == At(db.genfs, fs, <<>>)
GenfsOK(db) == \A fs \in DOMAIN db.genfs : db.genfs[fs] \in Seq(Contexts) /\ PathsOnce(db.genfs[fs])

\* What add_genfscon leaves: the other file systems as they were, and in its
\* own the new context behind what it kept.
LEMMA GenfsEffect ==
    ASSUME NEW db, IsRecord(db), NEW fs, NEW path, NEW ctx, KnownContext(db, ctx)
    PROVE  LET new == AddGenfscon(db, fs, path, ctx)
           IN  /\ DOMAIN new.genfs = DOMAIN db.genfs \cup {fs}
               /\ \A f \in DOMAIN db.genfs \ {fs} : new.genfs[f] = db.genfs[f]
               /\ new.genfs[fs] = Append(Before(ListOf(db, fs), path), [path |-> path, ctx |-> ctx])
<1>. DEFINE list == ListOf(db, fs)
            e == [path |-> path, ctx |-> ctx]
<1>1. AddGenfscon(db, fs, path, ctx).genfs = SetAt(db.genfs, fs, Append(Before(list, path), e))
  BY DEF AddGenfscon, IsRecord, ListOf, Before, Same
<1>. HIDE DEF list, e
<1>. QED  BY <1>1 DEF SetAt, list, e

\* The list of a file system stays one of contexts, with a path once.
LEMMA GenfsTyped ==
    ASSUME NEW db, IsRecord(db), GenfsOK(db), NEW fs, NEW path \in STRING, NEW ctx \in STRING,
           KnownContext(db, ctx)
    PROVE  LET new == AddGenfscon(db, fs, path, ctx)
               kept == Before(ListOf(db, fs), path)
           IN  /\ GenfsOK(new)
               /\ kept \in Seq(Contexts) /\ Len(new.genfs[fs]) = Len(kept) + 1
               /\ \A n \in 1 .. Len(kept) : new.genfs[fs][n] = kept[n]
               /\ new.genfs[fs][Len(kept) + 1] = [path |-> path, ctx |-> ctx]
<1>. DEFINE new == AddGenfscon(db, fs, path, ctx)
            list == ListOf(db, fs)
            kept == Before(list, path)
            e == [path |-> path, ctx |-> ctx]
<1>1. list \in Seq(Contexts) /\ PathsOnce(list)
  BY DEF ListOf, At, GenfsOK, PathsOnce
<1>2. /\ kept \in Seq(Contexts)
      /\ \A n \in DOMAIN kept : n \in DOMAIN list /\ kept[n] = list[n] /\ list[n].path # path
  BY <1>1, BeforePath
<1>3. e \in Contexts /\ e.path = path
  BY DEF Contexts
<1>4. /\ DOMAIN new.genfs = DOMAIN db.genfs \cup {fs}
      /\ \A f \in DOMAIN db.genfs \ {fs} : new.genfs[f] = db.genfs[f]
      /\ new.genfs[fs] = Append(kept, e)
  BY GenfsEffect
<1>. HIDE DEF new, e, kept
<1>5. /\ Append(kept, e) \in Seq(Contexts) /\ Len(Append(kept, e)) = Len(kept) + 1 /\ Len(kept) \in Nat
      /\ \A n \in 1 .. Len(kept) : Append(kept, e)[n] = kept[n]
      /\ Append(kept, e)[Len(kept) + 1] = e
      /\ DOMAIN kept = 1 .. Len(kept) /\ DOMAIN Append(kept, e) = 1 .. Len(kept) + 1
  BY <1>2, <1>3
<1>6. PathsOnce(Append(kept, e))
  <2>. SUFFICES ASSUME NEW m \in DOMAIN Append(kept, e), NEW n \in DOMAIN Append(kept, e),
                       Append(kept, e)[m].path = Append(kept, e)[n].path
                PROVE  m = n
    BY DEF PathsOnce
  <2>1. m \in 1 .. Len(kept) \/ m = Len(kept) + 1
    BY <1>5
  <2>2. n \in 1 .. Len(kept) \/ n = Len(kept) + 1
    BY <1>5
  <2>3. \A i \in 1 .. Len(kept) : i \in DOMAIN list /\ Append(kept, e)[i] = list[i] /\ list[i].path # path
    BY <1>2, <1>5
  <2>. QED  BY <1>1, <1>3, <1>5, <2>1, <2>2, <2>3 DEF PathsOnce
<1>7. GenfsOK(new)
  <2>. SUFFICES ASSUME NEW f \in DOMAIN new.genfs
                PROVE  new.genfs[f] \in Seq(Contexts) /\ PathsOnce(new.genfs[f])
    BY DEF GenfsOK
  <2>. QED  BY <1>4, <1>5, <1>6 DEF GenfsOK
<1>. QED  BY <1>2, <1>4, <1>5, <1>7 DEF new, e, kept

\* A policy stays one through every call.
LEMMA CallTyped ==
    ASSUME NEW db, IsPolicy(db), NEW st, st.op \in CallOps,
           st.op = "genfscon" => st.path \in STRING /\ st.ctx \in STRING
    PROVE  IsPolicy(Applied(db, st))
<1>. DEFINE new == Applied(db, st)
<1>1. IsRecord(db) /\ AvOK(db) /\ GenfsOK(db)
  BY DEF IsPolicy, IsRecord, AvOK, GenfsOK, PathsOnce
<1>2. /\ IsRecord(new) /\ new.attrs = db.attrs /\ db.types \subseteq new.types
      /\ st.op \notin AvOps => new.av = db.av
      /\ st.op # "genfscon" => new.genfs = db.genfs
  BY <1>1, CallFrame
<1>. HIDE DEF new
<1>3. AvOK(new)
  <2>1. CASE st.op \notin AvOps
    BY <1>1, <1>2, <2>1 DEF AvOK, AllNames
  <2>2. CASE st.op \in AvOps
    <3>1. \E effect, invert : new = AddRule(db, st.s, st.t, st.c, st.p, effect, invert)
      BY <2>2 DEF Applied, AvOps, new
    <3>. QED  BY <1>1, <3>1, AddRuleTyped
  <2>. QED  BY <2>1, <2>2
<1>4. GenfsOK(new)
  <2>1. CASE st.op # "genfscon"
    BY <1>1, <1>2, <2>1 DEF GenfsOK
  <2>2. CASE st.op = "genfscon"
    <3>1. new = AddGenfscon(db, st.fs, st.path, st.ctx)
      BY <2>2 DEF Applied, new
    <3>2. CASE KnownContext(db, st.ctx)
      BY <1>1, <2>2, <3>1, <3>2, GenfsTyped
    <3>3. CASE ~KnownContext(db, st.ctx)
      BY <1>1, <3>1, <3>3 DEF AddGenfscon
    <3>. QED  BY <3>2, <3>3
  <2>. QED  BY <2>1, <2>2
<1>5. IsPolicy(new)
  BY <1>2, <1>3, <1>4 DEF IsPolicy, IsRecord, AvOK, GenfsOK, PathsOnce
<1>. QED  BY <1>5 DEF new

\* A call that is not accepted has no effect.
LEMMA RefusedCall ==
    ASSUME NEW db, NEW st, ~Accepted(db, st)
    PROVE  st.op \in {"allow", "allowxperm", "genfscon"} /\ Applied(db, st) = db
<1>1. st.op \in {"allow", "allowxperm", "genfscon"}
  BY DEF Accepted
<1>2. CASE st.op = "allow"
  <2>1. ~Known(db, st.s, st.t, st.c, st.p)
    BY <1>2 DEF Accepted
  <2>2. Applied(db, st) = AddRule(db, st.s, st.t, st.c, st.p, "allowed", FALSE)
    BY <1>2 DEF Applied
  <2>. QED  BY <1>1, <2>1, <2>2 DEF AddRule
<1>3. CASE st.op = "allowxperm"
  <2>1. ~Known(db, st.s, st.t, st.c, ALL)
    BY <1>3 DEF Accepted
  <2>2. Applied(db, st) = AddXperm(db, st.s, st.t, st.c, st.low, st.high, "xperms_allowed")
    BY <1>3 DEF Applied
  <2>. QED  BY <1>1, <2>1, <2>2 DEF AddXperm
<1>4. CASE st.op = "genfscon"
  <2>1. ~KnownContext(db, st.ctx)
    BY <1>4 DEF Accepted
  <2>2. Applied(db, st) = AddGenfscon(db, st.fs, st.path, st.ctx)
    BY <1>4 DEF Applied
  <2>. QED  BY <1>1, <2>1, <2>2 DEF AddGenfscon
<1>. QED  BY <1>1, <1>2, <1>3, <1>4

\* What is allowed stays allowed by every call but a deny.
LEMMA AllowKept ==
    ASSUME NEW db, IsPolicy(db), NEW st, st.op \in CallOps, st.op # "deny",
           NEW x, NEW y, NEW c, NEW p, Allowed(db, x, y, c, p)
    PROVE  Allowed(Applied(db, st), x, y, c, p)
<1>. DEFINE new == Applied(db, st)
            k == <<x, y, c, "allowed">>
<1>1. IsRecord(db) /\ AvOK(db)
  BY DEF IsPolicy, IsRecord, AvOK
<1>2. k \in DOMAIN db.av /\ p \in db.av[k]
  BY DEF Allowed, At
<1>3. CASE st.op \notin AvOps
  <2>1. new.av = db.av
    BY <1>1, <1>3, CallFrame
  <2>. QED  BY <2>1 DEF Allowed
<1>4. CASE st.op \in {"auditallow", "dontaudit"}
  <2>1. PICK effect, invert : /\ new = AddRule(db, st.s, st.t, st.c, st.p, effect, invert)
                              /\ effect # "allowed"
    <3>1. CASE st.op = "auditallow"
      <4>1. PICK effect, invert : effect = "auditallow" /\ invert = FALSE
        OBVIOUS
      <4>2. new = AddRule(db, st.s, st.t, st.c, st.p, effect, invert) /\ effect # "allowed"
        BY <3>1, <4>1 DEF Applied
      <4>. HIDE DEF new
      <4>. QED  BY <4>2
    <3>2. CASE st.op = "dontaudit"
      <4>1. PICK effect, invert : effect = "auditdeny" /\ invert = TRUE
        OBVIOUS
      <4>2. new = AddRule(db, st.s, st.t, st.c, st.p, effect, invert) /\ effect # "allowed"
        BY <3>2, <4>1 DEF Applied
      <4>. HIDE DEF new
      <4>. QED  BY <4>2
    <3>. QED  BY <1>4, <3>1, <3>2
  <2>2. CASE ~Known(db, st.s, st.t, st.c, st.p)
    BY <2>1, <2>2 DEF AddRule
  <2>3. CASE Known(db, st.s, st.t, st.c, st.p)
    <3>1. k \notin RuleKeys(db, st.s, st.t, st.c, effect, invert)
      BY <2>1 DEF RuleKeys
    <3>2. k \in DOMAIN new.av /\ new.av[k] = db.av[k]
      BY <1>1, <1>2, <2>1, <2>3, <3>1, AddRuleEffect
    <3>. QED  BY <1>2, <3>2 DEF Allowed, At
  <2>. QED  BY <2>2, <2>3
<1>5. CASE st.op = "allow"
  <2>0. PICK effect, invert : effect = "allowed" /\ invert = FALSE
    OBVIOUS
  <2>1. new = AddRule(db, st.s, st.t, st.c, st.p, effect, invert)
    BY <1>5, <2>0 DEF Applied
  <2>2. CASE ~Known(db, st.s, st.t, st.c, st.p)
    BY <2>1, <2>2 DEF AddRule
  <2>3. CASE Known(db, st.s, st.t, st.c, st.p)
    <3>. DEFINE keys == RuleKeys(db, st.s, st.t, st.c, effect, invert)
                datum == NewDatum(At(db.av, k, Redundant(effect)), st.p, invert)
    <3>1. CASE k \notin keys
      <4>1. k \in DOMAIN new.av /\ new.av[k] = db.av[k]
        BY <1>1, <1>2, <2>1, <2>3, <3>1, AddRuleEffect
      <4>. QED  BY <1>2, <4>1 DEF Allowed, At
    <3>2. CASE k \in keys
      <4>1. p \in datum
        BY <1>1, <1>2, <2>0 DEF NewDatum, At, AvOK
      <4>2. datum # Redundant(effect)
        BY <2>0, <4>1 DEF Redundant
      <4>3. k \in DOMAIN new.av /\ new.av[k] = datum
        BY <1>1, <2>1, <2>3, <3>2, <4>2, AddRuleEffect
      <4>. QED  BY <4>1, <4>3 DEF Allowed, At
    <3>. QED  BY <3>1, <3>2
  <2>. QED  BY <2>2, <2>3
<1>. QED  BY <1>3, <1>4, <1>5 DEF AvOps

\* An allow that is accepted allows all it stands for.
LEMMA AllowDone ==
    ASSUME NEW db, IsPolicy(db), NEW st, st.op = "allow", Accepted(db, st),
           NEW x \in Names(db, st.s), NEW y \in Names(db, st.t), NEW c \in ClassesOf(st.c),
           NEW p \in PermsOf(st.p)
    PROVE  Allowed(Applied(db, st), x, y, c, p)
<1>0. PICK effect, invert : effect = "allowed" /\ invert = FALSE
  OBVIOUS
<1>. DEFINE new == Applied(db, st)
            k == <<x, y, c, "allowed">>
            datum == NewDatum(At(db.av, k, Redundant(effect)), st.p, invert)
<1>1. IsRecord(db)
  BY DEF IsPolicy, IsRecord
<1>2. Known(db, st.s, st.t, st.c, st.p)
  BY DEF Accepted
<1>3. new = AddRule(db, st.s, st.t, st.c, st.p, effect, invert)
  BY <1>0 DEF Applied
<1>4. \A n : Matching(db, n, effect, invert) = Names(db, n)
  BY <1>0 DEF Matching, StripAv, Names
<1>5. k \in RuleKeys(db, st.s, st.t, st.c, effect, invert)
  BY <1>0, <1>4 DEF RuleKeys, ClassesOf
<1>6. p \in datum
  BY <1>0 DEF NewDatum, PermsOf
<1>7. datum # Redundant(effect)
  BY <1>0, <1>6 DEF Redundant
<1>8. k \in DOMAIN new.av /\ new.av[k] = datum
  BY <1>1, <1>2, <1>3, <1>5, <1>7, AddRuleEffect
<1>. QED  BY <1>6, <1>8 DEF Allowed, At

\* The bits of a range of ioctl commands, where the range is stored.
Ranged(db, x, y, c, st) ==
    LET k == <<x, y, c, "xperms_allowed", XNode(st.low, st.high)>>
    IN  k \in DOMAIN db.xperm /\ db.xperm[k] = XBits(st.low, st.high)

\* An allowxperm that is accepted stores its range for all it stands for.
LEMMA RangeDone ==
    ASSUME NEW db, IsPolicy(db), NEW st, st.op = "allowxperm", Accepted(db, st),
           NEW x \in Names(db, st.s), NEW y \in Names(db, st.t), NEW c \in ClassesOf(st.c)
    PROVE  Ranged(Applied(db, st), x, y, c, st)
<1>1. IsRecord(db)
  BY DEF IsPolicy, IsRecord
<1>2. Known(db, st.s, st.t, st.c, ALL)
  BY DEF Accepted
<1>3. Applied(db, st) = AddXperm(db, st.s, st.t, st.c, st.low, st.high, "xperms_allowed")
  BY DEF Applied
<1>. DEFINE node == XNode(st.low, st.high)
            bits == XBits(st.low, st.high)
            k == <<x, y, c, "xperms_allowed", node>>
            keys == {<<u, v, z, "xperms_allowed", node>> :
                        u \in IF st.s = ALL THEN db.attrs ELSE {st.s},
                        v \in IF st.t = ALL THEN db.attrs ELSE {st.t}, z \in IF st.c = ALL THEN Classes ELSE {st.c}}
            table == [j \in DOMAIN db.xperm \cup keys |-> IF j \in keys THEN bits ELSE db.xperm[j]]
<1>. HIDE DEF node, bits
<1>4. AddXperm(db, st.s, st.t, st.c, st.low, st.high, "xperms_allowed").xperm = table
  BY <1>1, <1>2 DEF AddXperm, IsRecord, node, bits
<1>5. k \in keys
  BY DEF Names, ClassesOf
<1>. HIDE DEF keys
<1>6. k \in DOMAIN table /\ table[k] = bits
  BY <1>5
<1>. QED  BY <1>3, <1>4, <1>6 DEF Ranged, node, bits

\* Ranges of different nodes have different keys.
LEMMA NodesDiffer ==
    ASSUME NEW u, NEW st, ~SameNode(u, st)
    PROVE  XNode(u.low, u.high) # XNode(st.low, st.high)
<1>1. CASE Spans(u) # Spans(st)
  <2>1. XNode(u.low, u.high).kind # XNode(st.low, st.high).kind
    BY <1>1 DEF XNode, Spans
  <2>. QED  BY <2>1
<1>2. CASE ~Spans(u) /\ ~Spans(st) /\ u.low.driver # st.low.driver
  <2>1. XNode(u.low, u.high).driver # XNode(st.low, st.high).driver
    BY <1>2 DEF XNode, Spans
  <2>. QED  BY <2>1
<1>. QED  BY <1>1, <1>2 DEF SameNode, Spans

\* A range stays until a call for the same node.
LEMMA RangeKept ==
    ASSUME NEW db, IsPolicy(db), NEW u, u.op \in CallOps, NEW st,
           u.op = "allowxperm" => ~SameNode(u, st),
           NEW x, NEW y, NEW c, Ranged(db, x, y, c, st)
    PROVE  Ranged(Applied(db, u), x, y, c, st)
<1>1. IsRecord(db)
  BY DEF IsPolicy, IsRecord
<1>2. CASE u.op \notin XpermOps
  <2>1. Applied(db, u).xperm = db.xperm
    BY <1>1, <1>2, CallFrame
  <2>. QED  BY <2>1 DEF Ranged
<1>3. CASE u.op \in XpermOps
  <2>1. PICK effect : /\ Applied(db, u) = AddXperm(db, u.s, u.t, u.c, u.low, u.high, effect)
                      /\ u.op # "allowxperm" => effect # "xperms_allowed"
    <3>. DEFINE new == Applied(db, u)
                put(effect) == AddXperm(db, u.s, u.t, u.c, u.low, u.high, effect)
    <3>1. u.op = "allowxperm" => new = put("xperms_allowed")
      BY DEF Applied
    <3>2. u.op = "auditallowxperm" => new = put("xperms_auditallow")
      BY DEF Applied
    <3>3. u.op = "dontauditxperm" => new = put("xperms_dontaudit")
      BY DEF Applied
    <3>. HIDE DEF new, put
    <3>4. \E effect : new = put(effect) /\ (u.op # "allowxperm" => effect # "xperms_allowed")
      BY <1>3, <3>1, <3>2, <3>3 DEF XpermOps
    <3>. QED  BY <3>4 DEF new, put
  <2>2. CASE ~Known(db, u.s, u.t, u.c, ALL)
    BY <2>1, <2>2 DEF AddXperm
  <2>3. CASE Known(db, u.s, u.t, u.c, ALL)
    <3>. DEFINE node == XNode(u.low, u.high)
                bits == XBits(u.low, u.high)
                k == <<x, y, c, "xperms_allowed", XNode(st.low, st.high)>>
                keys == {<<v, w, z, effect, node>> :
                            v \in IF u.s = ALL THEN db.attrs ELSE {u.s},
                            w \in IF u.t = ALL THEN db.attrs ELSE {u.t}, z \in IF u.c = ALL THEN Classes ELSE {u.c}}
                table == [j \in DOMAIN db.xperm \cup keys |-> IF j \in keys THEN bits ELSE db.xperm[j]]
    <3>1. AddXperm(db, u.s, u.t, u.c, u.low, u.high, effect).xperm = table
      BY <1>1, <2>3 DEF AddXperm, IsRecord
    <3>2. node # XNode(st.low, st.high) \/ effect # "xperms_allowed"
      BY <2>1, NodesDiffer
    <3>. HIDE DEF node, bits
    <3>3. k \notin keys
      BY <3>2
    <3>. HIDE DEF keys
    <3>4. k \in DOMAIN db.xperm => k \in DOMAIN table /\ table[k] = db.xperm[k]
      BY <3>3
    <3>. HIDE DEF table
    <3>5. k \in DOMAIN db.xperm /\ db.xperm[k] = XBits(st.low, st.high)
      BY DEF Ranged
    <3>. QED  BY <2>1, <3>1, <3>4, <3>5 DEF Ranged
  <2>. QED  BY <2>2, <2>3
<1>. QED  BY <1>2, <1>3

(***************************************************************************)
(* The rules of Magisk                                                     *)
(***************************************************************************)

\* A call that does not allow security to others than magisk.
LoadsNothing(st) == st.op = "allow" => st.s = PROC \/ st.c \notin {"security", ALL}

\* Such a call makes nobody but magisk a loader of policies.
LEMMA NoNewLoader ==
    ASSUME NEW db, IsPolicy(db), NEW st, st.op \in CallOps, LoadsNothing(st),
           NEW k \in DOMAIN Applied(db, st).av, LoadsPolicy(Applied(db, st), k)
    PROVE  k[1] = PROC \/ (k \in DOMAIN db.av /\ LoadsPolicy(db, k))
<1>. DEFINE new == Applied(db, st)
<1>1. IsRecord(db) /\ AvOK(db)
  BY DEF IsPolicy, IsRecord, AvOK
<1>2. CASE st.op \notin AvOps
  <2>1. new.av = db.av
    BY <1>1, <1>2, CallFrame
  <2>. QED  BY <2>1 DEF LoadsPolicy
<1>3. CASE st.op \in AvOps
  <2>1. PICK effect, invert : /\ new = AddRule(db, st.s, st.t, st.c, st.p, effect, invert)
                              /\ effect = "allowed" => (invert = TRUE /\ st.op = "deny") \/ (invert = FALSE /\ st.op = "allow")
    <3>1. CASE st.op = "allow"
      <4>1. PICK effect, invert : effect = "allowed" /\ invert = FALSE
        OBVIOUS
      <4>2. new = AddRule(db, st.s, st.t, st.c, st.p, effect, invert)
        BY <3>1, <4>1 DEF Applied
      <4>. HIDE DEF new
      <4>. QED  BY <3>1, <4>1, <4>2
    <3>2. CASE st.op = "deny"
      <4>1. PICK effect, invert : effect = "allowed" /\ invert = TRUE
        OBVIOUS
      <4>2. new = AddRule(db, st.s, st.t, st.c, st.p, effect, invert)
        BY <3>2, <4>1 DEF Applied
      <4>. HIDE DEF new
      <4>. QED  BY <3>2, <4>1, <4>2
    <3>3. CASE st.op = "auditallow"
      <4>1. PICK effect, invert : effect = "auditallow" /\ invert = FALSE
        OBVIOUS
      <4>2. new = AddRule(db, st.s, st.t, st.c, st.p, effect, invert) /\ effect # "allowed"
        BY <3>3, <4>1 DEF Applied
      <4>. HIDE DEF new
      <4>. QED  BY <4>2
    <3>4. CASE st.op = "dontaudit"
      <4>1. PICK effect, invert : effect = "auditdeny" /\ invert = TRUE
        OBVIOUS
      <4>2. new = AddRule(db, st.s, st.t, st.c, st.p, effect, invert) /\ effect # "allowed"
        BY <3>4, <4>1 DEF Applied
      <4>. HIDE DEF new
      <4>. QED  BY <4>2
    <3>. QED  BY <1>3, <3>1, <3>2, <3>3, <3>4 DEF AvOps
  <2>. DEFINE keys == RuleKeys(db, st.s, st.t, st.c, effect, invert)
              datum == NewDatum(At(db.av, k, Redundant(effect)), st.p, invert)
  <2>2. CASE ~Known(db, st.s, st.t, st.c, st.p)
    <3>1. new = db
      BY <2>1, <2>2 DEF AddRule
    <3>. QED  BY <3>1
  <2>3. CASE Known(db, st.s, st.t, st.c, st.p) /\ k \notin keys
    <3>1. k \in DOMAIN db.av /\ new.av[k] = db.av[k]
      BY <1>1, <2>1, <2>3, AddRuleEffect
    <3>. QED  BY <3>1 DEF LoadsPolicy
  <2>4. CASE Known(db, st.s, st.t, st.c, st.p) /\ k \in keys
    <3>1. new.av[k] = datum
      BY <1>1, <2>1, <2>4, AddRuleEffect
    <3>2. PICK x \in Matching(db, st.s, effect, invert), y \in Matching(db, st.t, effect, invert),
               z \in IF st.c = ALL THEN Classes ELSE {st.c} : k = <<x, y, z, effect>>
      BY <2>4 DEF RuleKeys
    <3>3. k[1] = x /\ k[3] = z /\ k[4] = effect
      BY <3>2
    <3>4. effect = "allowed" /\ z = "security" /\ "load_policy" \in datum
      BY <3>1, <3>3 DEF LoadsPolicy
    <3>5. CASE invert = FALSE /\ st.op = "allow"
      <4>1. st.c \in {"security", ALL}
        BY <3>2, <3>4
      <4>2. st.s = PROC
        BY <3>5, <4>1 DEF LoadsNothing
      <4>3. x = PROC
        BY <3>2, <4>2 DEF Matching, PROC, ALL
      <4>. QED  BY <3>3, <4>3
    <3>6. CASE invert = TRUE /\ st.op = "deny"
      <4>1. "load_policy" \in At(db.av, k, {})
        BY <3>4, <3>6 DEF NewDatum, Redundant
      <4>2. k \in DOMAIN db.av /\ "load_policy" \in db.av[k]
        BY <4>1 DEF At
      <4>. QED  BY <3>3, <3>4, <4>2 DEF LoadsPolicy
    <3>. QED  BY <2>1, <3>4, <3>5, <3>6
  <2>. QED  BY <2>2, <2>3, <2>4
<1>. QED  BY <1>2, <1>3

\* The first rule of Magisk takes load_policy from everybody.
LEMMA LoadersDenied ==
    ASSUME NEW db \in StockPolicies, NEW st,
           st.op = "deny" /\ st.s = ALL /\ st.t = "kernel" /\ st.c = "security" /\ st.p = "load_policy",
           NEW k \in DOMAIN Applied(db, st).av
    PROVE  ~LoadsPolicy(Applied(db, st), k)
<1>. DEFINE new == Applied(db, st)
<1>1. /\ IsPolicy(db) /\ "kernel" \in db.types
      /\ \A j \in DOMAIN db.av : LoadsPolicy(db, j) => j[2] = "kernel"
  BY StockAssumption
<1>2. IsRecord(db) /\ AvOK(db)
  BY <1>1 DEF IsPolicy, IsRecord, AvOK
<1>3. PICK effect, invert : effect = "allowed" /\ invert = TRUE
  OBVIOUS
<1>4. new = AddRule(db, st.s, st.t, st.c, st.p, effect, invert)
  BY <1>3 DEF Applied
<1>5. Known(db, st.s, st.t, st.c, st.p)
  BY <1>1, ClassAssumption DEF Known, AllNames, ALL
<1>. DEFINE keys == RuleKeys(db, st.s, st.t, st.c, effect, invert)
            datum == NewDatum(At(db.av, k, Redundant(effect)), st.p, invert)
<1>6. CASE k \in keys
  <2>1. new.av[k] = datum
    BY <1>2, <1>4, <1>5, <1>6, AddRuleEffect
  <2>2. "load_policy" \notin datum
    BY <1>3 DEF NewDatum, ALL
  <2>. QED  BY <2>1, <2>2 DEF LoadsPolicy
<1>7. CASE k \notin keys
  <2>1. k \in DOMAIN db.av /\ new.av[k] = db.av[k]
    BY <1>2, <1>4, <1>5, <1>7, AddRuleEffect
  <2>2. k = <<k[1], k[2], k[3], k[4]>> /\ k[1] \in AllNames(db)
    BY <1>2, <2>1 DEF AvOK
  <2>3. Matching(db, st.s, effect, invert) = AllNames(db) /\ Matching(db, st.t, effect, invert) = {"kernel"}
    BY <1>3 DEF Matching, StripAv, ALL
  <2>4. ASSUME LoadsPolicy(new, k) PROVE FALSE
    <3>1. k[3] = "security" /\ k[4] = "allowed" /\ LoadsPolicy(db, k)
      BY <2>1, <2>4 DEF LoadsPolicy
    <3>2. k[2] = "kernel"
      BY <1>1, <2>1, <3>1
    <3>3. k = <<k[1], "kernel", "security", effect>>
      BY <1>3, <2>2, <3>1, <3>2
    <3>4. "security" \in IF st.c = ALL THEN Classes ELSE {st.c}
      BY DEF ALL
    <3>. QED  BY <1>7, <2>2, <2>3, <3>3, <3>4 DEF RuleKeys
  <2>. QED  BY <2>4
<1>. QED  BY <1>6, <1>7

\* No denied access of the attribute a to the socket is audited.
Quiet(db, a) ==
    LET k == <<a, PROC, SOCKET, "auditdeny">>
    IN  k \in DOMAIN db.av /\ db.av[k] = {}

\* Only dontaudit changes what is audited.
LEMMA QuietKept ==
    ASSUME NEW db, IsPolicy(db), NEW st, st.op \in CallOps \ {"dontaudit"}, NEW a, Quiet(db, a)
    PROVE  Quiet(Applied(db, st), a)
<1>. DEFINE new == Applied(db, st)
            k == <<a, PROC, SOCKET, "auditdeny">>
<1>1. IsRecord(db)
  BY DEF IsPolicy, IsRecord
<1>2. CASE st.op \notin AvOps
  <2>1. new.av = db.av
    BY <1>1, <1>2, CallFrame
  <2>. QED  BY <2>1 DEF Quiet
<1>3. CASE st.op \in AvOps
  <2>1. PICK effect, invert : /\ new = AddRule(db, st.s, st.t, st.c, st.p, effect, invert)
                              /\ effect # "auditdeny"
    <3>1. CASE st.op = "auditallow"
      <4>1. PICK effect, invert : effect = "auditallow" /\ invert = FALSE
        OBVIOUS
      <4>2. new = AddRule(db, st.s, st.t, st.c, st.p, effect, invert) /\ effect # "auditdeny"
        BY <3>1, <4>1 DEF Applied
      <4>. HIDE DEF new
      <4>. QED  BY <4>2
    <3>2. CASE st.op \in {"allow", "deny"}
      <4>1. PICK effect, invert : effect = "allowed" /\ invert = (st.op = "deny")
        OBVIOUS
      <4>2. new = AddRule(db, st.s, st.t, st.c, st.p, effect, invert) /\ effect # "auditdeny"
        <5>1. CASE st.op = "allow"
          <6>1. invert = FALSE
            BY <4>1, <5>1
          <6>. QED  BY <4>1, <5>1, <6>1 DEF Applied
        <5>2. CASE st.op = "deny"
          <6>1. invert = TRUE
            BY <4>1, <5>2
          <6>. QED  BY <4>1, <5>2, <6>1 DEF Applied
        <5>. QED  BY <3>2, <5>1, <5>2
      <4>. HIDE DEF new
      <4>. QED  BY <4>2
    <3>. QED  BY <1>3, <3>1, <3>2 DEF AvOps
  <2>2. CASE ~Known(db, st.s, st.t, st.c, st.p)
    <3>1. new = db
      BY <2>1, <2>2 DEF AddRule
    <3>. QED  BY <3>1
  <2>3. CASE Known(db, st.s, st.t, st.c, st.p)
    <3>1. k \notin RuleKeys(db, st.s, st.t, st.c, effect, invert)
      BY <2>1 DEF RuleKeys
    <3>2. k \in DOMAIN db.av /\ db.av[k] = {}
      BY DEF Quiet
    <3>3. k \in DOMAIN new.av /\ new.av[k] = db.av[k]
      BY <1>1, <2>1, <2>3, <3>1, <3>2, AddRuleEffect
    <3>. HIDE DEF new
    <3>4. Quiet(new, a)
      BY <3>2, <3>3 DEF Quiet
    <3>. QED  BY <3>4 DEF new
  <2>. QED  BY <2>2, <2>3
<1>. QED  BY <1>2, <1>3

\* The dontaudit rule of the new API levels is stored for every attribute.
LEMMA QuietDone ==
    ASSUME NEW db, IsPolicy(db), PROC \in AllNames(db), NEW st,
           st.op = "dontaudit" /\ st.s = ALL /\ st.t = PROC /\ st.c = SOCKET /\ st.p = ALL,
           NEW a \in db.attrs
    PROVE  Quiet(Applied(db, st), a)
<1>. DEFINE new == Applied(db, st)
            k == <<a, PROC, SOCKET, "auditdeny">>
<1>1. IsRecord(db)
  BY DEF IsPolicy, IsRecord
<1>3. PICK effect, invert : effect = "auditdeny" /\ invert = TRUE
  OBVIOUS
<1>4. new = AddRule(db, st.s, st.t, st.c, st.p, effect, invert)
  BY <1>3 DEF Applied
<1>5. Known(db, st.s, st.t, st.c, st.p)
  BY ClassAssumption DEF Known, ALL
<1>6. Matching(db, st.s, effect, invert) = db.attrs /\ Matching(db, st.t, effect, invert) = {PROC}
  BY <1>3 DEF Matching, StripAv, ALL, PROC
<1>7. k \in RuleKeys(db, st.s, st.t, st.c, effect, invert)
  <2>1. SOCKET \in IF st.c = ALL THEN Classes ELSE {st.c}
    BY ClassAssumption
  <2>2. k = <<a, PROC, SOCKET, effect>>
    BY <1>3
  <2>3. a \in Matching(db, st.s, effect, invert) /\ PROC \in Matching(db, st.t, effect, invert)
    BY <1>6
  <2>. HIDE DEF k
  <2>4. \E x \in Matching(db, st.s, effect, invert), y \in Matching(db, st.t, effect, invert),
           z \in IF st.c = ALL THEN Classes ELSE {st.c} : k = <<x, y, z, effect>>
    BY ONLY <2>1, <2>2, <2>3
  <2>. QED  BY ONLY <2>4 DEF RuleKeys
<1>. DEFINE datum == NewDatum(At(db.av, k, Redundant(effect)), st.p, invert)
<1>8. datum = {}
  BY <1>3 DEF NewDatum
<1>9. datum # Redundant(effect)
  BY <1>3, <1>8, ClassAssumption DEF Redundant
<1>10. k \in DOMAIN new.av /\ new.av[k] = datum
  BY <1>1, <1>4, <1>5, <1>7, <1>9, AddRuleEffect
<1>. QED  BY <1>8, <1>10 DEF Quiet

\* What every call of magisk_rules has in common.
RuleOK(st) ==
    /\ st.op \in CallOps \ {"genfscon"} /\ LoadsNothing(st)
    /\ st.op = "type" => st.s # "untrusted_app_25"
    /\ st.op = "permissive" => st.s \in {PROC, UPDATE}

\* The calls that come first, by their number.
LEMMA FirstRulesOK ==
    /\ Len(FirstRules) = 7
    /\ \A i \in 1 .. 7 : RuleOK(FirstRules[i])
    /\ LET d == FirstRules[1]
       IN  d.op = "deny" /\ d.s = ALL /\ d.t = "kernel" /\ d.c = "security" /\ d.p = "load_policy"
    /\ FirstRules[2].op = "type" /\ FirstRules[2].s = PROC
<1>1. Len(FirstRules) = 7
  BY DEF FirstRules
<1>2. RuleOK(FirstRules[1])
  BY DEF FirstRules, RuleOK, CallOps, LoadsNothing
<1>3. RuleOK(FirstRules[2])
  BY DEF FirstRules, RuleOK, CallOps, LoadsNothing, PROC
<1>4. RuleOK(FirstRules[3])
  BY DEF FirstRules, RuleOK, CallOps, LoadsNothing
<1>5. RuleOK(FirstRules[4])
  BY DEF FirstRules, RuleOK, CallOps, LoadsNothing, FILE
<1>6. RuleOK(FirstRules[5])
  BY DEF FirstRules, RuleOK, CallOps, LoadsNothing, Allow
<1>7. RuleOK(FirstRules[6])
  BY DEF FirstRules, RuleOK, CallOps, LoadsNothing
<1>8. RuleOK(FirstRules[7])
  BY DEF FirstRules, RuleOK, CallOps, LoadsNothing, Allow, ALL
<1>9. \A i \in 1 .. 7 : i = 1 \/ i = 2 \/ i = 3 \/ i = 4 \/ i = 5 \/ i = 6 \/ i = 7
  OBVIOUS
<1>10. \A i \in 1 .. 7 : RuleOK(FirstRules[i])
  BY <1>2, <1>3, <1>4, <1>5, <1>6, <1>7, <1>8, <1>9
<1>11. LET d == FirstRules[1]
       IN  d.op = "deny" /\ d.s = ALL /\ d.t = "kernel" /\ d.c = "security" /\ d.p = "load_policy"
  BY DEF FirstRules
<1>12. FirstRules[2].op = "type" /\ FirstRules[2].s = PROC
  BY DEF FirstRules
<1>. QED  BY <1>1, <1>10, <1>11, <1>12

\* The calls for API 26 and up: the fifth silences the socket.
LEMMA ClientRulesOK ==
    /\ Len(ClientRules) = 7
    /\ \A i \in 1 .. 7 : RuleOK(ClientRules[i]) /\ (i > 5 => ClientRules[i].op = "allow")
    /\ LET d == ClientRules[5]
       IN  d.op = "dontaudit" /\ d.s = ALL /\ d.t = PROC /\ d.c = SOCKET /\ d.p = ALL
<1>1. Len(ClientRules) = 7
  BY DEF ClientRules
<1>2. RuleOK(ClientRules[1])
  BY DEF ClientRules, RuleOK, CallOps, LoadsNothing, CLIENT
<1>3. RuleOK(ClientRules[2])
  BY DEF ClientRules, RuleOK, CallOps, LoadsNothing
<1>4. RuleOK(ClientRules[3])
  BY DEF ClientRules, RuleOK, CallOps, LoadsNothing, Allow, ALL
<1>5. RuleOK(ClientRules[4])
  BY DEF ClientRules, RuleOK, CallOps, LoadsNothing, Allow, ALL
<1>6. RuleOK(ClientRules[5])
  BY DEF ClientRules, RuleOK, CallOps, LoadsNothing
<1>7. RuleOK(ClientRules[6]) /\ ClientRules[6].op = "allow"
  BY DEF ClientRules, RuleOK, CallOps, LoadsNothing, Allow, ALL, SOCKET
<1>8. RuleOK(ClientRules[7]) /\ ClientRules[7].op = "allow"
  BY DEF ClientRules, RuleOK, CallOps, LoadsNothing, Allow, ALL, SOCKET
<1>9. \A i \in 1 .. 7 : i = 1 \/ i = 2 \/ i = 3 \/ i = 4 \/ i = 5 \/ i = 6 \/ i = 7
  OBVIOUS
<1>10. \A i \in 1 .. 7 : RuleOK(ClientRules[i]) /\ (i > 5 => ClientRules[i].op = "allow")
  BY <1>2, <1>3, <1>4, <1>5, <1>6, <1>7, <1>8, <1>9
<1>11. LET d == ClientRules[5]
       IN  d.op = "dontaudit" /\ d.s = ALL /\ d.t = PROC /\ d.c = SOCKET /\ d.p = ALL
  BY DEF ClientRules
<1>. QED  BY <1>1, <1>10, <1>11

\* The calls below API 26, and the ones every device gets last.
LEMMA OtherRulesOK ==
    /\ Len(FallbackRules) = 3 /\ \A i \in 1 .. 3 : RuleOK(FallbackRules[i])
    /\ Len(CommonRules) = 5 /\ \A i \in 1 .. 5 : RuleOK(CommonRules[i]) /\ CommonRules[i].op # "dontaudit"
<1>1. Len(FallbackRules) = 3 /\ \A i \in 1 .. 3 : RuleOK(FallbackRules[i])
  <2>1. Len(FallbackRules) = 3
    BY DEF FallbackRules
  <2>2. \A i \in 1 .. 3 : FallbackRules[i] = Allow(<<"init", "appdomain", "zygote">>[i], PROC, SOCKET, "connectto")
    BY DEF FallbackRules
  <2>3. \A s : RuleOK(Allow(s, PROC, SOCKET, "connectto"))
    BY DEF RuleOK, CallOps, LoadsNothing, Allow, ALL, SOCKET
  <2>. QED  BY <2>1, <2>2, <2>3
<1>2. Len(CommonRules) = 5
  BY DEF CommonRules
<1>3. RuleOK(CommonRules[1]) /\ CommonRules[1].op # "dontaudit"
  BY DEF CommonRules, RuleOK, CallOps, LoadsNothing, Allow, ALL
<1>4. RuleOK(CommonRules[2]) /\ CommonRules[2].op # "dontaudit"
  BY DEF CommonRules, RuleOK, CallOps, LoadsNothing, Allow, ALL
<1>5. RuleOK(CommonRules[3]) /\ CommonRules[3].op # "dontaudit"
  BY DEF CommonRules, RuleOK, CallOps, LoadsNothing, Allow, ALL
<1>6. RuleOK(CommonRules[4]) /\ CommonRules[4].op # "dontaudit"
  BY DEF CommonRules, RuleOK, CallOps, LoadsNothing, Allow, ALL
<1>7. RuleOK(CommonRules[5]) /\ CommonRules[5].op # "dontaudit"
  BY DEF CommonRules, RuleOK, CallOps, LoadsNothing, ALL, UPDATE
<1>8. \A i \in 1 .. 5 : i = 1 \/ i = 2 \/ i = 3 \/ i = 4 \/ i = 5
  OBVIOUS
<1>9. \A i \in 1 .. 5 : RuleOK(CommonRules[i]) /\ CommonRules[i].op # "dontaudit"
  BY <1>3, <1>4, <1>5, <1>6, <1>7, <1>8
<1>. QED  BY <1>1, <1>2, <1>9

\* w is s with t behind it.
Joined(w, s, t) ==
    /\ Len(w) = Len(s) + Len(t)
    /\ \A i \in 1 .. Len(s) : w[i] = s[i]
    /\ \A i \in 1 .. Len(t) : w[Len(s) + i] = t[i]

\* w is s with t and u behind it.
AllJoined(w, s, t, u) ==
    /\ Len(w) = Len(s) + Len(t) + Len(u)
    /\ \A i \in 1 .. Len(s) : w[i] = s[i]
    /\ \A i \in 1 .. Len(t) : w[Len(s) + i] = t[i]
    /\ \A i \in 1 .. Len(u) : w[Len(s) + Len(t) + i] = u[i]

\* Two sequences after each other.
LEMMA Concatenated ==
    \A S : \A s, t \in Seq(S) : s \o t \in Seq(S) /\ Joined(s \o t, s, t)
  BY DEF Joined

\* Three sequences after each other.
LEMMA Concatenation ==
    ASSUME NEW S, NEW s, NEW t, NEW u, s \in Seq(S), t \in Seq(S), u \in Seq(S), NEW w, w = s \o t \o u
    PROVE  AllJoined(w, s, t, u)
<1>1. PICK v : v = s \o t
  OBVIOUS
<1>2. v \in Seq(S) /\ Joined(v, s, t)
  BY <1>1, Concatenated, Zenon
<1>3. Joined(w, v, u)
  BY <1>1, <1>2, Concatenated, Zenon
<1>4. Len(s) \in Nat /\ Len(t) \in Nat /\ Len(u) \in Nat
  OBVIOUS
<1>5. Len(v) = Len(s) + Len(t) /\ Len(w) = Len(v) + Len(u)
  BY <1>2, <1>3 DEF Joined
<1>6. ASSUME NEW i \in 1 .. Len(s) PROVE w[i] = s[i]
  <2>1. i \in 1 .. Len(v)
    BY <1>4, <1>5
  <2>. QED  BY <1>2, <1>3, <2>1 DEF Joined
<1>7. ASSUME NEW i \in 1 .. Len(t) PROVE w[Len(s) + i] = t[i]
  <2>1. Len(s) + i \in 1 .. Len(v)
    BY <1>4, <1>5
  <2>. QED  BY <1>2, <1>3, <2>1 DEF Joined
<1>. QED  BY <1>3, <1>4, <1>5, <1>6, <1>7 DEF Joined, AllJoined

\* The calls of magisk_rules: the first two, what all of them are, and on new
\* devices the twelfth, with no dontaudit behind it.
LEMMA RuleFacts ==
    ASSUME NEW db
    PROVE  LET ms == MagiskStatements(db)
           IN  /\ Len(ms) \in Nat /\ Len(ms) > 2
               /\ \A i \in 1 .. Len(ms) : RuleOK(ms[i])
               /\ ms[1].op = "deny" /\ ms[1].s = ALL /\ ms[1].t = "kernel" /\ ms[1].c = "security"
               /\ ms[1].p = "load_policy"
               /\ ms[2].op = "type" /\ ms[2].s = PROC
               /\ "untrusted_app_25" \in AllNames(db) =>
                    /\ Len(ms) = 19
                    /\ ms[12].op = "dontaudit" /\ ms[12].s = ALL /\ ms[12].t = PROC /\ ms[12].c = SOCKET
                    /\ ms[12].p = ALL
                    /\ \A i \in 13 .. 19 : ms[i].op # "dontaudit"
<1>. DEFINE ms == MagiskStatements(db)
            new == "untrusted_app_25" \in AllNames(db)
            mid == IF new THEN ClientRules ELSE FallbackRules
            S == {FirstRules[i] : i \in 1 .. 7} \cup {ClientRules[i] : i \in 1 .. 7}
                 \cup {FallbackRules[i] : i \in 1 .. 3} \cup {CommonRules[i] : i \in 1 .. 5}
<1>1. FirstRules \in Seq(S) /\ ClientRules \in Seq(S) /\ FallbackRules \in Seq(S) /\ CommonRules \in Seq(S)
  <2>1. FirstRules = [i \in 1 .. 7 |-> FirstRules[i]]
    BY DEF FirstRules
  <2>2. ClientRules = [i \in 1 .. 7 |-> ClientRules[i]]
    BY DEF ClientRules
  <2>3. FallbackRules = [i \in 1 .. 3 |-> FallbackRules[i]]
    BY DEF FallbackRules
  <2>4. CommonRules = [i \in 1 .. 5 |-> CommonRules[i]]
    BY DEF CommonRules
  <2>5. FirstRules \in [1 .. 7 -> S]
    BY <2>1
  <2>6. ClientRules \in [1 .. 7 -> S]
    BY <2>2
  <2>7. FallbackRules \in [1 .. 3 -> S]
    BY <2>3
  <2>8. CommonRules \in [1 .. 5 -> S]
    BY <2>4
  <2>9. \A n \in Nat : \A f \in [1 .. n -> S] : f \in Seq(S)
    OBVIOUS
  <2>. QED  BY <2>5, <2>6, <2>7, <2>8, <2>9
<1>. HIDE DEF S
<1>2. mid \in Seq(S) /\ Len(mid) = IF new THEN 7 ELSE 3
  BY <1>1, ClientRulesOK, OtherRulesOK
<1>3. \A i \in 1 .. Len(mid) : RuleOK(mid[i])
  BY <1>2, ClientRulesOK, OtherRulesOK
<1>4. ms = FirstRules \o mid \o CommonRules
  BY DEF MagiskStatements
<1>5. Len(FirstRules) = 7 /\ Len(CommonRules) = 5
  BY FirstRulesOK, OtherRulesOK
<1>6. new => mid = ClientRules
  OBVIOUS
<1>. HIDE DEF ms, mid, new
<1>7. /\ Len(ms) = 7 + Len(mid) + 5
      /\ \A i \in 1 .. 7 : ms[i] = FirstRules[i]
      /\ \A i \in 1 .. Len(mid) : ms[7 + i] = mid[i]
      /\ \A i \in 1 .. 5 : ms[7 + Len(mid) + i] = CommonRules[i]
  <2>1. FirstRules \in Seq(S) /\ mid \in Seq(S) /\ CommonRules \in Seq(S)
    BY <1>1, <1>2
  <2>2. AllJoined(ms, FirstRules, mid, CommonRules)
    BY ONLY <1>4, <2>1, Concatenation
  <2>. QED  BY ONLY <1>5, <2>2 DEF AllJoined
<1>8. ASSUME NEW i \in 1 .. Len(ms) PROVE RuleOK(ms[i])
  <2>1. Len(mid) \in Nat
    BY <1>2
  <2>2. CASE i \in 1 .. 7
    BY <1>7, <2>2, FirstRulesOK
  <2>3. CASE i > 7 /\ i - 7 \in 1 .. Len(mid)
    <3>1. ms[7 + (i - 7)] = mid[i - 7]
      BY <1>7, <2>3
    <3>2. 7 + (i - 7) = i
      BY <2>3
    <3>. QED  BY <1>3, <2>3, <3>1, <3>2
  <2>4. CASE i - (7 + Len(mid)) \in 1 .. 5
    <3>1. ms[7 + Len(mid) + (i - (7 + Len(mid)))] = CommonRules[i - (7 + Len(mid))]
      BY <1>7, <2>4
    <3>2. 7 + Len(mid) + (i - (7 + Len(mid))) = i
      BY <2>1
    <3>. QED  BY <2>4, <3>1, <3>2, OtherRulesOK
  <2>. QED  BY <1>7, <2>1, <2>2, <2>3, <2>4
<1>9. ms[1] = FirstRules[1] /\ ms[2] = FirstRules[2]
  BY <1>7
<1>10. ASSUME new
       PROVE  /\ Len(ms) = 19 /\ ms[12] = ClientRules[5]
              /\ \A i \in 13 .. 19 : ms[i].op # "dontaudit"
  <2>1. Len(mid) = 7 /\ mid = ClientRules
    BY <1>2, <1>6, <1>10
  <2>2. Len(ms) = 19
    BY <1>7, <2>1
  <2>3. ms[7 + 5] = mid[5] /\ 7 + 5 = 12
    BY <1>7, <2>1
  <2>4. ms[7 + 6] = ClientRules[6] /\ ms[7 + 7] = ClientRules[7]
    BY <1>7, <2>1
  <2>5. \A i \in 1 .. 5 : ms[14 + i] = CommonRules[i]
    BY <1>7, <2>1
  <2>6. ms[13].op # "dontaudit" /\ ms[14].op # "dontaudit"
    BY <2>4, ClientRulesOK
  <2>7. /\ ms[15].op # "dontaudit" /\ ms[16].op # "dontaudit" /\ ms[17].op # "dontaudit"
        /\ ms[18].op # "dontaudit" /\ ms[19].op # "dontaudit"
    <3>1. ms[14 + 1] = CommonRules[1] /\ ms[14 + 2] = CommonRules[2] /\ ms[14 + 3] = CommonRules[3]
          /\ ms[14 + 4] = CommonRules[4] /\ ms[14 + 5] = CommonRules[5]
      BY <2>5
    <3>. QED  BY <3>1, OtherRulesOK
  <2>8. \A i \in 13 .. 19 : i = 13 \/ i = 14 \/ i = 15 \/ i = 16 \/ i = 17 \/ i = 18 \/ i = 19
    OBVIOUS
  <2>. QED  BY <2>1, <2>2, <2>3, <2>6, <2>7, <2>8
<1>11. Len(ms) \in Nat /\ Len(ms) > 2
  BY <1>2, <1>7
<1>. QED  BY <1>8, <1>9, <1>10, <1>11, FirstRulesOK, ClientRulesOK DEF ms, new

(***************************************************************************)
(* The inductive invariant                                                 *)
(***************************************************************************)

\* What a call of a rule file has stored.
AllowStored(db, st) ==
    \A x \in Names(db, st.s), y \in Names(db, st.t), c \in ClassesOf(st.c), p \in PermsOf(st.p) :
        Allowed(db, x, y, c, p)
RangeStored(db, st) ==
    \A x \in Names(db, st.s), y \in Names(db, st.t), c \in ClassesOf(st.c) : Ranged(db, x, y, c, st)
ContextStored(db, st) ==
    /\ st.fs \in DOMAIN db.genfs
    /\ \E n \in DOMAIN db.genfs[st.fs] : db.genfs[st.fs][n] = [path |-> st.path, ctx |-> st.ctx]

Loaded == policyStep \notin {"idle", "noPolicy"}

PolicyType ==
    /\ policyRules \in Nat /\ policyTodo \in Seq(Calls) /\ policyDone \in Seq(Calls)
    /\ ~Loaded => policyTodo = <<>> /\ policyDone = <<>> /\ policyRules = 0
    /\ Loaded => IsPolicy(policy) /\ policyStock \in StockPolicies /\ policy.attrs = policyStock.attrs

\* Nothing has been changed before the first call.
FreshInv == Loaded /\ policyDone = <<>> /\ policyRules = 0 => policy = policyStock

\* After the first rule of Magisk only rules for magisk load policies.
LoadersInv ==
    policyRules > 0 /\ (\A i \in DOMAIN policyDone : policyDone[i].op # "allow") =>
        \A k \in DOMAIN policy.av : LoadsPolicy(policy, k) => k[1] = PROC

\* Only the rules of Magisk have made types permissive.
PermissiveInv ==
    Loaded /\ (\A i \in DOMAIN policyDone : policyDone[i].op # "permissive") =>
        policy.permissive \subseteq MadePermissive

\* The type magisk is there after the second, and the socket is silent after
\* the twelfth of a new device.
SilentInv ==
    Loaded /\ policyDone = <<>> =>
        /\ "untrusted_app_25" \in policy.types => "untrusted_app_25" \in policyStock.types
        /\ policyRules >= 2 => PROC \in AllNames(policy)
        /\ policyRules >= 12 /\ "untrusted_app_25" \in AllNames(policyStock) =>
            \A a \in policy.attrs : Quiet(policy, a)

AllowInv ==
    \A i \in DOMAIN policyDone :
        /\ policyDone[i].op = "allow"
        /\ \A j \in (i + 1) .. Len(policyDone) : policyDone[j].op # "deny"
        => AllowStored(policy, policyDone[i])

RangeInv ==
    \A i \in DOMAIN policyDone :
        /\ policyDone[i].op = "allowxperm"
        /\ \A j \in (i + 1) .. Len(policyDone) :
                policyDone[j].op = "allowxperm" => ~SameNode(policyDone[j], policyDone[i])
        => RangeStored(policy, policyDone[i])

\* A call gives a context to the path; a policy has one for it; the i-th call
\* of a history names a path that has one.
Gives(st, fs, path) == st.op = "genfscon" /\ st.fs = fs /\ st.path = path
HasPath(db, fs, path) == \E n \in DOMAIN ListOf(db, fs) : ListOf(db, fs)[n].path = path
NamesOld(stock, done, i) ==
    \/ HasPath(stock, done[i].fs, done[i].path)
    \/ \E j \in 1 .. (i - 1) : Gives(done[j], done[i].fs, done[i].path)

\* A path has a context from the stock policy or from a call.
PathInv ==
    \A fs \in DOMAIN policy.genfs : \A n \in DOMAIN policy.genfs[fs] :
        LET path == policy.genfs[fs][n].path
        IN  HasPath(policyStock, fs, path) \/ \E i \in DOMAIN policyDone : Gives(policyDone[i], fs, path)

ContextInv ==
    \A i \in DOMAIN policyDone :
        /\ policyDone[i].op = "genfscon"
        /\ \A j \in (i + 1) .. Len(policyDone) :
                policyDone[j].op = "genfscon" /\ policyDone[j].fs = policyDone[i].fs =>
                    ~NamesOld(policyStock, policyDone, j)
        => ContextStored(policy, policyDone[i])

PolicyInv ==
    /\ PolicyType /\ FreshInv /\ LoadersInv /\ PermissiveInv /\ SilentInv /\ AllowInv /\ RangeInv
    /\ (Loaded => PathInv) /\ ContextInv

\* A call of a rule file is one the parser makes.
LEMMA CallFacts ==
    ASSUME NEW st \in Calls
    PROVE  /\ st.op \in CallOps
           /\ st.op = "genfscon" => st.path \in STRING /\ st.ctx \in STRING
           /\ st.op = "allowxperm" => st.low.driver \in Nat /\ st.high.driver \in Nat
  BY StatementAssumption DEF CallOps

\* The list of calls a statement stands for.
LEMMA ExpandedTyped ==
    ASSUME NEW st \in Statements
    PROVE  Expanded(st) \in Seq(Calls)
<1>. DEFINE f == Expanded(st)
<1>1. \A i \in DOMAIN f : f[i] \in Calls
  BY DEF Calls
<1>2. \E n \in Nat : DOMAIN f = 1 .. n /\ f = [i \in 1 .. n |-> f[i]]
  <2>1. CASE "list" \notin DOMAIN st
    BY <2>1 DEF Expanded
  <2>2. CASE "list" \in DOMAIN st
    <3>1. st.list \in Seq(STRING)
      BY <2>2, StatementAssumption
    <3>2. DOMAIN st.list = 1 .. Len(st.list) /\ Len(st.list) \in Nat
      BY <3>1
    <3>. QED  BY <2>2, <3>2 DEF Expanded
  <2>. QED  BY <2>1, <2>2
<1>. HIDE DEF f
<1>3. f \in Seq(Calls)
  BY <1>1, <1>2
<1>. QED  BY <1>3 DEF f

\* A step of run_fn: a call that is accepted joins the history, and another
\* one changes nothing.
LEMMA RunFnStep ==
    ASSUME PolicyType, RunFn
    PROVE  /\ Loaded /\ IsPolicy(policy) /\ Head(policyTodo) \in Calls
           /\ policy' = Applied(policy, Head(policyTodo))
           /\ UNCHANGED <<policyRules, policyStock, policyStep>> /\ policyTodo' \in Seq(Calls)
           /\ \/ policyDone' = Append(policyDone, Head(policyTodo)) /\ Accepted(policy, Head(policyTodo))
              \/ policyDone' = policyDone /\ policy' = policy
<1>1. Head(policyTodo) \in Calls /\ Tail(policyTodo) \in Seq(Calls)
  BY DEF PolicyType, RunFn
<1>2. Loaded /\ IsPolicy(policy)
  BY DEF PolicyType, RunFn
<1>3. \/ policyDone' = Append(policyDone, Head(policyTodo)) /\ Accepted(policy, Head(policyTodo))
      \/ policyDone' = policyDone /\ policy' = policy
  <2>1. CASE Accepted(policy, Head(policyTodo))
    BY <2>1 DEF RunFn
  <2>2. CASE ~Accepted(policy, Head(policyTodo))
    BY <2>2, RefusedCall DEF RunFn
  <2>. QED  BY <2>1, <2>2
<1>. QED  BY <1>1, <1>2, <1>3 DEF RunFn

\* The next call of magisk_rules.
LEMMA MagiskRulesStep ==
    ASSUME PolicyType, MagiskRules
    PROVE  /\ Loaded /\ IsPolicy(policy) /\ policyDone = <<>> /\ policyDone' = <<>>
           /\ policyRules + 1 \in 1 .. Len(Rules) /\ RuleOK(Rules[policyRules + 1])
           /\ policy' = Applied(policy, Rules[policyRules + 1]) /\ policyRules' = policyRules + 1
           /\ UNCHANGED <<policyTodo, policyStock, policyStep>>
<1>1. Len(Rules) \in Nat /\ \A i \in 1 .. Len(Rules) : RuleOK(Rules[i])
  BY RuleFacts DEF Rules
<1>2. policyRules + 1 \in 1 .. Len(Rules)
  BY <1>1 DEF PolicyType, MagiskRules, RulesLeft
<1>. QED  BY <1>1, <1>2 DEF PolicyType, MagiskRules, Loaded

\* A step that makes no call.
Idle ==
    /\ UNCHANGED <<policy, policyRules, policyDone, policyStock>> /\ (Loaded <=> Loaded')

\* Failing, parsing, saving and stuttering make none.
LEMMA IdleStep ==
    ASSUME LoadFails \/ ParseStatement \/ SavePolicy \/ UNCHANGED policyVars
    PROVE  Idle
  BY DEF Idle, Loaded, LoadFails, ParseStatement, SavePolicy, Ready, policyVars

\* The invariant holds initially.
LEMMA PolicyInitial ==
    ASSUME PolicyInit
    PROVE  PolicyInv
<1>1. PolicyType
  BY DEF PolicyInit, PolicyType, Loaded
<1>2. DOMAIN policyDone = {}
  BY DEF PolicyInit
<1>3. FreshInv /\ SilentInv /\ ~Loaded /\ LoadersInv /\ PermissiveInv
  BY DEF PolicyInit, FreshInv, PermissiveInv, SilentInv, Loaded, LoadersInv
<1>. QED  BY <1>1, <1>2, <1>3 DEF PolicyInv, AllowInv, RangeInv, ContextInv

\* The type invariant is kept by every step.
LEMMA PolicyTypeStep ==
    ASSUME PolicyType, [PolicyNext]_policyVars
    PROVE  PolicyType'
<1>1. CASE LoadPolicy
  <2>1. policyTodo = <<>> /\ policyDone = <<>> /\ policyRules = 0
    BY <1>1 DEF LoadPolicy, PolicyType, Loaded
  <2>2. policy' \in StockPolicies /\ IsPolicy(policy') /\ policyStock' = policy' /\ policyStep' = "loaded"
    BY <1>1, StockAssumption DEF LoadPolicy
  <2>. QED  BY <1>1, <2>1, <2>2 DEF LoadPolicy, PolicyType, Loaded
<1>2. CASE MagiskRules
  <2>. DEFINE st == Rules[policyRules + 1]
  <2>1. /\ Loaded /\ IsPolicy(policy) /\ policyDone' = <<>> /\ st.op \in CallOps \ {"genfscon"}
        /\ policy' = Applied(policy, st) /\ policyRules' = policyRules + 1
        /\ UNCHANGED <<policyTodo, policyStock, policyStep>>
    BY <1>2, MagiskRulesStep DEF RuleOK
  <2>. HIDE DEF st
  <2>2. IsPolicy(policy')
    BY <2>1, CallTyped
  <2>3. policy'.attrs = policy.attrs
    BY <2>1, CallFrame DEF IsPolicy, IsRecord
  <2>. QED  BY <2>1, <2>2, <2>3 DEF PolicyType, Loaded
<1>3. CASE ParseStatement
  <2>1. policyTodo' \in Seq(Calls)
    BY <1>3, ExpandedTyped DEF ParseStatement
  <2>. QED  BY <1>3, <2>1 DEF ParseStatement, PolicyType, Loaded, Ready
<1>4. CASE RunFn
  <2>. DEFINE st == Head(policyTodo)
  <2>1. /\ Loaded /\ IsPolicy(policy) /\ st \in Calls /\ policy' = Applied(policy, st)
        /\ UNCHANGED <<policyRules, policyStock, policyStep>> /\ policyTodo' \in Seq(Calls)
        /\ policyDone' \in {Append(policyDone, st), policyDone}
    BY <1>4, RunFnStep
  <2>. HIDE DEF st
  <2>2. IsPolicy(policy')
    BY <2>1, CallTyped, CallFacts
  <2>3. policy'.attrs = policy.attrs
    BY <2>1, CallFrame, CallFacts DEF IsPolicy, IsRecord
  <2>4. policyDone' \in Seq(Calls)
    <3>1. policyDone \in Seq(Calls) /\ st \in Calls
      BY <2>1 DEF PolicyType
    <3>2. Append(policyDone, st) \in Seq(Calls)
      BY <3>1
    <3>. QED  BY <2>1, <3>1, <3>2
  <2>. QED  BY <2>1, <2>2, <2>3, <2>4 DEF PolicyType, Loaded
<1>5. CASE SavePolicy
  BY <1>5 DEF SavePolicy, PolicyType, Loaded, Ready
<1>6. CASE UNCHANGED policyVars
  BY <1>6 DEF policyVars, PolicyType, Loaded
<1>7. CASE LoadFails
  BY <1>7 DEF LoadFails, PolicyType, Loaded
<1>. QED  BY <1>1, <1>2, <1>3, <1>4, <1>5, <1>6, <1>7 DEF PolicyNext

\* The history with one more call.
LEMMA DoneGrows ==
    ASSUME NEW done \in Seq(Calls), NEW st \in Calls, NEW next, next = Append(done, st)
    PROVE  /\ next \in Seq(Calls) /\ Len(done) \in Nat /\ Len(next) = Len(done) + 1
           /\ DOMAIN done = 1 .. Len(done) /\ DOMAIN next = 1 .. Len(done) + 1
           /\ \A i \in 1 .. Len(done) : next[i] = done[i]
           /\ next[Len(done) + 1] = st
  OBVIOUS

\* Before the first call the policy is the one that was loaded.
LEMMA FreshStep ==
    ASSUME PolicyType, FreshInv, [PolicyNext]_policyVars
    PROVE  FreshInv'
<1>1. CASE LoadPolicy
  BY <1>1 DEF LoadPolicy, FreshInv
<1>2. CASE MagiskRules
  <2>1. policyRules' = policyRules + 1 /\ policyRules \in Nat
    BY <1>2, MagiskRulesStep DEF PolicyType
  <2>. QED  BY <2>1 DEF FreshInv
<1>3. CASE RunFn
  <2>1. CASE policyDone' = policyDone /\ policy' = policy
    BY <1>3, <2>1 DEF RunFn, FreshInv, Loaded
  <2>2. CASE policyDone' = Append(policyDone, Head(policyTodo))
    <3>1. policyDone \in Seq(Calls) /\ Head(policyTodo) \in Calls
      BY <1>3, RunFnStep DEF PolicyType
    <3>2. Len(policyDone') = Len(policyDone) + 1 /\ Len(policyDone) \in Nat
      BY <2>2, <3>1
    <3>3. policyDone' # <<>>
      BY <3>2
    <3>. QED  BY <3>3 DEF FreshInv
  <2>. QED  BY <1>3, <2>1, <2>2, RunFnStep
<1>4. CASE LoadFails \/ ParseStatement \/ SavePolicy \/ UNCHANGED policyVars
  BY <1>4, IdleStep DEF Idle, FreshInv
<1>. QED  BY <1>1, <1>2, <1>3, <1>4 DEF PolicyNext

\* After the first call of magisk_rules nobody but magisk gets to load one.
LEMMA LoadersStep ==
    ASSUME PolicyType, FreshInv, LoadersInv, [PolicyNext]_policyVars
    PROVE  LoadersInv'
<1>1. CASE LoadPolicy
  <2>1. policyRules' = 0
    BY <1>1 DEF LoadPolicy, PolicyType, Loaded
  <2>. QED  BY <2>1 DEF LoadersInv
<1>2. CASE MagiskRules
  <2>. DEFINE st == Rules[policyRules + 1]
  <2>1. /\ Loaded /\ IsPolicy(policy) /\ policyDone = <<>> /\ RuleOK(st) /\ policy' = Applied(policy, st)
    BY <1>2, MagiskRulesStep
  <2>. SUFFICES ASSUME NEW k \in DOMAIN policy'.av, LoadsPolicy(policy', k)
                PROVE  k[1] = PROC
    BY DEF LoadersInv
  <2>2. CASE policyRules = 0
    <3>1. policy = policyStock /\ policyStock \in StockPolicies
      BY <2>1, <2>2 DEF FreshInv, PolicyType
    <3>2. st = Rules[1]
      BY <2>2
    <3>3. st.op = "deny" /\ st.s = ALL /\ st.t = "kernel" /\ st.c = "security" /\ st.p = "load_policy"
      BY <3>2, RuleFacts DEF Rules
    <3>. HIDE DEF st
    <3>. QED  BY <2>1, <3>1, <3>3, LoadersDenied
  <2>3. CASE policyRules > 0
    <3>. HIDE DEF st
    <3>1. st.op \in CallOps /\ LoadsNothing(st)
      BY <2>1 DEF RuleOK
    <3>2. k[1] = PROC \/ (k \in DOMAIN policy.av /\ LoadsPolicy(policy, k))
      BY <2>1, <3>1, NoNewLoader
    <3>. QED  BY <2>1, <2>3, <3>2 DEF LoadersInv
  <2>. QED  BY <2>2, <2>3 DEF PolicyType
<1>3. CASE RunFn
  <2>. DEFINE st == Head(policyTodo)
  <2>1. /\ IsPolicy(policy) /\ st \in Calls /\ policy' = Applied(policy, st) /\ policyRules' = policyRules
        /\ policyDone' = Append(policyDone, st) \/ (policyDone' = policyDone /\ policy' = policy)
    BY <1>3, RunFnStep
  <2>. HIDE DEF st
  <2>2. CASE policyDone' = policyDone /\ policy' = policy
    BY <2>1, <2>2 DEF LoadersInv
  <2>3. CASE policyDone' = Append(policyDone, st)
    <3>1. policyDone \in Seq(Calls)
      BY DEF PolicyType
    <3>2. /\ DOMAIN policyDone = 1 .. Len(policyDone) /\ Len(policyDone) \in Nat
          /\ DOMAIN policyDone' = 1 .. Len(policyDone) + 1
          /\ \A i \in 1 .. Len(policyDone) : policyDone'[i] = policyDone[i]
          /\ policyDone'[Len(policyDone) + 1] = st
      BY <2>1, <2>3, <3>1, DoneGrows
    <3>. SUFFICES ASSUME policyRules > 0, \A i \in DOMAIN policyDone' : policyDone'[i].op # "allow",
                         NEW k \in DOMAIN policy'.av, LoadsPolicy(policy', k)
                  PROVE  k[1] = PROC
      BY <2>1 DEF LoadersInv
    <3>3. Len(policyDone) + 1 \in DOMAIN policyDone' /\ \A i \in DOMAIN policyDone : i \in DOMAIN policyDone'
      BY <3>2
    <3>4. st.op # "allow" /\ \A i \in DOMAIN policyDone : policyDone[i].op # "allow"
      BY <3>2, <3>3
    <3>5. st.op \in CallOps /\ LoadsNothing(st)
      BY <2>1, <3>4, CallFacts DEF LoadsNothing
    <3>6. k[1] = PROC \/ (k \in DOMAIN policy.av /\ LoadsPolicy(policy, k))
      BY <2>1, <3>5, NoNewLoader
    <3>. QED  BY <3>4, <3>6 DEF LoadersInv
  <2>. QED  BY <2>1, <2>2, <2>3
<1>4. CASE LoadFails \/ ParseStatement \/ SavePolicy \/ UNCHANGED policyVars
  BY <1>4, IdleStep DEF Idle, LoadersInv
<1>. QED  BY <1>1, <1>2, <1>3, <1>4 DEF PolicyNext

\* No call but a permissive statement of a rule file adds to the types that
\* are permissive with the rules of Magisk.
LEMMA PermissiveStep ==
    ASSUME PolicyType, PermissiveInv, [PolicyNext]_policyVars
    PROVE  PermissiveInv'
<1>1. CASE LoadPolicy
  <2>1. policyStock' = policy'
    BY <1>1 DEF LoadPolicy
  <2>. QED  BY <2>1 DEF PermissiveInv, MadePermissive
<1>2. CASE MagiskRules
  <2>. DEFINE st == Rules[policyRules + 1]
  <2>1. /\ Loaded /\ IsPolicy(policy) /\ policyDone = <<>> /\ RuleOK(st) /\ policy' = Applied(policy, st)
        /\ policyStock' = policyStock
    BY <1>2, MagiskRulesStep
  <2>. HIDE DEF st
  <2>2. policy.permissive \subseteq MadePermissive
    BY <2>1 DEF PermissiveInv
  <2>3. st.op = "permissive" => st.s \in {PROC, UPDATE} /\ st.s # ALL
    BY <2>1 DEF RuleOK, PROC, UPDATE, ALL
  <2>4. st.op \in CallOps /\ IsRecord(policy)
    BY <2>1 DEF RuleOK, IsPolicy, IsRecord
  <2>5. policy'.permissive \subseteq policy.permissive \cup {PROC, UPDATE}
    BY <2>1, <2>3, <2>4, CallFrame
  <2>. QED  BY <2>1, <2>2, <2>5 DEF PermissiveInv, MadePermissive
<1>3. CASE RunFn
  <2>. DEFINE st == Head(policyTodo)
  <2>1. /\ Loaded /\ IsPolicy(policy) /\ st \in Calls /\ policy' = Applied(policy, st)
        /\ policyStock' = policyStock
        /\ policyDone' = Append(policyDone, st) \/ (policyDone' = policyDone /\ policy' = policy)
    BY <1>3, RunFnStep
  <2>. HIDE DEF st
  <2>2. CASE policyDone' = policyDone /\ policy' = policy
    BY <2>1, <2>2 DEF PermissiveInv, MadePermissive
  <2>3. CASE policyDone' = Append(policyDone, st)
    <3>1. policyDone \in Seq(Calls)
      BY DEF PolicyType
    <3>2. /\ DOMAIN policyDone = 1 .. Len(policyDone) /\ Len(policyDone) \in Nat
          /\ DOMAIN policyDone' = 1 .. Len(policyDone) + 1
          /\ \A i \in 1 .. Len(policyDone) : policyDone'[i] = policyDone[i]
          /\ policyDone'[Len(policyDone) + 1] = st
      BY <2>1, <2>3, <3>1, DoneGrows
    <3>. SUFFICES ASSUME \A i \in DOMAIN policyDone' : policyDone'[i].op # "permissive"
                  PROVE  policy'.permissive \subseteq MadePermissive
      BY <2>1 DEF PermissiveInv, MadePermissive
    <3>3. Len(policyDone) + 1 \in DOMAIN policyDone' /\ \A i \in DOMAIN policyDone : i \in DOMAIN policyDone'
      BY <3>2
    <3>4. st.op # "permissive" /\ \A i \in DOMAIN policyDone : policyDone[i].op # "permissive"
      BY <3>2, <3>3
    <3>5. policy.permissive \subseteq MadePermissive
      BY <2>1, <3>4 DEF PermissiveInv
    <3>6. st.op \in CallOps /\ IsRecord(policy)
      BY <2>1, CallFacts DEF IsPolicy, IsRecord
    <3>7. policy'.permissive \subseteq policy.permissive
      BY <2>1, <3>4, <3>6, CallFrame
    <3>. QED  BY <3>5, <3>7
  <2>. QED  BY <2>1, <2>2, <2>3
<1>4. CASE LoadFails \/ ParseStatement \/ SavePolicy \/ UNCHANGED policyVars
  BY <1>4, IdleStep DEF Idle, PermissiveInv, MadePermissive
<1>. QED  BY <1>1, <1>2, <1>3, <1>4 DEF PolicyNext

\* The rules of Magisk silence the socket, and the later ones leave it so.
LEMMA SilentStep ==
    ASSUME PolicyType, FreshInv, SilentInv, [PolicyNext]_policyVars
    PROVE  SilentInv'
<1>1. CASE LoadPolicy
  <2>1. policyRules' = 0 /\ policyStock' = policy'
    BY <1>1 DEF LoadPolicy, PolicyType, Loaded
  <2>. QED  BY <2>1 DEF SilentInv
<1>2. CASE MagiskRules
  <2>. DEFINE st == Rules[policyRules + 1]
  <2>1. /\ Loaded /\ IsPolicy(policy) /\ policyDone = <<>> /\ RuleOK(st) /\ policy' = Applied(policy, st)
        /\ policyRules' = policyRules + 1 /\ policyStock' = policyStock
        /\ policyRules + 1 \in 1 .. Len(Rules) /\ policyRules \in Nat
    BY <1>2, MagiskRulesStep DEF PolicyType
  <2>2. st.op \in CallOps /\ (st.op = "type" => st.s # "untrusted_app_25")
    BY <2>1 DEF RuleOK
  <2>3. IsRecord(policy)
    BY <2>1 DEF IsPolicy, IsRecord
  <2>4. /\ policy'.attrs = policy.attrs /\ policy.types \subseteq policy'.types
        /\ st.op # "type" => policy'.types = policy.types
        /\ policy'.types \subseteq policy.types \cup {st.s}
    <3>. HIDE DEF st
    <3>. QED  BY <2>1, <2>2, <2>3, CallFrame
  <2>5. "untrusted_app_25" \in policy'.types => "untrusted_app_25" \in policyStock.types
    <3>1. "untrusted_app_25" \in policy'.types => "untrusted_app_25" \in policy.types
      BY <2>2, <2>4
    <3>. QED  BY <2>1, <3>1 DEF SilentInv
  <2>6. ASSUME policyRules' >= 2 PROVE PROC \in AllNames(policy')
    <3>1. CASE policyRules >= 2
      BY <2>1, <2>4, <3>1 DEF SilentInv, AllNames
    <3>2. CASE policyRules = 1
      <4>1. st.op = "type" /\ st.s = PROC
        <5>1. st = Rules[2]
          BY <3>2
        <5>. QED  BY <5>1, RuleFacts DEF Rules
      <4>. HIDE DEF st
      <4>2. policy' = AddTypeattribute(AddType(policy, PROC, "type"), PROC, st.a)
        BY <2>1, <4>1 DEF Applied
      <4>. QED  BY <2>3, <4>2 DEF AddTypeattribute, AddType, AllNames, IsRecord
    <3>. QED  BY <2>1, <2>6, <3>1, <3>2
  <2>7. ASSUME policyRules' >= 12, "untrusted_app_25" \in AllNames(policyStock), NEW a \in policy.attrs
        PROVE  Quiet(policy', a)
    <3>1. CASE policyRules = 11
      <4>1. st.op = "dontaudit" /\ st.s = ALL /\ st.t = PROC /\ st.c = SOCKET /\ st.p = ALL
        <5>1. st = Rules[12]
          BY <3>1
        <5>. QED  BY <2>7, <5>1, RuleFacts DEF Rules
      <4>. HIDE DEF st
      <4>2. PROC \in AllNames(policy)
        BY <2>1, <3>1 DEF SilentInv
      <4>. QED  BY <2>1, <4>1, <4>2, QuietDone
    <3>2. CASE policyRules >= 12
      <4>1. Quiet(policy, a)
        BY <2>1, <2>7, <3>2 DEF SilentInv
      <4>2. Len(Rules) = 19 /\ \A i \in 13 .. 19 : Rules[i].op # "dontaudit"
        BY <2>7, RuleFacts DEF Rules
      <4>3. policyRules + 1 \in 13 .. 19
        BY <2>1, <3>2, <4>2
      <4>4. st.op \in CallOps \ {"dontaudit"}
        BY <2>2, <4>2, <4>3
      <4>. HIDE DEF st
      <4>. QED  BY <2>1, <4>1, <4>4, QuietKept
    <3>. QED  BY <2>1, <2>7, <3>1, <3>2
  <2>. QED  BY <2>1, <2>4, <2>5, <2>6, <2>7 DEF SilentInv
<1>3. CASE RunFn
  <2>1. CASE policyDone' = policyDone /\ policy' = policy
    BY <1>3, <2>1 DEF RunFn, SilentInv, Loaded
  <2>2. CASE policyDone' = Append(policyDone, Head(policyTodo))
    <3>1. policyDone \in Seq(Calls) /\ Head(policyTodo) \in Calls
      BY <1>3, RunFnStep DEF PolicyType
    <3>2. Len(policyDone') = Len(policyDone) + 1 /\ Len(policyDone) \in Nat
      BY <2>2, <3>1
    <3>3. policyDone' # <<>>
      BY <3>2
    <3>. QED  BY <3>3 DEF SilentInv
  <2>. QED  BY <1>3, <2>1, <2>2, RunFnStep
<1>4. CASE LoadFails \/ ParseStatement \/ SavePolicy \/ UNCHANGED policyVars
  BY <1>4, IdleStep DEF Idle, SilentInv
<1>. QED  BY <1>1, <1>2, <1>3, <1>4 DEF PolicyNext

\* What is stored stays stored by a call that does not take it away.
LEMMA StoredKept ==
    ASSUME NEW db, IsPolicy(db), NEW u \in Calls, NEW st
    PROVE  /\ AllowStored(db, st) /\ u.op # "deny" => AllowStored(Applied(db, u), st)
           /\ RangeStored(db, st) /\ (u.op = "allowxperm" => ~SameNode(u, st)) => RangeStored(Applied(db, u), st)
<1>1. u.op \in CallOps
  BY CallFacts
<1>2. \A n : Names(Applied(db, u), n) = Names(db, n)
  BY <1>1, CallFrame DEF IsPolicy, IsRecord, Names
<1>3. ASSUME AllowStored(db, st), u.op # "deny" PROVE AllowStored(Applied(db, u), st)
  BY <1>1, <1>2, <1>3, AllowKept DEF AllowStored
<1>4. ASSUME RangeStored(db, st), u.op = "allowxperm" => ~SameNode(u, st)
      PROVE  RangeStored(Applied(db, u), st)
  BY <1>1, <1>2, <1>4, RangeKept DEF RangeStored
<1>. QED  BY <1>3, <1>4

\* What an accepted call stores.
LEMMA StoredNow ==
    ASSUME NEW db, IsPolicy(db), NEW st \in Calls, Accepted(db, st)
    PROVE  /\ st.op = "allow" => AllowStored(Applied(db, st), st)
           /\ st.op = "allowxperm" => RangeStored(Applied(db, st), st)
<1>1. st.op \in CallOps
  BY CallFacts
<1>2. \A n : Names(Applied(db, st), n) = Names(db, n)
  BY <1>1, CallFrame DEF IsPolicy, IsRecord, Names
<1>3. ASSUME st.op = "allow" PROVE AllowStored(Applied(db, st), st)
  BY <1>2, <1>3, AllowDone DEF AllowStored
<1>4. ASSUME st.op = "allowxperm" PROVE RangeStored(Applied(db, st), st)
  BY <1>2, <1>4, RangeDone DEF RangeStored
<1>. QED  BY <1>3, <1>4

\* What the allow and allowxperm calls have stored is there after every step.
LEMMA StoredStep ==
    ASSUME PolicyType, AllowInv, RangeInv, [PolicyNext]_policyVars
    PROVE  AllowInv' /\ RangeInv'
<1>1. CASE LoadPolicy \/ MagiskRules
  <2>1. policyDone' = <<>>
    BY <1>1, MagiskRulesStep DEF LoadPolicy, PolicyType, Loaded
  <2>. QED  BY <2>1 DEF AllowInv, RangeInv
<1>2. CASE RunFn
  <2>. DEFINE st == Head(policyTodo)
  <2>1. /\ IsPolicy(policy) /\ st \in Calls /\ policy' = Applied(policy, st)
        /\ \/ policyDone' = Append(policyDone, st) /\ Accepted(policy, st)
           \/ policyDone' = policyDone /\ policy' = policy
    BY <1>2, RunFnStep
  <2>. HIDE DEF st
  <2>2. CASE policyDone' = policyDone /\ policy' = policy
    BY <2>2 DEF AllowInv, RangeInv
  <2>3. CASE policyDone' = Append(policyDone, st) /\ Accepted(policy, st)
    <3>. DEFINE n == Len(policyDone)
    <3>0. policyDone \in Seq(Calls)
      BY DEF PolicyType
    <3>1. /\ DOMAIN policyDone = 1 .. n /\ n \in Nat
          /\ DOMAIN policyDone' = 1 .. n + 1 /\ Len(policyDone') = n + 1
          /\ \A i \in 1 .. n : policyDone'[i] = policyDone[i]
          /\ policyDone'[n + 1] = st
      BY <2>1, <2>3, <3>0, DoneGrows
    <3>. HIDE DEF n
    <3>2. \A i \in 1 .. n : n + 1 \in (i + 1) .. (n + 1) /\ \A j \in (i + 1) .. n : j \in (i + 1) .. (n + 1) /\ j \in 1 .. n
      BY <3>1
    <3>3. \A i \in 1 .. n + 1 : i \in 1 .. n \/ i = n + 1
      BY <3>1
    <3>4. AllowInv'
      <4>. SUFFICES ASSUME NEW i \in 1 .. n + 1, policyDone'[i].op = "allow",
                           \A j \in (i + 1) .. (n + 1) : policyDone'[j].op # "deny"
                    PROVE  AllowStored(policy', policyDone'[i])
        BY <3>1 DEF AllowInv
      <4>1. CASE i \in 1 .. n
        <5>1. st.op # "deny" /\ \A j \in (i + 1) .. n : policyDone[j].op # "deny"
          BY <3>1, <3>2, <4>1
        <5>2. policyDone'[i] = policyDone[i] /\ i \in DOMAIN policyDone
          BY <3>1, <4>1
        <5>3. AllowStored(policy, policyDone[i])
          BY <5>1, <5>2 DEF AllowInv, n
        <5>. QED  BY <2>1, <5>1, <5>2, <5>3, StoredKept
      <4>2. CASE i = n + 1
        BY <2>1, <2>3, <3>1, <4>2, StoredNow
      <4>. QED  BY <3>3, <4>1, <4>2
    <3>5. RangeInv'
      <4>. SUFFICES ASSUME NEW i \in 1 .. n + 1, policyDone'[i].op = "allowxperm",
                           \A j \in (i + 1) .. (n + 1) :
                                policyDone'[j].op = "allowxperm" => ~SameNode(policyDone'[j], policyDone'[i])
                    PROVE  RangeStored(policy', policyDone'[i])
        BY <3>1 DEF RangeInv
      <4>1. CASE i \in 1 .. n
        <5>1. policyDone'[i] = policyDone[i] /\ i \in DOMAIN policyDone
          BY <3>1, <4>1
        <5>2. /\ st.op = "allowxperm" => ~SameNode(st, policyDone[i])
              /\ \A j \in (i + 1) .. n : policyDone[j].op = "allowxperm" => ~SameNode(policyDone[j], policyDone[i])
          BY <3>1, <3>2, <4>1, <5>1
        <5>3. RangeStored(policy, policyDone[i])
          BY <5>1, <5>2 DEF RangeInv, n
        <5>. QED  BY <2>1, <5>1, <5>2, <5>3, StoredKept
      <4>2. CASE i = n + 1
        BY <2>1, <2>3, <3>1, <4>2, StoredNow
      <4>. QED  BY <3>3, <4>1, <4>2
    <3>. QED  BY <3>4, <3>5
  <2>. QED  BY <2>1, <2>2, <2>3
<1>3. CASE LoadFails \/ ParseStatement \/ SavePolicy \/ UNCHANGED policyVars
  BY <1>3, IdleStep DEF Idle, AllowInv, RangeInv
<1>. QED  BY <1>1, <1>2, <1>3 DEF PolicyNext

\* What add_genfscon does to a list: a path that is new goes to its end.
LEMMA GenfsAppended ==
    ASSUME NEW db, IsPolicy(db), NEW st \in Calls, st.op = "genfscon", Accepted(db, st)
    PROVE  LET new == Applied(db, st)
           IN  /\ ContextStored(new, st)
               /\ \A f \in DOMAIN new.genfs \ {st.fs} : f \in DOMAIN db.genfs /\ new.genfs[f] = db.genfs[f]
               /\ \A f \in DOMAIN db.genfs \ {st.fs} : f \in DOMAIN new.genfs /\ new.genfs[f] = db.genfs[f]
               /\ \A n \in DOMAIN new.genfs[st.fs] :
                    \/ new.genfs[st.fs][n].path = st.path
                    \/ /\ st.fs \in DOMAIN db.genfs /\ n \in DOMAIN db.genfs[st.fs]
                       /\ new.genfs[st.fs][n] = db.genfs[st.fs][n]
               /\ Same(ListOf(db, st.fs), st.path) = {} =>
                    \A n \in DOMAIN ListOf(db, st.fs) :
                        n \in DOMAIN new.genfs[st.fs] /\ new.genfs[st.fs][n] = ListOf(db, st.fs)[n]
<1>. DEFINE new == Applied(db, st)
            list == ListOf(db, st.fs)
            kept == Before(list, st.path)
            e == [path |-> st.path, ctx |-> st.ctx]
<1>1. IsRecord(db) /\ GenfsOK(db)
  BY DEF IsPolicy, IsRecord, GenfsOK, PathsOnce
<1>2. new = AddGenfscon(db, st.fs, st.path, st.ctx)
  BY DEF Applied
<1>3. st.path \in STRING /\ st.ctx \in STRING /\ KnownContext(db, st.ctx)
  BY CallFacts DEF Accepted
<1>4. list \in Seq(Contexts) /\ PathsOnce(list)
  BY <1>1 DEF ListOf, At, GenfsOK, PathsOnce
<1>. HIDE DEF new
<1>5. /\ GenfsOK(new) /\ kept \in Seq(Contexts) /\ Len(new.genfs[st.fs]) = Len(kept) + 1
      /\ \A n \in 1 .. Len(kept) : new.genfs[st.fs][n] = kept[n]
      /\ new.genfs[st.fs][Len(kept) + 1] = e
  <2>1. PICK fs, path, ctx : fs = st.fs /\ path = st.path /\ ctx = st.ctx
    OBVIOUS
  <2>2. new = AddGenfscon(db, fs, path, ctx) /\ path \in STRING /\ ctx \in STRING /\ KnownContext(db, ctx)
    BY <1>2, <1>3, <2>1
  <2>3. LET put == AddGenfscon(db, fs, path, ctx)
            had == Before(ListOf(db, fs), path)
        IN  /\ GenfsOK(put) /\ had \in Seq(Contexts) /\ Len(put.genfs[fs]) = Len(had) + 1
            /\ \A n \in 1 .. Len(had) : put.genfs[fs][n] = had[n]
            /\ put.genfs[fs][Len(had) + 1] = [path |-> path, ctx |-> ctx]
    BY <1>1, <2>2, GenfsTyped
  <2>. QED  BY <2>1, <2>2, <2>3
<1>6. /\ DOMAIN new.genfs = DOMAIN db.genfs \cup {st.fs}
      /\ \A f \in DOMAIN db.genfs \ {st.fs} : new.genfs[f] = db.genfs[f]
  <2>1. PICK fs, path, ctx : fs = st.fs /\ path = st.path /\ ctx = st.ctx
    OBVIOUS
  <2>2. new = AddGenfscon(db, fs, path, ctx) /\ KnownContext(db, ctx)
    BY <1>2, <1>3, <2>1
  <2>3. LET put == AddGenfscon(db, fs, path, ctx)
        IN  /\ DOMAIN put.genfs = DOMAIN db.genfs \cup {fs}
            /\ \A f \in DOMAIN db.genfs \ {fs} : put.genfs[f] = db.genfs[f]
            /\ put.genfs[fs] = Append(Before(ListOf(db, fs), path), [path |-> path, ctx |-> ctx])
    BY ONLY <1>1, <2>2, GenfsEffect
  <2>. QED  BY <2>1, <2>2, <2>3
<1>7. /\ \A n \in DOMAIN kept : n \in DOMAIN list /\ kept[n] = list[n]
      /\ Same(list, st.path) = {} => kept = list
  BY <1>4, BeforePath
<1>. HIDE DEF kept, e
<1>8. /\ new.genfs[st.fs] \in Seq(Contexts) /\ Len(kept) \in Nat /\ DOMAIN kept = 1 .. Len(kept)
  BY <1>5, <1>6 DEF GenfsOK
<1>9. DOMAIN new.genfs[st.fs] = 1 .. Len(kept) + 1
  BY <1>5, <1>8
<1>10. ContextStored(new, st)
  <2>1. Len(kept) + 1 \in DOMAIN new.genfs[st.fs]
    BY <1>8, <1>9
  <2>. QED  BY <1>5, <1>6, <2>1 DEF ContextStored, e
<1>11. ASSUME NEW n \in DOMAIN new.genfs[st.fs]
       PROVE  \/ new.genfs[st.fs][n].path = st.path
              \/ /\ st.fs \in DOMAIN db.genfs /\ n \in DOMAIN db.genfs[st.fs]
                 /\ new.genfs[st.fs][n] = db.genfs[st.fs][n]
  <2>1. n \in 1 .. Len(kept) \/ n = Len(kept) + 1
    BY <1>8, <1>9
  <2>2. CASE n = Len(kept) + 1
    BY <1>5, <2>2 DEF e
  <2>3. CASE n \in 1 .. Len(kept)
    <3>1. n \in DOMAIN list /\ new.genfs[st.fs][n] = list[n]
      BY <1>5, <1>7, <1>8, <2>3
    <3>2. st.fs \in DOMAIN db.genfs /\ list = db.genfs[st.fs]
      BY <3>1 DEF ListOf, At
    <3>. QED  BY <3>1, <3>2
  <2>. QED  BY <2>1, <2>2, <2>3
<1>12. ASSUME Same(list, st.path) = {}, NEW n \in DOMAIN list
       PROVE  n \in DOMAIN new.genfs[st.fs] /\ new.genfs[st.fs][n] = list[n]
  <2>1. n \in 1 .. Len(kept) /\ kept[n] = list[n]
    BY <1>7, <1>8, <1>12
  <2>2. n \in 1 .. Len(kept) + 1
    BY <1>8, <2>1
  <2>. QED  BY <1>5, <1>9, <2>1, <2>2
<1>. QED  BY <1>6, <1>10, <1>11, <1>12 DEF new

\* Where the contexts come from, and that they stay, through every step.
LEMMA ContextStep ==
    ASSUME PolicyType, FreshInv, Loaded => PathInv, ContextInv, [PolicyNext]_policyVars
    PROVE  (Loaded' => PathInv') /\ ContextInv'
<1>1. CASE LoadPolicy
  <2>1. policyDone' = <<>> /\ policyStock' = policy'
    BY <1>1 DEF LoadPolicy, PolicyType, Loaded
  <2>2. PathInv'
    <3>. SUFFICES ASSUME NEW fs \in DOMAIN policy'.genfs, NEW n \in DOMAIN policy'.genfs[fs]
                  PROVE  HasPath(policyStock', fs, policy'.genfs[fs][n].path)
      BY DEF PathInv
    <3>1. ListOf(policyStock', fs) = policy'.genfs[fs]
      BY <2>1 DEF ListOf, At
    <3>. QED  BY <3>1 DEF HasPath
  <2>. QED  BY <2>1, <2>2 DEF ContextInv
<1>2. CASE MagiskRules
  <2>. DEFINE st == Rules[policyRules + 1]
  <2>1. /\ Loaded /\ IsPolicy(policy) /\ policyDone = <<>> /\ policyDone' = <<>> /\ RuleOK(st)
        /\ policy' = Applied(policy, st) /\ policyStock' = policyStock
    BY <1>2, MagiskRulesStep
  <2>. HIDE DEF st
  <2>2. policy'.genfs = policy.genfs
    BY <2>1, CallFrame DEF RuleOK, IsPolicy, IsRecord
  <2>. QED  BY <2>1, <2>2 DEF PathInv, ContextInv
<1>3. CASE RunFn
  <2>. DEFINE st == Head(policyTodo)
  <2>1. /\ Loaded /\ IsPolicy(policy) /\ st \in Calls /\ policy' = Applied(policy, st)
        /\ policyStock' = policyStock
        /\ \/ policyDone' = Append(policyDone, st) /\ Accepted(policy, st)
           \/ policyDone' = policyDone /\ policy' = policy
    BY <1>3, RunFnStep
  <2>. HIDE DEF st
  <2>2. CASE policyDone' = policyDone /\ policy' = policy
    BY <2>1, <2>2 DEF PathInv, ContextInv
  <2>3. CASE policyDone' = Append(policyDone, st) /\ Accepted(policy, st)
    <3>. DEFINE n == Len(policyDone)
    <3>0. policyDone \in Seq(Calls)
      BY DEF PolicyType
    <3>1. /\ DOMAIN policyDone = 1 .. n /\ n \in Nat
          /\ DOMAIN policyDone' = 1 .. n + 1 /\ Len(policyDone') = n + 1
          /\ \A i \in 1 .. n : policyDone'[i] = policyDone[i]
          /\ policyDone'[n + 1] = st
      BY <2>1, <2>3, <3>0, DoneGrows
    <3>. HIDE DEF n
    <3>2. \A i \in 1 .. n + 1 : i \in 1 .. n \/ i = n + 1
      BY <3>1
    <3>3. n + 1 \in 1 .. n + 1 /\ \A i \in 1 .. n : i \in 1 .. n + 1
      BY <3>1
    <3>4. st.op \in CallOps /\ (st.op # "genfscon" => policy'.genfs = policy.genfs)
      BY <2>1, CallFacts, CallFrame DEF IsPolicy, IsRecord
    <3>6. st.op = "genfscon" =>
            /\ ContextStored(policy', st)
            /\ \A f \in DOMAIN policy'.genfs \ {st.fs} : f \in DOMAIN policy.genfs /\ policy'.genfs[f] = policy.genfs[f]
            /\ \A f \in DOMAIN policy.genfs \ {st.fs} : f \in DOMAIN policy'.genfs /\ policy'.genfs[f] = policy.genfs[f]
            /\ \A m \in DOMAIN policy'.genfs[st.fs] :
                 \/ policy'.genfs[st.fs][m].path = st.path
                 \/ /\ st.fs \in DOMAIN policy.genfs /\ m \in DOMAIN policy.genfs[st.fs]
                    /\ policy'.genfs[st.fs][m] = policy.genfs[st.fs][m]
            /\ Same(ListOf(policy, st.fs), st.path) = {} =>
                 \A m \in DOMAIN ListOf(policy, st.fs) :
                     m \in DOMAIN policy'.genfs[st.fs] /\ policy'.genfs[st.fs][m] = ListOf(policy, st.fs)[m]
      BY <2>1, <2>3, GenfsAppended
    <3>7. PathInv'
      <4>. SUFFICES ASSUME NEW fs \in DOMAIN policy'.genfs, NEW m \in DOMAIN policy'.genfs[fs]
                    PROVE  \/ HasPath(policyStock, fs, policy'.genfs[fs][m].path)
                           \/ \E i \in 1 .. n + 1 : Gives(policyDone'[i], fs, policy'.genfs[fs][m].path)
        BY <2>1, <3>1 DEF PathInv
      <4>. DEFINE path == policy'.genfs[fs][m].path
      <4>1. ASSUME fs \in DOMAIN policy.genfs, m \in DOMAIN policy.genfs[fs], policy'.genfs[fs][m] = policy.genfs[fs][m]
            PROVE  HasPath(policyStock, fs, path) \/ \E i \in 1 .. n + 1 : Gives(policyDone'[i], fs, path)
        <5>1. HasPath(policyStock, fs, path) \/ \E i \in 1 .. n : Gives(policyDone[i], fs, path)
          BY <2>1, <3>1, <4>1 DEF PathInv
        <5>. QED  BY <3>1, <3>3, <5>1
      <4>2. CASE st.op # "genfscon" \/ fs # st.fs
        <5>1. fs \in DOMAIN policy.genfs /\ policy'.genfs[fs] = policy.genfs[fs]
          BY <3>4, <3>6, <4>2
        <5>. QED  BY <4>1, <5>1
      <4>3. CASE st.op = "genfscon" /\ fs = st.fs /\ path = st.path
        BY <3>1, <3>3, <4>3 DEF Gives
      <4>4. CASE st.op = "genfscon" /\ fs = st.fs /\ path # st.path
        BY <3>6, <4>1, <4>4
      <4>. QED  BY <4>2, <4>3, <4>4
    <3>8. \A j \in 1 .. n : NamesOld(policyStock, policyDone', j) <=> NamesOld(policyStock, policyDone, j)
      <4>1. \A j \in 1 .. n : \A i \in 1 .. (j - 1) : i \in 1 .. n
        BY <3>1
      <4>. QED  BY <3>1, <4>1 DEF NamesOld
    <3>9. ContextInv'
      <4>. SUFFICES ASSUME NEW i \in 1 .. n + 1, policyDone'[i].op = "genfscon",
                           \A j \in (i + 1) .. (n + 1) :
                                policyDone'[j].op = "genfscon" /\ policyDone'[j].fs = policyDone'[i].fs =>
                                    ~NamesOld(policyStock, policyDone', j)
                    PROVE  ContextStored(policy', policyDone'[i])
        BY <2>1, <3>1 DEF ContextInv
      <4>1. CASE i = n + 1
        BY <3>1, <3>6, <4>1
      <4>2. CASE i \in 1 .. n
        <5>. DEFINE old == policyDone[i]
        <5>1. policyDone'[i] = old /\ i \in DOMAIN policyDone /\ old.op = "genfscon"
          BY <3>1, <4>2
        <5>2. n + 1 \in (i + 1) .. (n + 1) /\ \A j \in (i + 1) .. n : j \in (i + 1) .. (n + 1) /\ j \in 1 .. n
          BY <3>1, <4>2
        <5>3. \A j \in (i + 1) .. n : policyDone[j].op = "genfscon" /\ policyDone[j].fs = old.fs =>
                    ~NamesOld(policyStock, policyDone, j)
          BY <3>1, <3>8, <5>1, <5>2
        <5>4. ContextStored(policy, old)
          BY <5>1, <5>3 DEF ContextInv, n
        <5>5. CASE st.op # "genfscon"
          BY <3>4, <5>1, <5>4, <5>5 DEF ContextStored
        <5>6. CASE st.op = "genfscon" /\ st.fs # old.fs
          BY <3>6, <5>1, <5>4, <5>6 DEF ContextStored
        <5>7. CASE st.op = "genfscon" /\ st.fs = old.fs
          <6>1. ~NamesOld(policyStock, policyDone', n + 1)
            BY <3>1, <5>1, <5>2, <5>7
          <6>2. ~HasPath(policyStock, st.fs, st.path) /\ \A j \in 1 .. n : ~Gives(policyDone[j], st.fs, st.path)
            <7>1. (n + 1) - 1 = n
              BY <3>1
            <7>. QED  BY <3>1, <6>1, <7>1 DEF NamesOld
          <6>3. Same(ListOf(policy, st.fs), st.path) = {}
            <7>. SUFFICES ASSUME NEW m \in DOMAIN ListOf(policy, st.fs), ListOf(policy, st.fs)[m].path = st.path
                          PROVE  FALSE
              BY DEF Same
            <7>1. st.fs \in DOMAIN policy.genfs /\ ListOf(policy, st.fs) = policy.genfs[st.fs]
              BY DEF ListOf, At
            <7>. QED  BY <2>1, <3>1, <6>2, <7>1 DEF PathInv
          <6>4. PICK m \in DOMAIN policy.genfs[st.fs] : policy.genfs[st.fs][m] = [path |-> old.path, ctx |-> old.ctx]
            BY <5>4, <5>7 DEF ContextStored
          <6>5. ListOf(policy, st.fs) = policy.genfs[st.fs]
            BY <5>4, <5>7 DEF ContextStored, ListOf, At
          <6>6. m \in DOMAIN policy'.genfs[st.fs] /\ policy'.genfs[st.fs][m] = policy.genfs[st.fs][m]
            BY <3>6, <5>7, <6>3, <6>5
          <6>7. st.fs \in DOMAIN policy'.genfs
            BY <3>6, <5>7 DEF ContextStored
          <6>. QED  BY <5>1, <5>7, <6>4, <6>6, <6>7 DEF ContextStored
        <5>. QED  BY <5>5, <5>6, <5>7
      <4>. QED  BY <3>2, <4>1, <4>2
    <3>. QED  BY <3>7, <3>9
  <2>. QED  BY <2>1, <2>2, <2>3
<1>4. CASE LoadFails \/ ParseStatement \/ SavePolicy \/ UNCHANGED policyVars
  BY <1>4, IdleStep DEF Idle, PathInv, ContextInv
<1>. QED  BY <1>1, <1>2, <1>3, <1>4 DEF PolicyNext

(***************************************************************************)
(* The theorems                                                            *)
(***************************************************************************)

\* The inductive invariant holds in every state.
THEOREM PolicyInvariant == PolicySpec => []PolicyInv
<1>1. PolicyInit => PolicyInv
  BY PolicyInitial
<1>2. PolicyInv /\ [PolicyNext]_policyVars => PolicyInv'
  <2>. SUFFICES ASSUME PolicyInv, [PolicyNext]_policyVars
                PROVE  PolicyInv'
    OBVIOUS
  <2>1. /\ PolicyType /\ FreshInv /\ LoadersInv /\ PermissiveInv /\ SilentInv /\ AllowInv /\ RangeInv
        /\ (Loaded => PathInv) /\ ContextInv
    BY DEF PolicyInv
  <2>2. PolicyType'
    BY <2>1, PolicyTypeStep
  <2>3. FreshInv'
    BY <2>1, FreshStep
  <2>4. LoadersInv'
    BY <2>1, LoadersStep
  <2>5. SilentInv'
    BY <2>1, SilentStep
  <2>6. AllowInv' /\ RangeInv'
    BY <2>1, StoredStep
  <2>7. (Loaded' => PathInv') /\ ContextInv'
    BY <2>1, ContextStep
  <2>8. PermissiveInv'
    BY <2>1, PermissiveStep
  <2>. QED  BY <2>2, <2>3, <2>4, <2>5, <2>6, <2>7, <2>8 DEF PolicyInv
<1>. QED  BY <1>1, <1>2, PTL DEF PolicySpec

\* The rules of Magisk do what their comments say, on every stock policy whose
\* rules for loading a policy name the type kernel itself: nobody else can load
\* a policy but the types that are permissive, and no denied access of a type
\* with an attribute to the daemon's socket is audited on new devices.
THEOREM MagiskRulesKept == PolicySpec => []MagiskRulesHold
<1>1. ASSUME PolicyInv PROVE OnlyMagiskLoadsPolicy
  <2>. SUFFICES ASSUME RulesRun, "allow" \notin Ops, "permissive" \notin Ops, NEW t \in policy.types,
                       Access(t, "kernel", "security", "load_policy"), t \notin policy.permissive
                PROVE  t = PROC
    <3>1. RulesRun /\ "permissive" \notin Ops => policy.permissive \subseteq MadePermissive
      BY <1>1 DEF PolicyInv, PermissiveInv, PolicyType, RulesRun, Ops
    <3>. QED  BY <3>1 DEF OnlyMagiskLoadsPolicy, MadePermissive
  <2>1. policyRules > 0 /\ Loaded
    BY <1>1 DEF RulesRun, PolicyInv, PolicyType
  <2>2. \A k \in DOMAIN policy.av : LoadsPolicy(policy, k) => k[1] = PROC
    BY <1>1, <2>1 DEF PolicyInv, LoadersInv, Ops
  <2>3. PICK x \in OfType(policy, t), y \in OfType(policy, "kernel") :
            "load_policy" \in At(policy.av, <<x, y, "security", "allowed">>, {})
    BY DEF Access, Ruled
  <2>. DEFINE k == <<x, y, "security", "allowed">>
  <2>4. k \in DOMAIN policy.av /\ "load_policy" \in policy.av[k]
    BY <2>3 DEF At
  <2>5. k[1] = x /\ k[3] = "security" /\ k[4] = "allowed"
    OBVIOUS
  <2>. HIDE DEF k
  <2>6. x = PROC
    BY <2>2, <2>4, <2>5 DEF LoadsPolicy
  <2>7. PROC \notin policy.attrs
    BY <1>1, <2>1, StockAssumption DEF PolicyInv, PolicyType
  <2>. QED  BY <2>6, <2>7 DEF OfType
<1>2. ASSUME PolicyInv PROVE SocketDenialsSilent
  <2>. SUFFICES ASSUME RulesRun, "untrusted_app_25" \in policy.types, policyDone = <<>>,
                       NEW t \in StandsFor(ALL), NEW p \in Perms
                PROVE  ~Audited(t, PROC, SOCKET, p)
    BY DEF SocketDenialsSilent
  <2>1. Loaded /\ policyRules \in Nat /\ policyRules >= Len(Rules)
    <3>1. Len(Rules) \in Nat
      BY RuleFacts DEF Rules
    <3>2. PolicyType
      BY <1>2 DEF PolicyInv
    <3>. QED  BY <3>1, <3>2 DEF RulesRun, RulesLeft, PolicyType
  <2>2. "untrusted_app_25" \in AllNames(policyStock)
    <3>1. SilentInv
      BY <1>2 DEF PolicyInv
    <3>. QED  BY <2>1, <3>1 DEF SilentInv, AllNames
  <2>3. Len(Rules) = 19
    BY <2>2, RuleFacts DEF Rules
  <2>4. policyRules >= 12
    BY <2>1, <2>3
  <2>5. \A a \in policy.attrs : Quiet(policy, a)
    <3>1. SilentInv
      BY <1>2 DEF PolicyInv
    <3>. QED  BY <2>1, <2>2, <2>4, <3>1 DEF SilentInv
  <2>6. PICK a \in policy.attrs : a \in OfType(policy, t)
    BY DEF OfType, StandsFor, HasAttribute
  <2>7. At(policy.av, <<a, PROC, SOCKET, "auditdeny">>, Perms) = {}
    BY <2>5 DEF Quiet, At
  <2>8. PROC \in OfType(policy, PROC)
    BY DEF OfType
  <2>. QED  BY <2>6, <2>7, <2>8 DEF Audited
<1>3. PolicyInv => MagiskRulesHold
  BY <1>1, <1>2 DEF MagiskRulesHold
<1>. QED  BY <1>3, PolicyInvariant, PTL

\* A type a name of a statement stands for has the name, or an attribute the
\* match-all operator is stored for.
LEMMA NameStored ==
    ASSUME NEW n, NEW t \in StandsFor(n)
    PROVE  \E x \in Names(policy, n) : x \in OfType(policy, t)
<1>1. CASE n = ALL
  <2>1. OfType(policy, t) # {t}
    BY <1>1 DEF StandsFor, HasAttribute
  <2>2. \E a \in policy.attrs : a \in OfType(policy, t)
    BY <2>1 DEF OfType
  <2>. QED  BY <1>1, <2>2 DEF Names
<1>2. CASE n # ALL
  BY <1>2 DEF StandsFor, Means, Names
<1>. QED  BY <1>1, <1>2

\* A statement takes effect and keeps it: what is allowed, until a deny; a
\* range of ioctls, until another one for its node; a context, until one that
\* was there is replaced.
THEOREM StatementsKept == PolicySpec => []StatementsHold
<1>1. ASSUME PolicyInv PROVE AllowHolds
  <2>. SUFFICES ASSUME NEW i \in DOMAIN policyDone, policyDone[i].op = "allow",
                       \A u \in Later(i) : u.op # "deny",
                       NEW s \in StandsFor(policyDone[i].s), NEW t \in StandsFor(policyDone[i].t),
                       NEW c \in IF policyDone[i].c = ALL THEN Classes ELSE {policyDone[i].c},
                       NEW p \in IF policyDone[i].p = ALL THEN Perms ELSE {policyDone[i].p}
                PROVE  Ruled(s, t, c, p)
    BY DEF AllowHolds
  <2>1. \A j \in (i + 1) .. Len(policyDone) : policyDone[j].op # "deny"
    BY DEF Later
  <2>2. AllowStored(policy, policyDone[i])
    BY <1>1, <2>1 DEF PolicyInv, AllowInv
  <2>3. PICK x \in Names(policy, policyDone[i].s) : x \in OfType(policy, s)
    BY NameStored
  <2>4. PICK y \in Names(policy, policyDone[i].t) : y \in OfType(policy, t)
    BY NameStored
  <2>5. Allowed(policy, x, y, c, p)
    BY <2>2 DEF AllowStored, ClassesOf, PermsOf
  <2>. QED  BY <2>3, <2>4, <2>5 DEF Ruled, Allowed
<1>2. ASSUME PolicyInv PROVE IoctlHolds
  <2>. SUFFICES ASSUME NEW i \in DOMAIN policyDone, policyDone[i].op = "allowxperm",
                       \A u \in Later(i) : u.op = "allowxperm" => ~SameNode(u, policyDone[i]),
                       NEW s \in StandsFor(policyDone[i].s), NEW t \in StandsFor(policyDone[i].t),
                       NEW c \in IF policyDone[i].c = ALL THEN Classes ELSE {policyDone[i].c},
                       NEW cmd \in Cmds(policyDone[i])
                PROVE  XAccess(s, t, c, cmd)
    BY DEF IoctlHolds
  <2>. DEFINE st == policyDone[i]
  <2>1. \A j \in (i + 1) .. Len(policyDone) : policyDone[j].op = "allowxperm" => ~SameNode(policyDone[j], st)
    BY DEF Later
  <2>2. RangeStored(policy, st)
    <3>1. RangeInv
      BY <1>2 DEF PolicyInv
    <3>. QED  BY <2>1, <3>1 DEF RangeInv
  <2>3. PICK x \in Names(policy, st.s) : x \in OfType(policy, s)
    BY NameStored
  <2>4. PICK y \in Names(policy, st.t) : y \in OfType(policy, t)
    BY NameStored
  <2>5. Ranged(policy, x, y, c, st)
    BY <2>2 DEF RangeStored, ClassesOf
  <2>6. st \in Calls
    <3>1. PolicyType
      BY <1>2 DEF PolicyInv
    <3>2. policyDone \in Seq(Calls)
      BY <3>1 DEF PolicyType
    <3>. QED  BY <3>2
  <2>7. st.low.driver \in Nat /\ st.high.driver \in Nat
    BY <2>6, CallFacts
  <2>8. cmd.driver \in st.low.driver .. st.high.driver /\ (Spans(st) \/ cmd.func \in st.low.func .. st.high.func)
    BY DEF Cmds
  <2>. HIDE DEF st
  <2>. DEFINE bits(kind, driver) ==
                At(policy.xperm, <<x, y, c, "xperms_allowed", [kind |-> kind, driver |-> driver]>>, {})
  <2>9. cmd.driver \in bits("driver", 0) \/ cmd.func \in bits("function", cmd.driver)
    <3>1. CASE Spans(st)
      <4>1. XNode(st.low, st.high) = [kind |-> "driver", driver |-> 0]
            /\ XBits(st.low, st.high) = st.low.driver .. st.high.driver
        BY <3>1 DEF Spans, XNode, XBits
      <4>2. bits("driver", 0) = st.low.driver .. st.high.driver
        BY <2>5, <4>1 DEF Ranged, At
      <4>. QED  BY <2>8, <4>2
    <3>2. CASE ~Spans(st)
      <4>1. XNode(st.low, st.high) = [kind |-> "function", driver |-> st.low.driver]
            /\ XBits(st.low, st.high) = st.low.func .. st.high.func
        BY <3>2 DEF Spans, XNode, XBits
      <4>2. cmd.driver = st.low.driver
        BY <2>7, <2>8, <3>2 DEF Spans
      <4>3. bits("function", cmd.driver) = st.low.func .. st.high.func
        BY <2>5, <4>1, <4>2 DEF Ranged, At
      <4>. QED  BY <2>8, <3>2, <4>3
    <3>. QED  BY <3>1, <3>2
  <2>. QED  BY <2>3, <2>4, <2>9 DEF XAccess
<1>3. ASSUME PolicyInv PROVE GenfsInserted
  <2>1. \A j : Replaces(j) <=> NamesOld(policyStock, policyDone, j)
    BY DEF Replaces, NamesOld, HasPath, Gives, ListOf
  <2>2. ContextInv
    BY <1>3 DEF PolicyInv
  <2>. QED  BY <2>1, <2>2 DEF ContextInv, ContextStored, GenfsInserted
<1>4. PolicyInv => StatementsHold
  BY <1>1, <1>2, <1>3 DEF StatementsHold
<1>. QED  BY <1>4, PolicyInvariant, PTL
=============================================================================
