--------------------------- MODULE SuAccessProofs ---------------------------
(* Proofs about SuAccess for any number of threads, uids, packages and rows *)
(* and any timeouts.                                                        *)
EXTENDS SuAccess, TLAPS

\* Every uid of a su_info is a number.
LEMMA UidIsNat == \A u \in Uids \cup {UID_ROOT} : u \in Nat
BY UidAssumption DEF UID_ROOT

\* The key of the policy row is a uid number.
LEMMA PolicyUidType ==
    ASSUME NEW i \in InfoRecs
    PROVE  PolicyUid(i) \in Nat /\ UserId(PolicyUid(i)) \in Nat
<1>1. i.uid \in Nat
  BY UidIsNat DEF InfoRecs
<1>0. i.cfg.multiuser_mode \in 0 .. 2
  BY DEF InfoRecs, Settings
<1>2. PolicyUid(i) \in Nat
  BY <1>1, <1>0 DEF PolicyUid, UserId, AppId, MULTIUSER_MODE_OWNER_ONLY,
              MULTIUSER_MODE_OWNER_MANAGED, MULTIUSER_MODE_USER
<1>. QED  BY <1>2 DEF UserId

\* validate_manager leaves a su_info a su_info.
LEMMA ValidatedType ==
    ASSUME NEW i \in InfoRecs
    PROVE  /\ Validated(i) \in InfoRecs
           /\ Validated(i).uid = i.uid /\ Validated(i).access = i.access
           /\ Validated(i).cfg = i.cfg
<1>. DEFINE user == UserId(PolicyUid(i))
            pkg == ManagerPkg(i.str, user)
            st == IF pkg = NoPkg THEN 0 ELSE user * 100000 + PkgAppId[pkg]
<1>1. user \in Nat
  BY PolicyUidType
<1>2. pkg \in Pkgs \cup {NoPkg}
  BY PkgAssumption DEF ManagerPkg, InfoRecs
<1>3. st \in Nat
  <2>1. CASE pkg = NoPkg
    BY <2>1
  <2>2. CASE pkg # NoPkg
    <3>1. PkgAppId[pkg] \in Nat
      BY <1>2, <2>2, PkgAssumption
    <3>. QED  BY <3>1, <2>2, <1>1
  <2>. QED  BY <2>1, <2>2
<1>4. Validated(i) = IF i.access.log \/ i.access.notify
                     THEN [i EXCEPT !.str = pkg, !.st_uid = st] ELSE i
  BY DEF Validated
<1>. HIDE DEF pkg, st, user
<1>. QED  BY <1>2, <1>3, <1>4 DEF InfoRecs

\* The checks of get_su_info yield an access record.
LEMMA DecisionType ==
    ASSUME NEW i \in InfoRecs
    PROVE  Decision(i) \in SuAccesses
BY DEF Decision, InfoRecs, SuAccesses, SILENT_SU_ACCESS, NO_SU_ACCESS, QUERY, DENY, ALLOW

\* Assigning well-typed fields keeps a su_info a su_info.
LEMMA AccessUpdate ==
    ASSUME NEW i \in InfoRecs, NEW a \in SuAccesses
    PROVE  [i EXCEPT !.access = a] \in InfoRecs
BY DEF InfoRecs

\* As AccessUpdate, for what database_check reads first.
LEMMA CfgUpdate ==
    ASSUME NEW i \in InfoRecs, NEW c \in Settings
    PROVE  [i EXCEPT !.cfg = c] \in InfoRecs
BY DEF InfoRecs

\* As AccessUpdate, for the name of the manager.
LEMMA StrUpdate ==
    ASSUME NEW i \in InfoRecs, NEW s \in Pkgs \cup {NoPkg}
    PROVE  [i EXCEPT !.str = s] \in InfoRecs
BY DEF InfoRecs

\* The settings stay settings, whichever rows the query returned.
LEMMA MergedType ==
    ASSUME TypeOK, NEW c \in Settings, NEW got
    PROVE  Merged(c, got) \in Settings
<1>1. settings \in Settings
  BY DEF TypeOK
<1>2. /\ settings = [root_access |-> settings.root_access,
                     multiuser_mode |-> settings.multiuser_mode]
      /\ settings.root_access \in 0 .. 3 /\ settings.multiuser_mode \in 0 .. 2
      /\ c.root_access \in 0 .. 3 /\ c.multiuser_mode \in 0 .. 2
  BY <1>1 DEF Settings
<1>. DEFINE m == Merged(c, got)
<1>3. DOMAIN settings = {"root_access", "multiuser_mode"}
  BY <1>2
<1>4. m = [k \in {"root_access", "multiuser_mode"} |->
               IF k \in got THEN settings[k] ELSE c[k]]
  BY <1>3 DEF Merged
<1>. HIDE DEF m
<1>5. m.root_access \in 0 .. 3 /\ m.multiuser_mode \in 0 .. 2
  BY <1>2, <1>4
<1>6. m = [root_access |-> m.root_access, multiuser_mode |-> m.multiuser_mode]
  BY <1>4
<1>. QED  BY <1>5, <1>6 DEF Settings, m

\* As AccessUpdate, for the answer of the manager.
LEMMA PolicyUpdate ==
    ASSUME NEW i \in InfoRecs, NEW p \in {DENY, ALLOW}
    PROVE  [i EXCEPT !.access = [i.access EXCEPT !.policy = p]] \in InfoRecs
<1>1. [i.access EXCEPT !.policy = p] \in SuAccesses
  BY DEF InfoRecs, SuAccesses
<1>. QED  BY <1>1, AccessUpdate

\* Replacing one su_info by another keeps the table of objects well typed.
LEMMA InfoUpdate ==
    ASSUME TypeOK, NEW i, NEW r,
           i \in Threads => r \in InfoRecs
    PROVE  [info EXCEPT ![i] = r] \in [Threads -> InfoRecs]
BY DEF TypeOK

\* Each action, and hence Next, preserves the types.
LEMMA TypeStep == TypeOK /\ [Next]_vars => TypeOK'
<1>. SUFFICES ASSUME TypeOK, [Next]_vars
              PROVE  TypeOK'
  OBVIOUS
<1>. USE DEF TypeOK, Goto, Return, PcLabels
<1>1. ASSUME NEW t \in Threads, NEW u \in Uids, Request(t, u)
      PROVE  TypeOK'
  BY <1>1 DEF Request, promptVars, dbVars
<1>2. ASSUME NEW t \in Threads, LockCache(t) \/ Take(t) \/ LockInfo(t) \/ UseDecided(t)
      PROVE  TypeOK'
  BY <1>2, BoundAssumption DEF LockCache, Take, LockInfo, UseDecided, promptVars, dbVars
<1>3. ASSUME NEW t \in Threads, Lookup(t)
      PROVE  TypeOK'
  <2>1. NewInfo(uid[t]) \in InfoRecs
    <3>1. DEFAULT_SU_ACCESS \in SuAccesses
      BY DEF SuAccesses, DEFAULT_SU_ACCESS, QUERY
    <3>2. [root_access |-> ROOT_ACCESS_APPS_AND_ADB,
           multiuser_mode |-> MULTIUSER_MODE_OWNER_ONLY] \in Settings
      BY DEF Settings, ROOT_ACCESS_APPS_AND_ADB, MULTIUSER_MODE_OWNER_ONLY
    <3>. QED  BY <3>1, <3>2 DEF NewInfo, InfoRecs
  <2>. QED  BY <1>3, <2>1, BoundAssumption DEF Lookup, promptVars, dbVars
<1>4. ASSUME NEW t \in Threads, ReadSettings(t)
      PROVE  TypeOK'
  <2>. DEFINE r(got) == [info[ref[t]] EXCEPT !.cfg = Merged(info[ref[t]].cfg, got)]
  <2>1. PICK got \in SUBSET DOMAIN settings : info' = [info EXCEPT ![ref[t]] = r(got)]
    BY <1>4 DEF ReadSettings
  <2>2. info' \in [Threads -> InfoRecs]
    <3>1. ref[t] \in Threads => r(got) \in InfoRecs
      <4>. SUFFICES ASSUME ref[t] \in Threads
                    PROVE  r(got) \in InfoRecs
        OBVIOUS
      <4>1. info[ref[t]] \in InfoRecs /\ info[ref[t]].cfg \in Settings
        BY DEF InfoRecs
      <4>2. Merged(info[ref[t]].cfg, got) \in Settings
        BY <4>1, MergedType
      <4>. QED  BY <4>1, <4>2, CfgUpdate
    <3>. HIDE DEF r, TypeOK
    <3>. QED  BY <2>1, <3>1, InfoUpdate
  <2>. QED  BY <1>4, <2>2 DEF ReadSettings, DecideUnchanged, promptVars, dbVars
<1>4s. ASSUME NEW t \in Threads, ReadStrings(t)
       PROVE  TypeOK'
  <2>. DEFINE r(pkg) == [info[ref[t]] EXCEPT !.str = pkg]
  <2>1. PICK pkg \in {requester, info[ref[t]].str} : info' = [info EXCEPT ![ref[t]] = r(pkg)]
    BY <1>4s DEF ReadStrings
  <2>2. info' \in [Threads -> InfoRecs]
    <3>1. ref[t] \in Threads => r(pkg) \in InfoRecs
      <4>1. ref[t] \in Threads => pkg \in Pkgs \cup {NoPkg}
        BY <2>1 DEF InfoRecs
      <4>. QED  BY <4>1, StrUpdate
    <3>. HIDE DEF r, TypeOK
    <3>. QED  BY <2>1, <3>1, InfoUpdate
  <2>. QED  BY <1>4s, <2>2 DEF ReadStrings, DecideUnchanged, promptVars, dbVars
<1>5. ASSUME NEW t \in Threads, ReadPolicy(t)
      PROVE  TypeOK'
  <2>. DEFINE k == PolicyUid(info[ref[t]])
              found == IF k > 0 THEN LiveRow(k) ELSE NoRow
              acc(row) == IF OwnerOnlyDenied(info[ref[t]]) THEN NO_SU_ACCESS
                          ELSE IF row = NoRow THEN info[ref[t]].access
                          ELSE [policy |-> row.policy, log |-> row.log, notify |-> row.notify]
  <2>2. PICK row \in {found, NoRow} :
            info' = [info EXCEPT ![ref[t]] = [info[ref[t]] EXCEPT !.access = acc(row)]]
    BY <1>5 DEF ReadPolicy
  <2>1. row \in PolicyRows \cup {NoRow}
    BY <2>2 DEF LiveRow
  <2>. DEFINE a == acc(row)
  <2>3. ref[t] \in Threads => a \in SuAccesses
    <3>1. NO_SU_ACCESS \in SuAccesses
      BY DEF SuAccesses, NO_SU_ACCESS
    <3>2. row # NoRow =>
              [policy |-> row.policy, log |-> row.log, notify |-> row.notify] \in SuAccesses
      BY <2>1 DEF SuAccesses, PolicyRows
    <3>3. ref[t] \in Threads => info[ref[t]].access \in SuAccesses
      BY DEF InfoRecs
    <3>. QED  BY <3>1, <3>2, <3>3
  <2>4. info' \in [Threads -> InfoRecs]
    <3>. DEFINE r == [info[ref[t]] EXCEPT !.access = a]
    <3>1. ref[t] \in Threads => r \in InfoRecs
      <4>. HIDE DEF a
      <4>. QED  BY <2>3, AccessUpdate
    <3>. HIDE DEF r, TypeOK
    <3>. QED  BY <2>2, <3>1, InfoUpdate DEF r
  <2>. QED  BY <1>5, <2>4 DEF ReadPolicy, DecideUnchanged, promptVars, dbVars
<1>6. ASSUME NEW t \in Threads, Decide(t)
      PROVE  TypeOK'
  <2>. DEFINE i == Validated(info[ref[t]])
              r == [i EXCEPT !.access = Decision(i)]
  <2>1. ref[t] \in Threads => r \in InfoRecs
    <3>1. ref[t] \in Threads => i \in InfoRecs
      BY ValidatedType
    <3>. HIDE DEF i
    <3>2. i \in InfoRecs => Decision(i) \in SuAccesses
      BY DecisionType
    <3>. QED  BY <3>1, <3>2, AccessUpdate
  <2>2. info' = [info EXCEPT ![ref[t]] = r]
    BY <1>6 DEF Decide
  <2>3. info' \in [Threads -> InfoRecs]
    <3>. HIDE DEF r
    <3>. QED  BY <2>1, <2>2
  <2>. QED  BY <1>6, <2>3 DEF Decide, DecideUnchanged, promptVars, dbVars
<1>7. ASSUME NEW t \in Threads,
             SendRequest(t) \/ ManagerOpens(t) \/ OpenFails(t) \/ ManagerCloses(t)
      PROVE  TypeOK'
  BY <1>7, BoundAssumption
  DEF SendRequest, ManagerOpens, OpenFails, ManagerCloses, PromptUnchanged, dbVars
<1>8. ASSUME NEW t \in Threads, NEW r \in Rows, NEW keep \in BOOLEAN,
             ManagerResponds(t, r, keep)
      PROVE  TypeOK'
  BY <1>8 DEF ManagerResponds, PromptUnchanged, dbVars
<1>9. ASSUME NEW t \in Threads, ManagerStores(t)
      PROVE  TypeOK'
  BY <1>9, RowAssumption DEF ManagerStores, threadVars
<1>10. ASSUME NEW t \in Threads, PollReady(t) \/ PollTimeout(t)
       PROVE  TypeOK'
  <2>. DEFINE r(p) == [info[ref[t]] EXCEPT
                          !.access = [info[ref[t]].access EXCEPT !.policy = p]]
  <2>1. PICK p \in {DENY, ALLOW} : info' = [info EXCEPT ![ref[t]] = r(p)]
    BY <1>10 DEF PollReady, PollTimeout
  <2>2. info' \in [Threads -> InfoRecs]
    <3>1. ref[t] \in Threads => r(p) \in InfoRecs
      BY PolicyUpdate
    <3>. HIDE DEF r, TypeOK
    <3>. QED  BY <2>1, <3>1, InfoUpdate
  <2>. QED  BY <1>10, <2>2, BoundAssumption
            DEF PollReady, PollTimeout, PromptUnchanged, dbVars
<1>11. ASSUME NEW t \in Threads, Answer(t)
       PROVE  TypeOK'
  BY <1>11 DEF Answer, promptVars, dbVars
<1>12. CASE Tick
  <2>1. policies' \in [Uids -> PolicyRows \cup {NoRow}]
    <3>1. ASSUME NEW u \in Uids, policies[u] # NoRow, ~(policies[u].until <= 0)
          PROVE  [policies[u] EXCEPT !.until = @ - 1] \in PolicyRows
      <4>1. policies[u] \in PolicyRows
        BY <3>1
      <4>2. policies[u].until \in Nat
        BY <3>1, <4>1 DEF PolicyRows, Lifetimes
      <4>3. policies[u].until - 1 \in Lifetimes
        BY <4>2 DEF Lifetimes
      <4>. QED  BY <4>1, <4>3 DEF PolicyRows
    <3>. QED  BY <1>12, <3>1 DEF Tick
  <2>. QED  BY <1>12, <2>1, BoundAssumption DEF Tick, threadVars
<1>13. CASE EditDatabase
  BY <1>13, InitAssumption, RowAssumption, BoundAssumption
  DEF EditDatabase, threadVars, promptVars
<1>14. CASE UNCHANGED vars
  BY <1>14 DEF vars
<1>. QED
  BY <1>1, <1>2, <1>3, <1>4, <1>4s, <1>5, <1>6, <1>7, <1>8, <1>9, <1>10, <1>11, <1>12,
     <1>13, <1>14 DEF Next, ThreadStep, ManagerStep

\* The inductive invariant is preserved: one step per action, and under it the
\* parts about references and locks, about decisions, prompts and grants.
LEMMA InvStep == IInv /\ [Next]_vars => IInv'
<1>. SUFFICES ASSUME IInv, [Next]_vars
              PROVE  IInv'
  OBVIOUS
<1>. USE DEF Critical, Deciding, Holding, Allocated
<1>0. TypeOK /\ TypeOK'
  BY TypeStep DEF IInv
<1>1. ASSUME NEW t \in Threads, NEW u \in Uids, Request(t, u)
      PROVE  IInv'
  <2>1. RefInv' /\ CacheInv' /\ LockInv' /\ OwnInfo' /\ VerdictInv'
    BY <1>0, <1>1, ThreadAssumption DEF IInv, TypeOK, RefInv, CacheInv, LockInv, OwnInfo,
        VerdictInv, Request, Goto
  <2>2. SettledInv' /\ AnswersAgree'
    BY <1>0, <1>1, ThreadAssumption DEF IInv, TypeOK, SettledInv, AnswersAgree, VerdictInv,
        RefInv, LockInv, Pending, Request, Goto
  <2>3. PromptInv'
    BY <1>0, <1>1, ThreadAssumption DEF IInv, TypeOK, PromptInv, RefInv, LockInv, Pending,
        Request, Goto, promptVars
  <2>4. GrantInv' /\ GrantJustified'
    BY <1>0, <1>1, ThreadAssumption DEF IInv, TypeOK, GrantInv, GrantJustified, RefInv,
        LockInv, Pending, Request, Goto
  <2>. QED  BY <1>0, <2>1, <2>2, <2>3, <2>4 DEF IInv
<1>2. ASSUME NEW t \in Threads, LockCache(t)
      PROVE  IInv'
  <2>1. RefInv' /\ CacheInv' /\ LockInv' /\ OwnInfo' /\ VerdictInv'
    BY <1>0, <1>2, ThreadAssumption DEF IInv, TypeOK, RefInv, CacheInv, LockInv, OwnInfo,
        VerdictInv, LockCache, Goto
  <2>2. SettledInv' /\ AnswersAgree'
    BY <1>0, <1>2, ThreadAssumption DEF IInv, TypeOK, SettledInv, AnswersAgree, VerdictInv,
        RefInv, LockInv, Pending, LockCache, Goto
  <2>3. PromptInv'
    BY <1>0, <1>2, ThreadAssumption DEF IInv, TypeOK, PromptInv, RefInv, LockInv, Pending,
        LockCache, Goto, promptVars
  <2>4. GrantInv' /\ GrantJustified'
    BY <1>0, <1>2, ThreadAssumption DEF IInv, TypeOK, GrantInv, GrantJustified, RefInv,
        LockInv, Pending, LockCache, Goto
  <2>. QED  BY <1>0, <2>1, <2>2, <2>3, <2>4 DEF IInv
<1>3. ASSUME NEW t \in Threads, Lookup(t)
      PROVE  IInv'
  <2>1. RefInv' /\ CacheInv' /\ LockInv' /\ OwnInfo' /\ VerdictInv'
    BY <1>0, <1>3, ThreadAssumption DEF IInv, TypeOK, RefInv, CacheInv, LockInv, OwnInfo,
        VerdictInv, Lookup, Goto, NewInfo, DEFAULT_SU_ACCESS
  <2>2. SettledInv' /\ AnswersAgree'
    <3>1. \A u \in Threads : ref[u] \in Threads =>
              info'[ref[u]] = info[ref[u]] /\ Pending(ref[u])' = Pending(ref[u])
      BY <1>0, <1>3 DEF IInv, TypeOK, RefInv, Lookup, Goto, Pending
    <3>2. SettledInv'
      BY <1>0, <1>3, <3>1 DEF IInv, TypeOK, SettledInv, RefInv, Lookup, Goto
    <3>3. AnswersAgree'
      BY <1>0, <1>3, <3>1 DEF IInv, TypeOK, AnswersAgree, VerdictInv, RefInv, Lookup, Goto
    <3>. QED  BY <3>2, <3>3
  <2>3. PromptInv'
    BY <1>0, <1>3, ThreadAssumption DEF IInv, TypeOK, PromptInv, RefInv, LockInv, Pending,
        Lookup, Goto, promptVars, NewInfo, DEFAULT_SU_ACCESS
  <2>4. GrantInv' /\ GrantJustified'
    BY <1>0, <1>3, ThreadAssumption, SMTT(30) DEF IInv, TypeOK, GrantInv, GrantJustified, RefInv,
        LockInv, Pending, Lookup, Goto, NewInfo, DEFAULT_SU_ACCESS, QUERY, ALLOW
  <2>. QED  BY <1>0, <2>1, <2>2, <2>3, <2>4 DEF IInv
<1>4. ASSUME NEW t \in Threads, Take(t)
      PROVE  IInv'
  <2>1. RefInv' /\ CacheInv' /\ LockInv' /\ OwnInfo' /\ VerdictInv'
    BY <1>0, <1>4, ThreadAssumption DEF IInv, TypeOK, RefInv, CacheInv, LockInv, OwnInfo,
        VerdictInv, Take, Goto
  <2>2. SettledInv' /\ AnswersAgree'
    BY <1>0, <1>4, ThreadAssumption DEF IInv, TypeOK, SettledInv, AnswersAgree, VerdictInv,
        RefInv, LockInv, Pending, Take, Goto
  <2>3. PromptInv'
    BY <1>0, <1>4, ThreadAssumption DEF IInv, TypeOK, PromptInv, RefInv, LockInv, Pending,
        Take, Goto, promptVars
  <2>4. GrantInv' /\ GrantJustified'
    BY <1>0, <1>4, ThreadAssumption DEF IInv, TypeOK, GrantInv, GrantJustified, RefInv,
        LockInv, Pending, Take, Goto
  <2>. QED  BY <1>0, <2>1, <2>2, <2>3, <2>4 DEF IInv
<1>5. ASSUME NEW t \in Threads, LockInfo(t)
      PROVE  IInv'
  <2>1. RefInv' /\ CacheInv' /\ LockInv' /\ OwnInfo' /\ VerdictInv'
    BY <1>0, <1>5, ThreadAssumption DEF IInv, TypeOK, RefInv, CacheInv, LockInv, OwnInfo,
        VerdictInv, LockInfo, Goto
  <2>2. SettledInv' /\ AnswersAgree'
    BY <1>0, <1>5, ThreadAssumption DEF IInv, TypeOK, SettledInv, AnswersAgree, VerdictInv,
        RefInv, LockInv, Pending, LockInfo, Goto
  <2>3. PromptInv'
    BY <1>0, <1>5, ThreadAssumption DEF IInv, TypeOK, PromptInv, RefInv, LockInv, Pending,
        LockInfo, Goto, promptVars
  <2>4. GrantInv' /\ GrantJustified'
    BY <1>0, <1>5, ThreadAssumption DEF IInv, TypeOK, GrantInv, GrantJustified, RefInv,
        LockInv, Pending, LockInfo, Goto
  <2>. QED  BY <1>0, <2>1, <2>2, <2>3, <2>4 DEF IInv
<1>6. ASSUME NEW t \in Threads, UseDecided(t)
      PROVE  IInv'
  <2>1. RefInv' /\ CacheInv' /\ LockInv' /\ OwnInfo' /\ VerdictInv'
    BY <1>0, <1>6, ThreadAssumption DEF IInv, TypeOK, RefInv, CacheInv, LockInv, OwnInfo,
        VerdictInv, UseDecided, Return, Goto
  <2>2. SettledInv' /\ AnswersAgree'
    BY <1>0, <1>6, ThreadAssumption DEF IInv, TypeOK, SettledInv, AnswersAgree, VerdictInv,
        RefInv, LockInv, Pending, UseDecided, Return, Goto
  <2>3. PromptInv'
    BY <1>0, <1>6, ThreadAssumption DEF IInv, TypeOK, PromptInv, RefInv, LockInv, Pending,
        UseDecided, Return, Goto, promptVars
  <2>4. GrantInv' /\ GrantJustified'
    BY <1>0, <1>6, ThreadAssumption DEF IInv, TypeOK, GrantInv, GrantJustified, RefInv,
        LockInv, Pending, UseDecided, Return, Goto
  <2>. QED  BY <1>0, <2>1, <2>2, <2>3, <2>4 DEF IInv
<1>7. ASSUME NEW t \in Threads, ReadSettings(t)
      PROVE  IInv'
  <2>1. RefInv' /\ CacheInv' /\ LockInv' /\ OwnInfo' /\ VerdictInv'
    BY <1>0, <1>7, ThreadAssumption DEF IInv, TypeOK, RefInv, CacheInv, LockInv, OwnInfo,
        VerdictInv, ReadSettings, Goto, DecideUnchanged
  <2>2. SettledInv' /\ AnswersAgree'
    BY <1>0, <1>7, ThreadAssumption DEF IInv, TypeOK, SettledInv, AnswersAgree, VerdictInv,
        RefInv, LockInv, Pending, ReadSettings, Goto, DecideUnchanged
  <2>3. PromptInv'
    BY <1>0, <1>7, ThreadAssumption DEF IInv, TypeOK, PromptInv, RefInv, LockInv, Pending,
        ReadSettings, Goto, DecideUnchanged, promptVars
  <2>4. GrantInv' /\ GrantJustified'
    BY <1>0, <1>7, ThreadAssumption DEF IInv, TypeOK, GrantInv, GrantJustified, RefInv,
        LockInv, Pending, ReadSettings, Goto, DecideUnchanged
  <2>. QED  BY <1>0, <2>1, <2>2, <2>3, <2>4 DEF IInv
<1>7s. ASSUME NEW t \in Threads, ReadStrings(t)
       PROVE  IInv'
  <2>1. RefInv' /\ CacheInv' /\ LockInv' /\ OwnInfo' /\ VerdictInv'
    BY <1>0, <1>7s, ThreadAssumption DEF IInv, TypeOK, RefInv, CacheInv, LockInv, OwnInfo,
        VerdictInv, ReadStrings, Goto, DecideUnchanged
  <2>2. SettledInv' /\ AnswersAgree'
    BY <1>0, <1>7s, ThreadAssumption DEF IInv, TypeOK, SettledInv, AnswersAgree, VerdictInv,
        RefInv, LockInv, Pending, ReadStrings, Goto, DecideUnchanged
  <2>3. PromptInv'
    BY <1>0, <1>7s, ThreadAssumption DEF IInv, TypeOK, PromptInv, RefInv, LockInv, Pending,
        ReadStrings, Goto, DecideUnchanged, promptVars
  <2>4. GrantInv' /\ GrantJustified'
    BY <1>0, <1>7s, ThreadAssumption DEF IInv, TypeOK, GrantInv, GrantJustified, RefInv,
        LockInv, Pending, ReadStrings, Goto, DecideUnchanged
  <2>. QED  BY <1>0, <2>1, <2>2, <2>3, <2>4 DEF IInv
<1>8. ASSUME NEW t \in Threads, ReadPolicy(t)
      PROVE  IInv'
  <2>1. RefInv' /\ CacheInv' /\ LockInv' /\ OwnInfo' /\ VerdictInv'
    BY <1>0, <1>8, ThreadAssumption DEF IInv, TypeOK, RefInv, CacheInv, LockInv, OwnInfo,
        VerdictInv, ReadPolicy, Goto, DecideUnchanged
  <2>2. SettledInv' /\ AnswersAgree'
    BY <1>0, <1>8, ThreadAssumption DEF IInv, TypeOK, SettledInv, AnswersAgree, VerdictInv,
        RefInv, LockInv, Pending, ReadPolicy, Goto, DecideUnchanged
  <2>3. PromptInv'
    BY <1>0, <1>8, ThreadAssumption DEF IInv, TypeOK, PromptInv, RefInv, LockInv, Pending,
        ReadPolicy, Goto, DecideUnchanged, promptVars
  <2>4. GrantInv' /\ GrantJustified'
    <3>1. info'[ref[t]].uid = info[ref[t]].uid /\ info'[ref[t]].cfg = info[ref[t]].cfg
      BY <1>0, <1>8 DEF ReadPolicy, IInv, RefInv, TypeOK, InfoRecs
    <3>2. OwnerOnlyDenied(info'[ref[t]]) => info'[ref[t]].access = NO_SU_ACCESS
      BY <1>0, <1>8, <3>1 DEF ReadPolicy, IInv, RefInv, TypeOK, InfoRecs, OwnerOnlyDenied
    <3>3. GrantInv'
      BY <1>0, <1>8, <3>2 DEF IInv, TypeOK, GrantInv, RefInv, LockInv, ReadPolicy, Goto,
          DecideUnchanged
    <3>4. GrantJustified'
      BY <1>0, <1>8 DEF IInv, TypeOK, GrantJustified, RefInv, LockInv, Pending, ReadPolicy,
          Goto, DecideUnchanged
    <3>. QED  BY <3>3, <3>4
  <2>. QED  BY <1>0, <2>1, <2>2, <2>3, <2>4 DEF IInv
<1>9. ASSUME NEW t \in Threads, Decide(t)
      PROVE  IInv'
  <2>. DEFINE i == Validated(info[ref[t]])
              r == [i EXCEPT !.access = Decision(i)]
  <2>a. ref[t] \in Threads
    BY <1>0, <1>9 DEF IInv, RefInv, Decide
  <2>b. info' = [info EXCEPT ![ref[t]] = r]
    BY <1>9 DEF Decide
  <2>c. /\ i.uid = info[ref[t]].uid /\ i.cfg = info[ref[t]].cfg
        /\ i.access = info[ref[t]].access
        /\ i \in InfoRecs
    BY <1>0, <2>a, ValidatedType DEF TypeOK
  <2>d. /\ r.uid = info[ref[t]].uid /\ r.cfg = info[ref[t]].cfg /\ r.st_uid = i.st_uid
        /\ r.access = Decision(i)
    BY <2>c DEF InfoRecs
  <2>e. /\ IF r.access.policy # QUERY
           THEN Return(t)
           ELSE Goto(t, "request") /\ UNCHANGED infoLock
        /\ pc[t] = "decide"
        /\ DecideUnchanged
    BY <1>9, <2>d DEF Decide
  <2>. HIDE DEF i, r
  <2>1. RefInv' /\ CacheInv' /\ LockInv' /\ OwnInfo' /\ VerdictInv'
    <3>1. RefInv'
      BY <1>0, <2>a, <2>b, <2>e DEF IInv, TypeOK, RefInv, Return, Goto, DecideUnchanged
    <3>2. CacheInv' /\ VerdictInv'
      BY <1>0, <2>a, <2>b, <2>d, <2>e DEF IInv, TypeOK, RefInv, CacheInv, VerdictInv, Return,
          Goto, DecideUnchanged
    <3>3. LockInv' /\ OwnInfo'
      BY <1>0, <2>a, <2>b, <2>d, <2>e DEF IInv, TypeOK, RefInv, LockInv, OwnInfo, Return,
          Goto, DecideUnchanged
    <3>. QED  BY <3>1, <3>2, <3>3
  <2>2. SettledInv' /\ AnswersAgree'
    BY <1>0, <2>a, <2>b, <2>c, <2>d, <2>e DEF IInv, TypeOK, SettledInv, AnswersAgree,
        VerdictInv, RefInv, LockInv, Pending, Return, Goto, DecideUnchanged
  <2>3. PromptInv'
    BY <1>0, <2>a, <2>b, <2>c, <2>d, <2>e DEF IInv, TypeOK, PromptInv, RefInv, LockInv,
        Pending, Return, Goto, DecideUnchanged, promptVars
  <2>4. GrantInv' /\ GrantJustified'
    <3>1. OwnerOnlyDenied(i) => \/ Decision(i) = SILENT_SU_ACCESS /\ IsRootOrManager(i)
                                \/ Decision(i) = NO_SU_ACCESS
      <4>1. OwnerOnlyDenied(i) => i.access = NO_SU_ACCESS
        BY <1>0, <2>a, <2>c, <2>e DEF IInv, GrantInv, OwnerOnlyDenied
      <4>. QED  BY <4>1 DEF Decision
    <3>2. Decision(i).policy = QUERY => ~RootAccessDenied(i) /\ ~OwnerOnlyDenied(i)
      BY <3>1 DEF Decision, SILENT_SU_ACCESS, NO_SU_ACCESS, QUERY, DENY, ALLOW
    <3>3. Decision(i).policy = ALLOW =>
              \/ IsRootOrManager(i)
              \/ ~RootAccessDenied(i) /\ ~OwnerOnlyDenied(i)
      BY <3>1 DEF Decision, SILENT_SU_ACCESS, NO_SU_ACCESS, QUERY, DENY, ALLOW
    <3>4. /\ IsRootOrManager(r) = IsRootOrManager(i)
          /\ RootAccessDenied(r) = RootAccessDenied(i)
          /\ OwnerOnlyDenied(r) = OwnerOnlyDenied(i)
      BY <2>c, <2>d DEF IsRootOrManager, RootAccessDenied, OwnerOnlyDenied
    <3>5. GrantInv'
      BY <1>0, <2>a, <2>b, <2>d, <2>e, <3>2, <3>4
      DEF IInv, TypeOK, GrantInv, RefInv, LockInv, Return, Goto, DecideUnchanged
    <3>6. GrantJustified'
      BY <1>0, <2>a, <2>b, <2>d, <2>e, <3>3, <3>4
      DEF IInv, TypeOK, GrantJustified, RefInv, LockInv, Pending, Return, Goto, DecideUnchanged
    <3>. QED  BY <3>5, <3>6
  <2>. QED  BY <1>0, <2>1, <2>2, <2>3, <2>4 DEF IInv
<1>10. ASSUME NEW t \in Threads, SendRequest(t)
      PROVE  IInv'
  <2>1. RefInv' /\ CacheInv' /\ LockInv' /\ OwnInfo' /\ VerdictInv'
    BY <1>0, <1>10, ThreadAssumption DEF IInv, TypeOK, RefInv, CacheInv, LockInv, OwnInfo,
        VerdictInv, SendRequest, Goto, PromptUnchanged
  <2>2. SettledInv' /\ AnswersAgree'
    BY <1>0, <1>10, ThreadAssumption DEF IInv, TypeOK, SettledInv, AnswersAgree, VerdictInv,
        RefInv, LockInv, Pending, SendRequest, Goto, PromptUnchanged
  <2>3. PromptInv'
    BY <1>0, <1>10, ThreadAssumption DEF IInv, TypeOK, PromptInv, RefInv, LockInv, Pending,
        SendRequest, Goto, PromptUnchanged
  <2>4. GrantInv' /\ GrantJustified'
    BY <1>0, <1>10, ThreadAssumption DEF IInv, TypeOK, GrantInv, GrantJustified, RefInv,
        LockInv, Pending, SendRequest, Goto, PromptUnchanged
  <2>. QED  BY <1>0, <2>1, <2>2, <2>3, <2>4 DEF IInv
<1>11. ASSUME NEW t \in Threads, ManagerOpens(t)
      PROVE  IInv'
  <2>1. RefInv' /\ CacheInv' /\ LockInv' /\ OwnInfo' /\ VerdictInv'
    BY <1>0, <1>11, ThreadAssumption DEF IInv, TypeOK, RefInv, CacheInv, LockInv, OwnInfo,
        VerdictInv, ManagerOpens, Goto, PromptUnchanged
  <2>2. SettledInv' /\ AnswersAgree'
    BY <1>0, <1>11, ThreadAssumption DEF IInv, TypeOK, SettledInv, AnswersAgree, VerdictInv,
        RefInv, LockInv, Pending, ManagerOpens, Goto, PromptUnchanged
  <2>3. PromptInv'
    BY <1>0, <1>11, ThreadAssumption DEF IInv, TypeOK, PromptInv, RefInv, LockInv, Pending,
        ManagerOpens, Goto, PromptUnchanged
  <2>4. GrantInv' /\ GrantJustified'
    BY <1>0, <1>11, ThreadAssumption DEF IInv, TypeOK, GrantInv, GrantJustified, RefInv,
        LockInv, Pending, ManagerOpens, Goto, PromptUnchanged
  <2>. QED  BY <1>0, <2>1, <2>2, <2>3, <2>4 DEF IInv
<1>12. ASSUME NEW t \in Threads, OpenFails(t)
      PROVE  IInv'
  <2>1. RefInv' /\ CacheInv' /\ LockInv' /\ OwnInfo' /\ VerdictInv'
    BY <1>0, <1>12, ThreadAssumption DEF IInv, TypeOK, RefInv, CacheInv, LockInv, OwnInfo,
        VerdictInv, OpenFails, Goto, PromptUnchanged
  <2>2. SettledInv' /\ AnswersAgree'
    BY <1>0, <1>12, ThreadAssumption DEF IInv, TypeOK, SettledInv, AnswersAgree, VerdictInv,
        RefInv, LockInv, Pending, OpenFails, Goto, PromptUnchanged
  <2>3. PromptInv'
    BY <1>0, <1>12, ThreadAssumption DEF IInv, TypeOK, PromptInv, RefInv, LockInv, Pending,
        OpenFails, Goto, PromptUnchanged
  <2>4. GrantInv' /\ GrantJustified'
    BY <1>0, <1>12, ThreadAssumption DEF IInv, TypeOK, GrantInv, GrantJustified, RefInv,
        LockInv, Pending, OpenFails, Goto, PromptUnchanged
  <2>. QED  BY <1>0, <2>1, <2>2, <2>3, <2>4 DEF IInv
<1>13. ASSUME NEW t \in Threads, PollReady(t)
      PROVE  IInv'
  <2>1. RefInv' /\ CacheInv' /\ LockInv' /\ OwnInfo' /\ VerdictInv'
    BY <1>0, <1>13, ThreadAssumption DEF IInv, TypeOK, RefInv, CacheInv, LockInv, OwnInfo,
        VerdictInv, PollReady, Return, Goto, PromptUnchanged
  <2>2. SettledInv' /\ AnswersAgree'
    BY <1>0, <1>13, ThreadAssumption DEF IInv, TypeOK, SettledInv, AnswersAgree, VerdictInv,
        RefInv, LockInv, Pending, PollReady, Return, Goto, PromptUnchanged, QUERY, DENY,
        ALLOW
  <2>3. PromptInv'
    BY <1>0, <1>13, ThreadAssumption DEF IInv, TypeOK, PromptInv, RefInv, LockInv, Pending,
        PollReady, Return, Goto, PromptUnchanged, QUERY, DENY, ALLOW
  <2>4. GrantInv' /\ GrantJustified'
    <3>1. /\ RootAccessDenied(info'[ref[t]]) = RootAccessDenied(info[ref[t]])
          /\ OwnerOnlyDenied(info'[ref[t]]) = OwnerOnlyDenied(info[ref[t]])
      BY <1>0, <1>13 DEF PollReady, IInv, TypeOK, RefInv, InfoRecs, RootAccessDenied, OwnerOnlyDenied
    <3>2. GrantInv'
      BY <1>0, <1>13, <3>1
      DEF IInv, TypeOK, GrantInv, RefInv, LockInv, PollReady, Return, Goto, PromptUnchanged
    <3>3. GrantJustified'
      BY <1>0, <1>13, <3>1
      DEF IInv, TypeOK, GrantInv, GrantJustified, RefInv, LockInv, Pending, PollReady, Return, Goto,
          PromptUnchanged
    <3>. QED  BY <3>2, <3>3
  <2>. QED  BY <1>0, <2>1, <2>2, <2>3, <2>4 DEF IInv
<1>14. ASSUME NEW t \in Threads, PollTimeout(t)
      PROVE  IInv'
  <2>1. RefInv' /\ CacheInv' /\ LockInv' /\ OwnInfo' /\ VerdictInv'
    BY <1>0, <1>14, ThreadAssumption DEF IInv, TypeOK, RefInv, CacheInv, LockInv, OwnInfo,
        VerdictInv, PollTimeout, Return, Goto, PromptUnchanged
  <2>2. SettledInv' /\ AnswersAgree'
    BY <1>0, <1>14, ThreadAssumption DEF IInv, TypeOK, SettledInv, AnswersAgree, VerdictInv,
        RefInv, LockInv, Pending, PollTimeout, Return, Goto, PromptUnchanged, QUERY, DENY,
        ALLOW
  <2>3. PromptInv'
    BY <1>0, <1>14, ThreadAssumption DEF IInv, TypeOK, PromptInv, RefInv, LockInv, Pending,
        PollTimeout, Return, Goto, PromptUnchanged, QUERY, DENY, ALLOW
  <2>4. GrantInv' /\ GrantJustified'
    <3>1. /\ RootAccessDenied(info'[ref[t]]) = RootAccessDenied(info[ref[t]])
          /\ OwnerOnlyDenied(info'[ref[t]]) = OwnerOnlyDenied(info[ref[t]])
      BY <1>0, <1>14 DEF PollTimeout, IInv, TypeOK, RefInv, InfoRecs, RootAccessDenied, OwnerOnlyDenied
    <3>2. GrantInv'
      BY <1>0, <1>14, <3>1
      DEF IInv, TypeOK, GrantInv, RefInv, LockInv, PollTimeout, Return, Goto, PromptUnchanged
    <3>3. GrantJustified'
      BY <1>0, <1>14, <3>1
      DEF IInv, TypeOK, GrantInv, GrantJustified, RefInv, LockInv, Pending, PollTimeout, Return, Goto,
          PromptUnchanged
    <3>. QED  BY <3>2, <3>3
  <2>. QED  BY <1>0, <2>1, <2>2, <2>3, <2>4 DEF IInv
<1>15. ASSUME NEW t \in Threads, Answer(t)
      PROVE  IInv'
  <2>1. RefInv' /\ CacheInv' /\ LockInv' /\ OwnInfo' /\ VerdictInv'
    BY <1>0, <1>15, ThreadAssumption DEF IInv, TypeOK, RefInv, CacheInv, LockInv, OwnInfo,
        VerdictInv, Answer, Goto
  <2>2. SettledInv' /\ AnswersAgree'
    BY <1>0, <1>15, ThreadAssumption DEF IInv, TypeOK, SettledInv, AnswersAgree, VerdictInv,
        RefInv, LockInv, Pending, Answer, Goto, QUERY, DENY, ALLOW, InfoRecs, SuAccesses
  <2>3. PromptInv'
    BY <1>0, <1>15, ThreadAssumption DEF IInv, TypeOK, PromptInv, RefInv, LockInv, Pending,
        Answer, Goto, promptVars
  <2>4. GrantInv' /\ GrantJustified'
    BY <1>0, <1>15, ThreadAssumption DEF IInv, TypeOK, GrantInv, GrantJustified, RefInv,
        LockInv, Pending, Answer, Goto
  <2>. QED  BY <1>0, <2>1, <2>2, <2>3, <2>4 DEF IInv
<1>16. CASE \/ \E t \in Threads : ManagerCloses(t) \/ ManagerStores(t)
            \/ \E t \in Threads, r \in Rows, keep \in BOOLEAN : ManagerResponds(t, r, keep)
            \/ Tick \/ EditDatabase \/ UNCHANGED vars
  <2>1. UNCHANGED <<pc, uid, ref, verdict, cached, cacheLock, info, infoLock, prompts>>
    BY <1>16 DEF ManagerCloses, ManagerStores, ManagerResponds, Tick, EditDatabase, vars,
        PromptUnchanged, threadVars, promptVars
  <2>2. RefInv' /\ CacheInv' /\ LockInv' /\ OwnInfo' /\ VerdictInv'
    BY <1>0, <2>1 DEF IInv, RefInv, CacheInv, LockInv, OwnInfo, VerdictInv
  <2>3. SettledInv' /\ AnswersAgree' /\ PromptInv'
    BY <1>0, <2>1 DEF IInv, SettledInv, AnswersAgree, PromptInv, Pending
  <2>4. GrantInv' /\ GrantJustified'
    BY <1>0, <2>1 DEF IInv, GrantInv, GrantJustified, Pending
  <2>. QED  BY <1>0, <2>2, <2>3, <2>4 DEF IInv
<1>. QED
  BY <1>1, <1>2, <1>3, <1>4, <1>5, <1>6, <1>7, <1>7s, <1>8, <1>9,
     <1>10, <1>11, <1>12, <1>13, <1>14, <1>15, <1>16
  DEF Next, ThreadStep, ManagerStep

\* Initially nobody holds anything and nothing is decided.
LEMMA InvInit == Init => IInv
<1>. SUFFICES ASSUME Init
              PROVE  IInv
  OBVIOUS
<1>1. TypeOK
  <2>1. NewInfo(UID_ROOT) \in InfoRecs
    <3>1. DEFAULT_SU_ACCESS \in SuAccesses
      BY DEF SuAccesses, DEFAULT_SU_ACCESS, QUERY
    <3>2. [root_access |-> ROOT_ACCESS_APPS_AND_ADB,
           multiuser_mode |-> MULTIUSER_MODE_OWNER_ONLY] \in Settings
      BY DEF Settings, ROOT_ACCESS_APPS_AND_ADB, MULTIUSER_MODE_OWNER_ONLY
    <3>. QED  BY <3>1, <3>2 DEF NewInfo, InfoRecs
  <2>2. policies \in [Uids -> PolicyRows \cup {NoRow}]
    BY InitAssumption, RowAssumption DEF Init
  <2>. QED  BY <2>1, <2>2, InitAssumption, BoundAssumption DEF Init, TypeOK, PcLabels
<1>2. RefInv /\ CacheInv /\ LockInv /\ OwnInfo /\ VerdictInv
  BY ThreadAssumption DEF Init, RefInv, CacheInv, LockInv, OwnInfo, VerdictInv, Holding,
     Critical, Deciding, Allocated, NewInfo, DEFAULT_SU_ACCESS
<1>3. SettledInv /\ AnswersAgree /\ PromptInv
  BY DEF Init, SettledInv, AnswersAgree, PromptInv
<1>4. GrantInv /\ GrantJustified
  BY DEF Init, GrantInv, GrantJustified, NewInfo, DEFAULT_SU_ACCESS, QUERY, ALLOW
<1>. QED  BY <1>1, <1>2, <1>3, <1>4 DEF IInv

\* The invariant of su_daemon.cpp and connect.cpp: every state of the daemon
\* satisfies it, however many requests run at once.
THEOREM Invariance == Spec => []IInv
BY InvInit, InvStep, PTL DEF Spec

\* Every variable keeps its type.
THEOREM TypeCorrect == Spec => []TypeOK
<1>1. IInv => TypeOK
  BY DEF IInv
<1>. QED  BY Invariance, <1>1, PTL

\* No request is ever decided by another uid's su_info, however the threads
\* interleave between testing and taking the cached object.
THEOREM OwnInfoAlways == Spec => []OwnInfo
<1>1. IInv => OwnInfo
  BY DEF IInv
<1>. QED  BY Invariance, <1>1, PTL

\* Every answer given from a su_info is, and stays, the decision it holds.
THEOREM AnswersAlwaysAgree == Spec => []AnswersAgree
<1>1. IInv => AnswersAgree
  BY DEF IInv
<1>. QED  BY Invariance, <1>1, PTL

\* Requests that share a su_info prompt the user at most once between them.
THEOREM PromptAtMostOnce == Spec => []PromptOnce
<1>1. ASSUME IInv
      PROVE  PromptOnce
  <2>1. ASSUME NEW i \in Threads
        PROVE  prompts[i] <= 1
    <3>1. CASE prompts[i] = 0
      BY <3>1
    <3>2. CASE prompts[i] # 0
      BY <1>1, <3>2 DEF IInv, PromptInv
    <3>. QED  BY <3>1, <3>2
  <2>. QED  BY <2>1 DEF PromptOnce
<1>. QED  BY Invariance, <1>1, PTL

\* A settled grant respects root_access and multiuser_mode as they were read.
THEOREM GrantsJustified == Spec => []GrantJustified
<1>1. IInv => GrantJustified
  BY DEF IInv
<1>. QED  BY Invariance, <1>1, PTL

\* A step writes only an undecided su_info or one the thread is deciding.
LEMMA FinalStep ==
    ASSUME IInv, [Next]_vars, NEW i \in Threads,
           info[i].access.policy # QUERY, ~Pending(i)
    PROVE  info'[i] = info[i]
<1>0. TypeOK /\ RefInv
  BY DEF IInv
<1>1. ASSUME NEW t \in Threads, Lookup(t)
      PROVE  info'[i] = info[i]
  BY <1>0, <1>1 DEF Lookup, TypeOK, RefInv, Allocated
<1>2. ASSUME NEW t \in Threads, ReadSettings(t)
      PROVE  info'[i] = info[i]
  BY <1>0, <1>2 DEF ReadSettings, TypeOK
<1>3. ASSUME NEW t \in Threads,
             ReadStrings(t) \/ ReadPolicy(t) \/ Decide(t) \/ PollReady(t) \/ PollTimeout(t)
      PROVE  info'[i] = info[i]
  <2>1. ref[t] # i
    BY <1>3 DEF ReadStrings, ReadPolicy, Decide, PollReady, PollTimeout, Pending, Deciding
  <2>2. \E r : info' = [info EXCEPT ![ref[t]] = r]
    BY <1>3 DEF ReadStrings, ReadPolicy, Decide, PollReady, PollTimeout
  <2>. QED  BY <1>0, <2>1, <2>2 DEF TypeOK
<1>4. CASE UNCHANGED info
  BY <1>4
<1>. QED
  BY <1>1, <1>2, <1>3, <1>4
  DEF Next, ThreadStep, ManagerStep, Request, LockCache, Take, LockInfo, UseDecided,
      SendRequest, Answer, ManagerOpens, ManagerCloses, ManagerStores, ManagerResponds,
      OpenFails, Tick, EditDatabase, vars

\* A decided su_info is never written again, which is why su_daemon_handler
\* may read its access after the lock is released.
THEOREM DecisionsFinal == Spec => DecisionFinal
<1>1. IInv /\ [Next]_vars =>
        [\A i \in Threads :
            (info[i].access.policy # QUERY /\ ~Pending(i)) => info'[i] = info[i]]_vars
  BY FinalStep
<1>. QED  BY Invariance, <1>1, PTL DEF Spec, DecisionFinal

\* The state of AccessOracle that a state of SuAccess stands for.
LEMMA RefineInit == Init => Oracle!Init
BY DEF Init, Oracle!Init, Oracle!Undecided, Oracle!NoUid, SettledDecision, NewInfo,
       DEFAULT_SU_ACCESS

\* A step that leaves uids, answers and decisions alone is a stutter.
LEMMA RefineStutter ==
    ASSUME \A t \in Threads : (pc'[t] = "idle") = (pc[t] = "idle"),
           uid' = uid, verdict' = verdict,
           \A i \in Threads : SettledDecision(i)' = SettledDecision(i)
    PROVE  UNCHANGED Oracle!vars
BY DEF Oracle!vars

\* A step of a thread that returns from get_su_info with its decision made.
LEMMA RefineReturn ==
    ASSUME IInv, IInv', NEW t \in Threads, Decide(t) \/ PollReady(t) \/ PollTimeout(t),
           Return(t), NEW o \in Threads, o = ref[t]
    PROVE  Oracle!Next
<1>. DEFINE d(i) == SettledDecision(i)
<1>1. pc[t] \in Deciding
  BY DEF IInv, RefInv, Holding, Critical, Deciding, Decide, PollReady, PollTimeout
<1>2. /\ UNCHANGED <<uid, verdict, ref>> /\ pc' = [pc EXCEPT ![t] = "answer"]
      /\ \A i \in Threads : i # o => info'[i] = info[i]
  BY <1>1 DEF IInv, TypeOK, Return, Goto, Decide, PollReady, PollTimeout, DecideUnchanged,
              PromptUnchanged
<1>3. d(o) = Oracle!Undecided
  BY <1>1 DEF SettledDecision, Pending, Oracle!Undecided, Oracle!NoUid
<1>4. ~Pending(o)' /\ info'[o].access.policy # QUERY
  BY <1>1, <1>2 DEF IInv, TypeOK, SettledInv
<1>5. d(o)' = [uid |-> info'[o].uid, allow |-> info'[o].access.policy = ALLOW]
  BY <1>4 DEF SettledDecision
<1>6. info'[o].uid \in Uids \cup {UID_ROOT}
  BY <1>1 DEF IInv, TypeOK, InfoRecs
<1>7. ASSUME NEW i \in Threads, i # o
      PROVE  d(i)' = d(i)
  <2>1. Pending(i)' = Pending(i)
    BY <1>2, <1>7 DEF Pending, IInv, TypeOK, Deciding
  <2>. QED  BY <1>2, <1>7, <2>1 DEF SettledDecision
<1>8. \A v \in Threads : (pc'[v] = "idle") = (pc[v] = "idle")
  BY <1>1, <1>2 DEF IInv, TypeOK, Deciding
<1>9. Oracle!Decide(o, info'[o].uid, info'[o].access.policy = ALLOW)
  <2>. HIDE DEF d
  <2>1. [i \in Threads |-> d(i)'] =
          [[i \in Threads |-> d(i)] EXCEPT ![o] =
             [uid |-> info'[o].uid, allow |-> info'[o].access.policy = ALLOW]]
    BY <1>1, <1>5, <1>7
  <2>. QED  BY <1>1, <1>2, <1>3, <1>8, <2>1 DEF Oracle!Decide, d
<1>. QED  BY <1>1, <1>6, <1>9 DEF Oracle!Next

\* Every step of the daemon is a step of AccessOracle or a stutter.
LEMMA RefineStep == IInv /\ IInv' /\ [Next]_vars => [Oracle!Next]_Oracle!vars
<1>. SUFFICES ASSUME IInv, IInv', [Next]_vars
              PROVE  Oracle!Next \/ UNCHANGED Oracle!vars
  OBVIOUS
<1>0. TypeOK /\ RefInv /\ SettledInv /\ VerdictInv /\ OwnInfo
  BY DEF IInv
<1>1. ASSUME NEW t \in Threads, NEW u \in Uids, Request(t, u)
      PROVE  Oracle!Next
  <2>1. \A i \in Threads : SettledDecision(i)' = SettledDecision(i)
    <3>1. \A i \in Threads : Pending(i)' = Pending(i)
      BY <1>0, <1>1 DEF Request, Goto, Pending, Deciding, TypeOK
    <3>. QED  BY <1>1, <3>1 DEF Request, SettledDecision
  <2>2. Oracle!Ask(t, u)
    <3>1. [v \in Threads |-> IF pc'[v] = "idle" THEN -1 ELSE uid'[v]] =
            [[v \in Threads |-> IF pc[v] = "idle" THEN -1 ELSE uid[v]] EXCEPT ![t] = u]
      BY <1>0, <1>1 DEF Request, Goto, TypeOK
    <3>. QED  BY <1>1, <2>1, <3>1 DEF Request, Oracle!Ask, Oracle!NoUid
  <2>. QED  BY <2>2 DEF Oracle!Next
<1>2. ASSUME NEW t \in Threads, LockCache(t) \/ Take(t) \/ LockInfo(t) \/ UseDecided(t)
      PROVE  UNCHANGED Oracle!vars
  <2>1. ASSUME NEW i \in Threads
        PROVE  Pending(i)' = Pending(i)
    BY <1>0, <1>2 DEF LockCache, Take, LockInfo, UseDecided, Return, Goto, Pending, Deciding,
        TypeOK
  <2>2. \A i \in Threads : SettledDecision(i)' = SettledDecision(i)
    BY <1>2, <2>1 DEF LockCache, Take, LockInfo, UseDecided, SettledDecision
  <2>3. \A v \in Threads : (pc'[v] = "idle") = (pc[v] = "idle")
    BY <1>0, <1>2 DEF LockCache, Take, LockInfo, UseDecided, Return, Goto, TypeOK
  <2>. QED  BY <1>2, <2>2, <2>3, RefineStutter DEF LockCache, Take, LockInfo, UseDecided
<1>3. ASSUME NEW t \in Threads, Lookup(t)
      PROVE  UNCHANGED Oracle!vars
  <2>1. \A i \in Threads : Pending(i)' = Pending(i)
    BY <1>0, <1>3 DEF Lookup, Goto, Pending, Deciding, TypeOK
  <2>2. info[t].access.policy = QUERY
    BY <1>0, <1>3 DEF Lookup, RefInv, Allocated
  <2>3. info' # info => info' = [info EXCEPT ![t] = NewInfo(uid[t])]
    BY <1>3 DEF Lookup
  <2>4. \A i \in Threads : SettledDecision(i)' = SettledDecision(i)
    BY <1>0, <2>1, <2>2, <2>3 DEF SettledDecision, NewInfo, DEFAULT_SU_ACCESS, TypeOK
  <2>5. \A v \in Threads : (pc'[v] = "idle") = (pc[v] = "idle")
    BY <1>0, <1>3 DEF Lookup, Goto, TypeOK
  <2>. QED  BY <1>3, <2>4, <2>5, RefineStutter DEF Lookup
<1>4. ASSUME NEW t \in Threads, ReadSettings(t) \/ ReadStrings(t) \/ ReadPolicy(t)
      PROVE  UNCHANGED Oracle!vars
  <2>1. ref[t] \in Threads
    BY <1>0, <1>4 DEF ReadSettings, ReadStrings, ReadPolicy, RefInv, Holding, Critical, Deciding
  <2>2. \A i \in Threads : i # ref[t] => Pending(i)' = Pending(i) /\ info'[i] = info[i]
    BY <1>0, <1>4, <2>1 DEF ReadSettings, ReadStrings, ReadPolicy, Goto, Pending, Deciding, TypeOK,
        DecideUnchanged
  <2>3. /\ Pending(ref[t]) \/ info[ref[t]].access.policy = QUERY
        /\ \E v \in Threads : ref'[v] = ref[t] /\ pc'[v] \in Deciding
    BY <1>0, <1>4, <2>1 DEF ReadSettings, ReadStrings, ReadPolicy, Goto, Pending, Deciding, TypeOK,
        DecideUnchanged
  <2>4. \A i \in Threads : SettledDecision(i)' = SettledDecision(i)
    BY <2>2, <2>3 DEF SettledDecision, Pending
  <2>5. \A v \in Threads : (pc'[v] = "idle") = (pc[v] = "idle")
    BY <1>0, <1>4 DEF ReadSettings, ReadStrings, ReadPolicy, Goto, TypeOK
  <2>. QED  BY <1>4, <2>4, <2>5, RefineStutter
            DEF ReadSettings, ReadStrings, ReadPolicy, DecideUnchanged
<1>5. ASSUME NEW t \in Threads, Decide(t), ~Return(t)
      PROVE  UNCHANGED Oracle!vars
  <2>1. ref[t] \in Threads /\ Goto(t, "request") /\ pc[t] = "decide"
    BY <1>0, <1>5 DEF Decide, RefInv, Holding, Critical, Deciding
  <2>2. \A i \in Threads : i # ref[t] => info'[i] = info[i]
    BY <1>0, <1>5, <2>1 DEF Decide, TypeOK
  <2>3. \A i \in Threads : Pending(i)' = Pending(i)
    BY <1>0, <1>5, <2>1 DEF Decide, Goto, Pending, Deciding, TypeOK, DecideUnchanged
  <2>4. Pending(ref[t])
    BY <2>1 DEF Pending, Deciding
  <2>5. \A i \in Threads : SettledDecision(i)' = SettledDecision(i)
    BY <2>2, <2>3, <2>4 DEF SettledDecision
  <2>6. \A v \in Threads : (pc'[v] = "idle") = (pc[v] = "idle")
    BY <1>0, <2>1 DEF Goto, TypeOK
  <2>. QED  BY <1>5, <2>5, <2>6, RefineStutter DEF Decide, DecideUnchanged
<1>6. ASSUME NEW t \in Threads, SendRequest(t) \/ ManagerOpens(t) \/ OpenFails(t)
      PROVE  UNCHANGED Oracle!vars
  <2>1. \A i \in Threads : Pending(i)' = Pending(i)
    BY <1>0, <1>6 DEF SendRequest, ManagerOpens, OpenFails, Goto, Pending, Deciding, TypeOK,
        PromptUnchanged
  <2>2. \A i \in Threads : SettledDecision(i)' = SettledDecision(i)
    BY <1>6, <2>1 DEF SendRequest, ManagerOpens, OpenFails, SettledDecision
  <2>3. \A v \in Threads : (pc'[v] = "idle") = (pc[v] = "idle")
    BY <1>0, <1>6 DEF SendRequest, ManagerOpens, OpenFails, Goto, TypeOK
  <2>. QED  BY <1>6, <2>2, <2>3, RefineStutter
            DEF SendRequest, ManagerOpens, OpenFails, PromptUnchanged
<1>7. ASSUME NEW t \in Threads, Decide(t) \/ PollReady(t) \/ PollTimeout(t), Return(t)
      PROVE  Oracle!Next
  <2>1. ref[t] \in Threads
    BY <1>0, <1>7 DEF Decide, PollReady, PollTimeout, RefInv, Holding, Critical, Deciding
  <2>. QED  BY <1>7, <2>1, RefineReturn
<1>8. ASSUME NEW t \in Threads, Answer(t)
      PROVE  Oracle!Next
  <2>1. /\ ref[t] \in Threads /\ verdict[t] = "none" /\ pc[t] = "answer"
        /\ ~Pending(ref[t]) /\ info[ref[t]].access.policy # QUERY
        /\ info[ref[t]].uid = uid[t]
    BY <1>0, <1>8, ThreadAssumption DEF Answer, RefInv, VerdictInv, SettledInv, OwnInfo,
        Holding, TypeOK
  <2>2. SettledDecision(ref[t]) =
            [uid |-> uid[t], allow |-> info[ref[t]].access.policy = ALLOW]
    BY <2>1 DEF SettledDecision
  <2>3. uid[t] \in Nat
    BY <1>0, UidIsNat DEF TypeOK
  <2>4. \A i \in Threads : SettledDecision(i)' = SettledDecision(i)
    <3>1. \A i \in Threads : Pending(i)' = Pending(i)
      BY <1>0, <1>8 DEF Answer, Goto, Pending, Deciding, TypeOK
    <3>. QED  BY <1>8, <3>1 DEF Answer, SettledDecision
  <2>5. \A v \in Threads : (pc'[v] = "idle") = (pc[v] = "idle")
    BY <1>0, <1>8 DEF Answer, Goto, TypeOK
  <2>6. verdict' = [verdict EXCEPT ![t] =
            IF info[ref[t]].access.policy = ALLOW THEN "granted" ELSE "denied"]
    <3>1. info[ref[t]].access.policy \in {QUERY, DENY, ALLOW}
      BY <1>0, <2>1 DEF TypeOK, InfoRecs, SuAccesses
    <3>2. (info[ref[t]].access.policy = DENY) = (info[ref[t]].access.policy # ALLOW)
      BY <2>1, <3>1 DEF QUERY, DENY, ALLOW
    <3>. QED  BY <1>8, <3>2 DEF Answer
  <2>7. Oracle!Tell(t, ref[t])
    <3>1. /\ SettledDecision(ref[t]) # Oracle!Undecided
          /\ SettledDecision(ref[t]).uid = uid[t]
          /\ SettledDecision(ref[t]).allow = (info[ref[t]].access.policy = ALLOW)
      BY <2>2, <2>3 DEF Oracle!Undecided, Oracle!NoUid
    <3>2. /\ UNCHANGED [i \in Threads |-> SettledDecision(i)]
          /\ UNCHANGED [v \in Threads |-> IF pc[v] = "idle" THEN -1 ELSE uid[v]]
      BY <1>8, <2>4, <2>5 DEF Answer
    <3>. QED  BY <2>1, <2>6, <3>1, <3>2 DEF Oracle!Tell
  <2>. QED  BY <2>1, <2>7 DEF Oracle!Next
<1>9. CASE \/ \E t \in Threads : ManagerCloses(t) \/ ManagerStores(t)
           \/ \E t \in Threads, r \in Rows, keep \in BOOLEAN : ManagerResponds(t, r, keep)
           \/ Tick \/ EditDatabase \/ UNCHANGED vars
  <2>1. UNCHANGED <<pc, uid, ref, verdict, info>>
    BY <1>9 DEF ManagerCloses, ManagerStores, ManagerResponds, Tick, EditDatabase, vars,
        PromptUnchanged, threadVars
  <2>2. \A i \in Threads : SettledDecision(i)' = SettledDecision(i)
    BY <2>1 DEF SettledDecision, Pending
  <2>. QED  BY <2>1, <2>2, RefineStutter
<1>10. ASSUME NEW t \in Threads, PollReady(t) \/ PollTimeout(t)
       PROVE  Return(t)
  BY <1>10 DEF PollReady, PollTimeout
<1>. QED
  BY <1>1, <1>2, <1>3, <1>4, <1>5, <1>6, <1>7, <1>8, <1>9, <1>10
  DEF Next, ThreadStep, ManagerStep

\* The daemon implements AccessOracle: every answer is a final decision about
\* the asking uid, whatever the cache, the locks and the manager do.
THEOREM Refinement == Spec => ImplementsOracle
BY RefineInit, RefineStep, Invariance, PTL DEF Spec, ImplementsOracle, Oracle!Spec
=============================================================================
