------------------------- MODULE ProcMonitorProofs -------------------------
(* Proofs about ProcMonitor for any number of zygotes, processes and        *)
(* threads, and however often hide is disabled.                             *)
EXTENDS ProcMonitor, TLAPS

(***************************************************************************)
(* The inductive invariant.                                                *)
(***************************************************************************)

\* The two sets of pids stay apart, and nothing is known of a pid not used yet.
PidInv ==
    /\ zygote_map \subseteq Zygotes /\ tracefork \subseteq Zygotes
    /\ \A z \in Zygotes : kind[z] \in {"free", "zygote", "dead"}
    /\ \A p \in Forked : kind[p] # "zygote"
    /\ \A p \in Pids : kind[p] = "free" =>
            stage[p] = "forked" /\ p \notin ready /\ p \notin traced

\* What is attached or about to be hidden is a process, and so is what the
\* event of a zygote names.
ProcessInv ==
    /\ \A p \in attaches \cup hiding : kind[p] \in {"zygote", "child", "dead"}
    /\ \A p \in Pids : msg[p] # p => kind[msg[p]] \in {"child", "dead"}

\* zygote_map holds the namespaces of zygotes only, never the own namespace
\* of a child.
NsInv ==
    /\ \A z \in Zygotes : ns[z] \in {RootNs, z}
    /\ \A p \in Pids : zygote_ns[p] \in Zygotes \cup {RootNs}

\* A followed child is traced, and then its first SIGSTOP has put it into
\* attaches before it goes on, and it stops at the first thread it creates
\* under its name; or it was let go under its name, and then it is hidden,
\* or stopped until it is, or need not be.
FollowInv ==
    \A p \in followed :
        /\ p \in Forked /\ kind[p] = "child"
        /\ p \in traced =>
            /\ stage[p] # "app" /\ stop[p] \in {"no", "SIGSTOP", "CLONE", "signal", "taken"}
            /\ p \notin attaches => stop[p] \in {"SIGSTOP", "taken"}
            /\ p \in ready => stage[p] = "named" /\ stop[p] \in {"CLONE", "taken"}
        /\ p \notin traced =>
            /\ stage[p] \in {"named", "app"}
            /\ p \in target /\ ns[p] = p =>
                p \in hidden \/ (stop[p] = "left" /\ stage[p] = "named")

IInv == TypeOK /\ PidInv /\ ProcessInv /\ NsInv /\ FollowInv

(***************************************************************************)
(* The steps.                                                              *)
(***************************************************************************)

\* Each action preserves the types.
LEMMA TypeStep ==
    TypeOK /\ [Next]_vars => TypeOK'
<1>. SUFFICES ASSUME TypeOK, [Next]_vars
              PROVE  TypeOK'
  OBVIOUS
<1>. USE PidAssumption DEF Pids, TypeOK, Kinds, Stages, Stops
<1>1. ASSUME NEW z \in Zygotes, StartZygote(z)
      PROVE  TypeOK'
  BY <1>1, BoundAssumption DEF StartZygote
<1>2. ASSUME NEW z \in Zygotes, UnshareZygote(z)
      PROVE  TypeOK'
  BY <1>2, BoundAssumption DEF UnshareZygote, Runs
<1>3. ASSUME NEW z \in Zygotes, NEW p \in Forked, Fork(z, p)
      PROVE  TypeOK'
  BY <1>3, BoundAssumption DEF Fork, Runs
<1>4. ASSUME NEW p \in Forked, Specialize(p)
      PROVE  TypeOK'
  BY <1>4, BoundAssumption DEF Specialize, Runs
<1>5. ASSUME NEW p \in Forked, RunApp(p)
      PROVE  TypeOK'
  BY <1>5, BoundAssumption DEF RunApp, Runs
<1>6. ASSUME NEW p \in Pids, Interrupt(p)
      PROVE  TypeOK'
  BY <1>6, BoundAssumption DEF Interrupt, Runs, procVars
<1>7. ASSUME NEW p \in Pids, Die(p)
      PROVE  TypeOK'
  BY <1>7, BoundAssumption DEF Die
<1>8. ASSUME NEW p \in Pids, NEW t \in Forked, CreateThread(p, t)
      PROVE  TypeOK'
  BY <1>8, BoundAssumption DEF CreateThread, Runs
<1>9. ASSUME Start
      PROVE  TypeOK'
  BY <1>9, BoundAssumption DEF Start, procVars
<1>10. ASSUME TermThread
       PROVE  TypeOK'
  <2>1. stops' \in 0 .. MaxStops
    BY <1>10, BoundAssumption DEF TermThread
  <2>2. stop' \in [Pids -> Stops] /\ zygote_ns' \in [Pids -> Pids \cup {RootNs}] /\ msg' \in [Pids -> Pids]
    BY <1>10 DEF TermThread
  <2>. QED  BY <1>10, <2>1, <2>2 DEF TermThread, procVars
<1>11. ASSUME NEW z \in Zygotes, CheckZygote(z)
       PROVE  TypeOK'
  BY <1>11, BoundAssumption DEF CheckZygote, procVars
<1>12. ASSUME NEW p \in Pids, WaitExited(p)
       PROVE  TypeOK'
  BY <1>12, BoundAssumption DEF WaitExited, Waited, Detach, procVars
<1>13. ASSUME NEW p \in Pids, ZygoteForked(p)
       PROVE  TypeOK'
  BY <1>13, BoundAssumption DEF ZygoteForked, Waited, Continue, procVars
<1>14. ASSUME NEW p \in Pids, ZygoteExits(p)
       PROVE  TypeOK'
  BY <1>14, BoundAssumption DEF ZygoteExits, Waited, Detach, procVars
<1>15. ASSUME NEW p \in Pids, ChildStopped(p)
       PROVE  TypeOK'
  BY <1>15, BoundAssumption DEF ChildStopped, Waited, Continue, Detach, procVars
<1>16. ASSUME NEW p \in Pids, ChildCloned(p)
       PROVE  TypeOK'
  <2>1. stop' \in [Pids -> Stops]
    <3>1. CASE HideForkFails(p)
      BY <3>1 DEF HideForkFails
    <3>2. CASE ~HideForkFails(p)
      BY <1>16, <3>2 DEF ChildCloned, Continue, Detach
    <3>. QED  BY <3>1, <3>2
  <2>2. traced' \subseteq traced /\ tracefork' \subseteq traced' /\ attaches' \subseteq Pids
    BY <1>16 DEF ChildCloned, Continue, Detach, HideForkFails
  <2>3. hiding' \subseteq Pids /\ failed' \in BOOLEAN /\ msg' \in [Pids -> Pids]
    BY <1>16 DEF ChildCloned, Waited, Detach, HideForkFails
  <2>. QED  BY <1>16, <2>1, <2>2, <2>3 DEF ChildCloned, Waited, procVars
<1>17. ASSUME NEW p \in Pids, ChildLeaves(p)
       PROVE  TypeOK'
  BY <1>17, BoundAssumption DEF ChildLeaves, Waited, Detach, procVars
<1>18. ASSUME NEW p \in Pids, ResendSignal(p)
       PROVE  TypeOK'
  BY <1>18, BoundAssumption DEF ResendSignal, Waited, Continue, procVars
<1>19. ASSUME NEW p \in Pids, HideDaemon(p)
       PROVE  TypeOK'
  BY <1>19, BoundAssumption DEF HideDaemon, procVars
<1>20. ASSUME UNCHANGED vars
       PROVE  TypeOK'
  BY <1>20, BoundAssumption DEF vars
<1>. QED  BY <1>1, <1>2, <1>3, <1>4, <1>5, <1>6, <1>7, <1>8, <1>9, <1>10, <1>11, <1>12, <1>13,
             <1>14, <1>15, <1>16, <1>17, <1>18, <1>19, <1>20
          DEF Next, System, Handle

\* Each action keeps zygotes and the processes they fork apart.
LEMMA PidStep ==
    TypeOK /\ PidInv /\ [Next]_vars => PidInv'
<1>. SUFFICES ASSUME TypeOK, PidInv, [Next]_vars
              PROVE  PidInv'
  OBVIOUS
<1>. USE PidAssumption DEF Pids, TypeOK, PidInv
<1>1. ASSUME NEW z \in Zygotes, StartZygote(z)
      PROVE  PidInv'
  BY <1>1 DEF StartZygote
<1>2. ASSUME NEW z \in Zygotes, UnshareZygote(z)
      PROVE  PidInv'
  BY <1>2 DEF UnshareZygote, Runs
<1>3. ASSUME NEW z \in Zygotes, NEW p \in Forked, Fork(z, p)
      PROVE  PidInv'
  BY <1>3 DEF Fork, Runs
<1>4. ASSUME NEW p \in Forked, Specialize(p)
      PROVE  PidInv'
  BY <1>4 DEF Specialize, Runs
<1>5. ASSUME NEW p \in Forked, RunApp(p)
      PROVE  PidInv'
  BY <1>5 DEF RunApp, Runs
<1>6. ASSUME NEW p \in Pids, Interrupt(p)
      PROVE  PidInv'
  BY <1>6 DEF Interrupt, Runs, procVars
<1>7. ASSUME NEW p \in Pids, Die(p)
      PROVE  PidInv'
  BY <1>7 DEF Die
<1>8. ASSUME NEW p \in Pids, NEW t \in Forked, CreateThread(p, t)
      PROVE  PidInv'
  BY <1>8 DEF CreateThread, Runs
<1>9. ASSUME Start
      PROVE  PidInv'
  BY <1>9 DEF Start, procVars
<1>10. ASSUME TermThread
       PROVE  PidInv'
  BY <1>10 DEF TermThread, procVars
<1>11. ASSUME NEW z \in Zygotes, CheckZygote(z)
       PROVE  PidInv'
  BY <1>11 DEF CheckZygote, procVars
<1>12. ASSUME NEW p \in Pids, WaitExited(p)
       PROVE  PidInv'
  BY <1>12 DEF WaitExited, Waited, Detach, procVars
<1>13. ASSUME NEW p \in Pids, ZygoteForked(p)
       PROVE  PidInv'
  BY <1>13 DEF ZygoteForked, Waited, Continue, procVars
<1>14. ASSUME NEW p \in Pids, ZygoteExits(p)
       PROVE  PidInv'
  BY <1>14 DEF ZygoteExits, Waited, Detach, procVars
<1>15. ASSUME NEW p \in Pids, ChildStopped(p)
       PROVE  PidInv'
  BY <1>15 DEF ChildStopped, Waited, Continue, Detach, procVars
<1>16. ASSUME NEW p \in Pids, ChildCloned(p)
       PROVE  PidInv'
  BY <1>16 DEF ChildCloned, Waited, Continue, Detach, CheckPid, HideForkFails, procVars
<1>17. ASSUME NEW p \in Pids, ChildLeaves(p)
       PROVE  PidInv'
  BY <1>17 DEF ChildLeaves, Waited, Detach, procVars
<1>18. ASSUME NEW p \in Pids, ResendSignal(p)
       PROVE  PidInv'
  BY <1>18 DEF ResendSignal, Waited, Continue, procVars
<1>19. ASSUME NEW p \in Pids, HideDaemon(p)
       PROVE  PidInv'
  BY <1>19 DEF HideDaemon, procVars
<1>20. ASSUME UNCHANGED vars
       PROVE  PidInv'
  BY <1>20 DEF vars
<1>. QED  BY <1>1, <1>2, <1>3, <1>4, <1>5, <1>6, <1>7, <1>8, <1>9, <1>10, <1>11, <1>12, <1>13,
             <1>14, <1>15, <1>16, <1>17, <1>18, <1>19, <1>20
          DEF Next, System, Handle

\* Each action attaches and hides processes only.
LEMMA ProcessStep ==
    TypeOK /\ PidInv /\ ProcessInv /\ [Next]_vars => ProcessInv'
<1>. SUFFICES ASSUME TypeOK, PidInv, ProcessInv, [Next]_vars
              PROVE  ProcessInv'
  OBVIOUS
<1>. USE PidAssumption DEF Pids, TypeOK, Kinds, PidInv, ProcessInv
<1>1. ASSUME NEW z \in Zygotes, StartZygote(z)
      PROVE  ProcessInv'
  BY <1>1 DEF StartZygote
<1>2. ASSUME NEW z \in Zygotes, UnshareZygote(z)
      PROVE  ProcessInv'
  BY <1>2 DEF UnshareZygote, Runs
<1>3. ASSUME NEW z \in Zygotes, NEW p \in Forked, Fork(z, p)
      PROVE  ProcessInv'
  BY <1>3 DEF Fork, Runs
<1>4. ASSUME NEW p \in Forked, Specialize(p)
      PROVE  ProcessInv'
  BY <1>4 DEF Specialize, Runs
<1>5. ASSUME NEW p \in Forked, RunApp(p)
      PROVE  ProcessInv'
  BY <1>5 DEF RunApp, Runs
<1>6. ASSUME NEW p \in Pids, Interrupt(p)
      PROVE  ProcessInv'
  BY <1>6 DEF Interrupt, Runs, procVars
<1>7. ASSUME NEW p \in Pids, Die(p)
      PROVE  ProcessInv'
  BY <1>7 DEF Die
<1>8. ASSUME NEW p \in Pids, NEW t \in Forked, CreateThread(p, t)
      PROVE  ProcessInv'
  BY <1>8 DEF CreateThread, Runs
<1>9. ASSUME Start
      PROVE  ProcessInv'
  BY <1>9 DEF Start, procVars
<1>10. ASSUME TermThread
       PROVE  ProcessInv'
  BY <1>10 DEF TermThread, procVars
<1>11. ASSUME NEW z \in Zygotes, CheckZygote(z)
       PROVE  ProcessInv'
  BY <1>11 DEF CheckZygote, procVars
<1>12. ASSUME NEW p \in Pids, WaitExited(p)
       PROVE  ProcessInv'
  BY <1>12 DEF WaitExited, Waited, Detach, procVars
<1>13. ASSUME NEW p \in Pids, ZygoteForked(p)
       PROVE  ProcessInv'
  BY <1>13 DEF ZygoteForked, Waited, Continue, procVars
<1>14. ASSUME NEW p \in Pids, ZygoteExits(p)
       PROVE  ProcessInv'
  BY <1>14 DEF ZygoteExits, Waited, Detach, procVars
<1>15. ASSUME NEW p \in Pids, ChildStopped(p)
       PROVE  ProcessInv'
  BY <1>15 DEF ChildStopped, Waited, Continue, Detach, procVars
<1>16. ASSUME NEW p \in Pids, ChildCloned(p)
       PROVE  ProcessInv'
  BY <1>16 DEF ChildCloned, Waited, Continue, Detach, CheckPid, HideForkFails, procVars
<1>17. ASSUME NEW p \in Pids, ChildLeaves(p)
       PROVE  ProcessInv'
  BY <1>17 DEF ChildLeaves, Waited, Detach, procVars
<1>18. ASSUME NEW p \in Pids, ResendSignal(p)
       PROVE  ProcessInv'
  BY <1>18 DEF ResendSignal, Waited, Continue, procVars
<1>19. ASSUME NEW p \in Pids, HideDaemon(p)
       PROVE  ProcessInv'
  BY <1>19 DEF HideDaemon, procVars
<1>20. ASSUME UNCHANGED vars
       PROVE  ProcessInv'
  BY <1>20 DEF vars
<1>. QED  BY <1>1, <1>2, <1>3, <1>4, <1>5, <1>6, <1>7, <1>8, <1>9, <1>10, <1>11, <1>12, <1>13,
             <1>14, <1>15, <1>16, <1>17, <1>18, <1>19, <1>20
          DEF Next, System, Handle

\* Each action preserves what is known of the namespaces.
LEMMA NsStep ==
    TypeOK /\ PidInv /\ NsInv /\ [Next]_vars => NsInv'
<1>. SUFFICES ASSUME TypeOK, PidInv, NsInv, [Next]_vars
              PROVE  NsInv'
  OBVIOUS
<1>. USE PidAssumption DEF Pids, TypeOK, PidInv, NsInv
<1>1. ASSUME NEW z \in Zygotes, StartZygote(z)
      PROVE  NsInv'
  BY <1>1 DEF StartZygote
<1>2. ASSUME NEW z \in Zygotes, UnshareZygote(z)
      PROVE  NsInv'
  BY <1>2 DEF UnshareZygote, Runs
<1>3. ASSUME NEW z \in Zygotes, NEW p \in Forked, Fork(z, p)
      PROVE  NsInv'
  BY <1>3 DEF Fork, Runs
<1>4. ASSUME NEW p \in Forked, Specialize(p)
      PROVE  NsInv'
  BY <1>4 DEF Specialize, Runs
<1>5. ASSUME NEW p \in Forked, RunApp(p)
      PROVE  NsInv'
  BY <1>5 DEF RunApp, Runs
<1>6. ASSUME NEW p \in Pids, Interrupt(p)
      PROVE  NsInv'
  BY <1>6 DEF Interrupt, Runs, procVars
<1>7. ASSUME NEW p \in Pids, Die(p)
      PROVE  NsInv'
  BY <1>7 DEF Die
<1>8. ASSUME NEW p \in Pids, NEW t \in Forked, CreateThread(p, t)
      PROVE  NsInv'
  BY <1>8 DEF CreateThread, Runs
<1>9. ASSUME Start
      PROVE  NsInv'
  BY <1>9 DEF Start, procVars
<1>10. ASSUME TermThread
       PROVE  NsInv'
  BY <1>10 DEF TermThread, procVars
<1>11. ASSUME NEW z \in Zygotes, CheckZygote(z)
       PROVE  NsInv'
  BY <1>11 DEF CheckZygote, procVars
<1>12. ASSUME NEW p \in Pids, WaitExited(p)
       PROVE  NsInv'
  BY <1>12 DEF WaitExited, Waited, Detach, procVars
<1>13. ASSUME NEW p \in Pids, ZygoteForked(p)
       PROVE  NsInv'
  BY <1>13 DEF ZygoteForked, Waited, Continue, procVars
<1>14. ASSUME NEW p \in Pids, ZygoteExits(p)
       PROVE  NsInv'
  BY <1>14 DEF ZygoteExits, Waited, Detach, procVars
<1>15. ASSUME NEW p \in Pids, ChildStopped(p)
       PROVE  NsInv'
  BY <1>15 DEF ChildStopped, Waited, Continue, Detach, procVars
<1>16. ASSUME NEW p \in Pids, ChildCloned(p)
       PROVE  NsInv'
  BY <1>16 DEF ChildCloned, Waited, Continue, Detach, CheckPid, HideForkFails, procVars
<1>17. ASSUME NEW p \in Pids, ChildLeaves(p)
       PROVE  NsInv'
  BY <1>17 DEF ChildLeaves, Waited, Detach, procVars
<1>18. ASSUME NEW p \in Pids, ResendSignal(p)
       PROVE  NsInv'
  BY <1>18 DEF ResendSignal, Waited, Continue, procVars
<1>19. ASSUME NEW p \in Pids, HideDaemon(p)
       PROVE  NsInv'
  BY <1>19 DEF HideDaemon, procVars
<1>20. ASSUME UNCHANGED vars
       PROVE  NsInv'
  BY <1>20 DEF vars
<1>. QED  BY <1>1, <1>2, <1>3, <1>4, <1>5, <1>6, <1>7, <1>8, <1>9, <1>10, <1>11, <1>12, <1>13,
             <1>14, <1>15, <1>16, <1>17, <1>18, <1>19, <1>20
          DEF Next, System, Handle

\* Each action preserves what is known of a followed child.
LEMMA FollowStep ==
    TypeOK /\ PidInv /\ NsInv /\ FollowInv /\ [Next]_vars => FollowInv'
<1>. SUFFICES ASSUME TypeOK, PidInv, NsInv, FollowInv, [Next]_vars
              PROVE  FollowInv'
  OBVIOUS
<1>. USE PidAssumption DEF Pids, TypeOK, Kinds, Stages, PidInv, NsInv, FollowInv
<1>1. ASSUME NEW z \in Zygotes, StartZygote(z)
      PROVE  FollowInv'
  BY <1>1 DEF StartZygote
<1>2. ASSUME NEW z \in Zygotes, UnshareZygote(z)
      PROVE  FollowInv'
  BY <1>2 DEF UnshareZygote, Runs
<1>3. ASSUME NEW z \in Zygotes, NEW p \in Forked, Fork(z, p)
      PROVE  FollowInv'
  BY <1>3 DEF Fork, Runs
<1>4. ASSUME NEW p \in Forked, Specialize(p)
      PROVE  FollowInv'
  BY <1>4 DEF Specialize, Runs
<1>5. ASSUME NEW p \in Forked, RunApp(p)
      PROVE  FollowInv'
  BY <1>5 DEF RunApp, Runs
<1>6. ASSUME NEW p \in Pids, Interrupt(p)
      PROVE  FollowInv'
  BY <1>6 DEF Interrupt, Runs, procVars
<1>7. ASSUME NEW p \in Pids, Die(p)
      PROVE  FollowInv'
  BY <1>7 DEF Die
<1>8. ASSUME NEW p \in Pids, NEW t \in Forked, CreateThread(p, t)
      PROVE  FollowInv'
  BY <1>8 DEF CreateThread, Runs
<1>9. ASSUME Start
      PROVE  FollowInv'
  BY <1>9 DEF Start, procVars
<1>10. ASSUME TermThread
       PROVE  FollowInv'
  BY <1>10 DEF TermThread, procVars
<1>11. ASSUME NEW z \in Zygotes, CheckZygote(z)
       PROVE  FollowInv'
  BY <1>11 DEF CheckZygote, procVars
<1>12. ASSUME NEW p \in Pids, WaitExited(p)
       PROVE  FollowInv'
  BY <1>12 DEF WaitExited, Waited, Detach, procVars
<1>13. ASSUME NEW p \in Pids, ZygoteForked(p)
       PROVE  FollowInv'
  BY <1>13 DEF ZygoteForked, Waited, Continue, procVars
<1>14. ASSUME NEW p \in Pids, ZygoteExits(p)
       PROVE  FollowInv'
  BY <1>14 DEF ZygoteExits, Waited, Detach, procVars
<1>15. ASSUME NEW p \in Pids, ChildStopped(p)
       PROVE  FollowInv'
  BY <1>15 DEF ChildStopped, Waited, Continue, Detach, procVars
<1>16. ASSUME NEW p \in Pids, ChildCloned(p)
       PROVE  FollowInv'
  BY <1>16 DEF ChildCloned, Waited, Continue, Detach, CheckPid, HideForkFails, procVars
<1>17. ASSUME NEW p \in Pids, ChildLeaves(p)
       PROVE  FollowInv'
  BY <1>17 DEF ChildLeaves, Waited, Detach, procVars
<1>18. ASSUME NEW p \in Pids, ResendSignal(p)
       PROVE  FollowInv'
  BY <1>18 DEF ResendSignal, Waited, Continue, procVars
<1>19. ASSUME NEW p \in Pids, HideDaemon(p)
       PROVE  FollowInv'
  BY <1>19 DEF HideDaemon, procVars
<1>20. ASSUME UNCHANGED vars
       PROVE  FollowInv'
  BY <1>20 DEF vars
<1>. QED  BY <1>1, <1>2, <1>3, <1>4, <1>5, <1>6, <1>7, <1>8, <1>9, <1>10, <1>11, <1>12, <1>13,
             <1>14, <1>15, <1>16, <1>17, <1>18, <1>19, <1>20
          DEF Next, System, Handle

(***************************************************************************)
(* The theorems.                                                           *)
(***************************************************************************)

\* The invariant holds at first and is inductive.
LEMMA Invariance == Spec => []IInv
<1>1. Init => IInv
  <2>. SUFFICES ASSUME Init PROVE IInv
    OBVIOUS
  <2>0. stops \in 0 .. MaxStops
    BY BoundAssumption DEF Init
  <2>1. TypeOK
    BY <2>0 DEF Init, TypeOK, Kinds, Stages, Stops
  <2>2. PidInv /\ ProcessInv /\ NsInv /\ FollowInv
    BY DEF Init, PidInv, ProcessInv, NsInv, FollowInv, Pids
  <2>. QED  BY <2>1, <2>2 DEF IInv
<1>2. IInv /\ [Next]_vars => IInv'
  BY TypeStep, PidStep, ProcessStep, NsStep, FollowStep DEF IInv
<1>. QED  BY <1>1, <1>2, PTL DEF Spec

\* The variables keep their types; only tracees have PTRACE_O_TRACEFORK.
THEOREM TypeCorrect == Spec => []TypeOK
<1>1. IInv => TypeOK
  BY DEF IInv
<1>. QED  BY <1>1, Invariance, PTL

\* Threads are never followed or hidden.
THEOREM OnlyProcesses == Spec => []ThreadsLetGo
<1>1. IInv => ThreadsLetGo
  BY DEF IInv, ProcessInv, ThreadsLetGo
<1>. QED  BY <1>1, Invariance, PTL

\* A followed target with a namespace of its own is hidden before it runs the
\* app's code, in whatever order waitpid reports the stops.
THEOREM HiddenInTime == Spec => []HiddenBeforeApp
<1>1. IInv => HiddenBeforeApp
  BY DEF IInv, FollowInv, HiddenBeforeApp
<1>. QED  BY <1>1, Invariance, PTL
=============================================================================
