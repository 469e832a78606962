---------------------------- MODULE ProcMonitor ----------------------------
(* The process monitor (jokerhide/proc_monitor.cpp): it traces zygotes,     *)
(* follows each child they fork until it has become an app, and has the     *)
(* mounts of Magisk removed from the namespace of the ones on the hide list *)
(* (hide_daemon in hide_policy.cpp) before they run.                        *)
(*                                                                          *)
(* The kernel's part is modelled from how the monitor uses it: a traced     *)
(* process stops at each event, and waitpid may report the stops of several *)
(* tracees in any order.  Signal handlers run only around waitpid, so each  *)
(* handler and each turn of the event loop is one step.  Pids are not used  *)
(* twice.                                                                   *)
EXTENDS Integers, FiniteSets

CONSTANTS
    Zygotes,    \* pids of the zygotes that init starts
    Forked,     \* pids of the processes and threads they create
    RootNs,     \* the mount namespace of init
    MaxStops    \* bound on how often hide is disabled

ASSUME BoundAssumption == MaxStops \in Nat
ASSUME PidAssumption == Zygotes \cap Forked = {} /\ RootNs \notin Zygotes \cup Forked

Pids == Zygotes \cup Forked

Kinds == {"free", "zygote", "child", "thread", "dead"}
\* A child on its way to an app: forked (uid 0), uid set while still called
\* zygote, named, and running the app's code.
Stages == {"forked", "uid", "named", "app"}
\* Why a process does not run: a ptrace-stop the monitor has to handle, one
\* whose report was taken from it, the SIGSTOP it was left with by
\* detach_pid(pid, SIGSTOP), or its death.
Stops == {"no", "SIGSTOP", "FORK", "CLONE", "EXIT", "other", "signal", "exited", "taken",
          "left"}

VARIABLES
    kind, stage,
    ns,          \* its mount namespace, named after the one that unshared it
    target,      \* is_hide_target says so
    traced, stop,
    tracefork,   \* tracees with PTRACE_O_TRACEFORK; the others have TRACECLONE
    msg,         \* PTRACE_GETEVENTMSG of the event it stopped at
    ready,       \* has created a thread since it was named
    hidden,      \* hide_unmount was done in its namespace
    hiding,      \* processes a hide_daemon was forked for
    attaches, zygote_map,
    zygote_ns,   \* the namespaces in zygote_map
    running,     \* proc_monitor runs
    stops,       \* how often it was stopped
    followed,    \* forked by a traced zygote, monitor not stopped since
    failed       \* history: a hide_daemon could not be forked

procVars == <<kind, stage, ns, target, ready>>
vars == <<kind, stage, ns, target, traced, stop, tracefork, msg, ready, hidden, hiding,
          attaches, zygote_map, zygote_ns, running, stops, followed, failed>>

Init ==
    /\ kind = [p \in Pids |-> "free"] /\ stage = [p \in Pids |-> "forked"]
    /\ ns = [p \in Pids |-> RootNs] /\ zygote_ns = [p \in Pids |-> RootNs]
    /\ target = {} /\ traced = {} /\ tracefork = {}
    /\ stop = [p \in Pids |-> "no"] /\ msg = [p \in Pids |-> p]
    /\ ready = {} /\ hidden = {} /\ hiding = {}
    /\ attaches = {} /\ zygote_map = {} /\ running = FALSE /\ stops = 0 /\ followed = {}
    /\ failed = FALSE

Runs(p) == kind[p] \in {"zygote", "child", "thread"} /\ stop[p] = "no"

(***************************************************************************)
(* Android and the kernel.                                                 *)
(***************************************************************************)

StartZygote(p) ==
    /\ kind[p] = "free" /\ kind' = [kind EXCEPT ![p] = "zygote"]
    /\ UNCHANGED <<stage, ns, target, traced, stop, msg, ready, hidden, hiding, attaches,
                   zygote_map, zygote_ns, tracefork, running, stops, followed, failed>>

\* Before it forks, a zygote gets a namespace of its own.
UnshareZygote(z) ==
    /\ kind[z] = "zygote" /\ Runs(z) /\ ns[z] = RootNs /\ ns' = [ns EXCEPT ![z] = z]
    /\ UNCHANGED <<kind, stage, target, traced, stop, msg, ready, hidden, hiding, attaches,
                   zygote_map, zygote_ns, tracefork, running, stops, followed, failed>>

\* With PTRACE_O_TRACEFORK both stop and the child is traced from the start.
Fork(z, p) ==
    /\ kind[z] = "zygote" /\ Runs(z) /\ ns[z] = z /\ kind[p] = "free"
    /\ kind' = [kind EXCEPT ![p] = "child"] /\ ns' = [ns EXCEPT ![p] = z]
    /\ IF z \in tracefork
       THEN /\ traced' = traced \cup {p} /\ followed' = followed \cup {p}
            /\ stop' = [stop EXCEPT ![z] = "FORK", ![p] = "SIGSTOP"]
            /\ msg' = [msg EXCEPT ![z] = p]
       ELSE UNCHANGED <<traced, followed, stop, msg>>
    /\ UNCHANGED <<stage, target, ready, hidden, hiding, attaches, zygote_map, zygote_ns, tracefork,
                   running, stops, failed>>

\* The child unshares its namespace (not all do), changes uid, gets its name.
\* The name decides whether it is a target.
Specialize(p) ==
    /\ kind[p] = "child" /\ Runs(p)
    /\ \/ /\ stage[p] = "forked" /\ stage' = [stage EXCEPT ![p] = "uid"]
          /\ ns' \in {ns, [ns EXCEPT ![p] = p]} /\ target' = target
       \/ /\ stage[p] = "uid" /\ stage' = [stage EXCEPT ![p] = "named"]
          /\ target' \in {target, target \cup {p}} /\ ns' = ns
    /\ UNCHANGED <<kind, traced, stop, msg, ready, hidden, hiding, attaches, zygote_map,
                   zygote_ns, tracefork, running, stops, followed, failed>>

\* With PTRACE_O_TRACECLONE the creator and the new thread stop.
CreateThread(p, t) ==
    /\ kind[p] \in {"child", "zygote"} /\ Runs(p) /\ stage[p] # "app" /\ kind[t] = "free"
    /\ kind' = [kind EXCEPT ![t] = "thread"]
    /\ ready' = IF stage[p] = "named" THEN ready \cup {p} ELSE ready
    /\ IF p \in traced \ tracefork
       THEN /\ traced' = traced \cup {t}
            /\ stop' = [stop EXCEPT ![p] = "CLONE", ![t] = "SIGSTOP"]
       ELSE UNCHANGED <<traced, stop>>
    /\ UNCHANGED <<msg, stage, ns, target, hidden, hiding, attaches, zygote_map, zygote_ns,
                   tracefork, running, stops, followed, failed>>

\* The runtime has started threads before the app's own code runs.
RunApp(p) ==
    /\ kind[p] = "child" /\ Runs(p) /\ stage[p] = "named" /\ p \in ready
    /\ stage' = [stage EXCEPT ![p] = "app"]
    /\ UNCHANGED <<kind, ns, target, traced, stop, msg, ready, hidden, hiding, attaches,
                   zygote_map, zygote_ns, tracefork, running, stops, followed, failed>>

\* A tracee stops for a signal somebody sent, or because it runs another program,
\* which ends its life as an app process.
Interrupt(p) ==
    /\ Runs(p) /\ p \in traced
    /\ \/ /\ \E e \in {"signal", "SIGSTOP"} : stop' = [stop EXCEPT ![p] = e]
          /\ followed' = followed
       \/ /\ kind[p] = "child" /\ stop' = [stop EXCEPT ![p] = "other"]
          /\ followed' = followed \ {p}
    /\ UNCHANGED <<procVars, traced, msg, hidden, hiding, attaches, zygote_map, zygote_ns,
                   tracefork, running, stops, failed>>

\* A process exits, or SIGKILL ends it at any time.  A tracer is told: by
\* PTRACE_EVENT_EXIT, or only by the status of the dead process.
Die(p) ==
    /\ kind[p] \in {"zygote", "child", "thread"}
    /\ kind' = [kind EXCEPT ![p] = "dead"] /\ stage' = [stage EXCEPT ![p] = "forked"]
    /\ msg' = [msg EXCEPT ![p] = p]
    /\ ns' = [ns EXCEPT ![p] = RootNs] /\ target' = target \ {p} /\ ready' = ready \ {p}
    /\ hidden' = hidden \ {p} /\ followed' = followed \ {p}
    /\ \E e \in IF p \in traced THEN {"EXIT", "exited"} ELSE {"no"} :
        stop' = [stop EXCEPT ![p] = e]
    /\ UNCHANGED <<traced, hiding, attaches, zygote_map, zygote_ns, tracefork, running,
                   stops, failed>>

(***************************************************************************)
(* The monitor.                                                            *)
(***************************************************************************)

\* ptrace(PTRACE_DETACH, p, 0, signal): left is "left" for SIGSTOP.
Detach(p, left) ==
    /\ attaches' = attaches \ {p}
    /\ traced' = traced \ {p} /\ tracefork' = tracefork \ {p}
    /\ stop' = [stop EXCEPT ![p] = IF kind[p] = "dead" THEN "no" ELSE left]

\* ptrace(PTRACE_CONT): fails for a process that has died meanwhile.
Continue(p) == stop' = [stop EXCEPT ![p] = IF kind[p] = "dead" THEN stop[p] ELSE "no"]

\* One turn of the event loop: waitpid reports the stop e of p, and whatever is
\* done to it then, PTRACE_GETEVENTMSG has no more to say.
Waited(p, e) ==
    /\ running /\ p \in traced /\ stop[p] = e
    /\ msg' = [msg EXCEPT ![p] = p]
    /\ UNCHANGED <<procVars, hidden, running, stops, followed>>

\* launch_jokerhide starts the thread.
Start ==
    /\ ~running /\ running' = TRUE
    /\ UNCHANGED <<procVars, traced, stop, msg, hidden, hiding, attaches, zygote_map,
                   zygote_ns, tracefork, stops, followed, failed>>

\* check_zygote and new_zygote, run at the start, by SIGIO and by SIGALRM:
\* attach, wait, set the options, continue; a known one is only looked at again.
CheckZygote(z) ==
    /\ running /\ kind[z] = "zygote"
    /\ z \notin zygote_map \/ zygote_ns[z] # ns[z]
    /\ zygote_map' = zygote_map \cup {z}
    /\ zygote_ns' = [zygote_ns EXCEPT ![z] = ns[z]]
    /\ IF z \in zygote_map THEN UNCHANGED <<traced, tracefork>>
       ELSE traced' = traced \cup {z} /\ tracefork' = tracefork \cup {z}
    /\ UNCHANGED <<procVars, stop, msg, hidden, hiding, attaches, running, stops, followed, failed>>

\* The status is not a stop: the process is dead.
WaitExited(p) ==
    /\ Waited(p, "exited") /\ Detach(p, "no")
    /\ UNCHANGED <<hiding, zygote_map, zygote_ns, failed>>

\* A fork or vfork of a zygote.
ZygoteForked(z) ==
    /\ z \in zygote_map /\ Waited(z, "FORK")
    /\ attaches' = attaches \cup {msg[z]}
    /\ Continue(z)
    /\ UNCHANGED <<traced, tracefork, hiding, zygote_map, zygote_ns, failed>>

\* Any other event of a zygote.
ZygoteExits(z) ==
    /\ z \in zygote_map /\ (Waited(z, "EXIT") \/ Waited(z, "CLONE"))
    /\ zygote_map' = zygote_map \ {z} /\ zygote_ns' = [zygote_ns EXCEPT ![z] = RootNs]
    /\ Detach(z, "no")
    /\ UNCHANGED <<hiding, failed>>

ChildStoppedNoCheck(p) ==
    /\ Waited(p, "SIGSTOP")
    /\ IF p \in attaches THEN Continue(p) /\ UNCHANGED <<attaches, traced, tracefork>>
       ELSE Detach(p, "no")
    /\ UNCHANGED <<hiding, zygote_map, zygote_ns, failed>>

ChildStoppedAll(p) ==
    /\ Waited(p, "SIGSTOP")
    /\ attaches' = attaches \cup {p} /\ Continue(p)
    /\ traced' = traced /\ tracefork' = tracefork \ {p}
    /\ UNCHANGED <<hiding, zygote_map, zygote_ns, failed>>

\* A new child or thread: which of them, is looked up if the zygote's event
\* has not been seen yet.  It gets the options of a child, also if it is a
\* zygote that somebody has sent SIGSTOP.
ChildStopped(p) ==
    /\ Waited(p, "SIGSTOP")
    /\ IF p \in attaches \/ kind[p] \in {"child", "zygote"}
       THEN /\ attaches' = attaches \cup {p} /\ Continue(p)
            /\ traced' = traced /\ tracefork' = tracefork \ {p}
       ELSE Detach(p, "no")
    /\ UNCHANGED <<hiding, zygote_map, zygote_ns, failed>>

\* check_pid: too early to tell, to be hidden, or none of our business.
CheckPid(p) ==
    IF stage[p] = "forked" \/ stage[p] = "uid" THEN "wait"
    ELSE IF p \in target /\ \A z \in zygote_map : zygote_ns[z] # ns[p] THEN "hide"
    ELSE "release"

\* fork_dont_care fails: p stays stopped, and its waitpid for any child may
\* take the stop of another tracee, which the event loop then never sees.
HideForkFails(p) ==
    /\ attaches' = attaches \ {p}
    /\ traced' = traced \ {p} /\ tracefork' = tracefork \ {p}
    /\ \E taken \in SUBSET {q \in traced \ {p} : stop[q] # "no"} :
        /\ \A q, r \in taken : q = r
        /\ stop' = [q \in Pids |-> IF q = p THEN "left"
                                   ELSE IF q \in taken THEN "taken" ELSE stop[q]]
    /\ failed' = TRUE

ChildCloned(p) ==
    /\ p \notin zygote_map /\ Waited(p, "CLONE")
    /\ LET c == IF p \in attaches THEN CheckPid(p) ELSE "wait"
       IN  \/ c = "wait" /\ Continue(p) /\ UNCHANGED <<attaches, traced, tracefork, hiding, failed>>
           \/ c = "release" /\ Detach(p, "no") /\ UNCHANGED <<hiding, failed>>
           \/ c = "hide" /\ Detach(p, "left") /\ hiding' = hiding \cup {p} /\ UNCHANGED failed
           \/ c = "hide" /\ HideForkFails(p) /\ hiding' = hiding
    /\ UNCHANGED <<zygote_map, zygote_ns>>

\* exec, exit and any other event end the monitoring.
ChildLeaves(p) ==
    /\ p \notin zygote_map
    /\ Waited(p, "EXIT") \/ Waited(p, "other")
    /\ Detach(p, "no")
    /\ UNCHANGED <<hiding, zygote_map, zygote_ns, failed>>

ResendSignal(p) ==
    /\ Waited(p, "signal") /\ Continue(p)
    /\ UNCHANGED <<attaches, traced, tracefork, hiding, zygote_map, zygote_ns, failed>>


\* The forked hide_daemon: hide_unmount in the namespace of p, then SIGCONT.
\* A process that has died has no namespace to enter.
HideDaemon(p) ==
    /\ p \in hiding /\ hiding' = hiding \ {p}
    /\ hidden' = IF kind[p] = "child" THEN hidden \cup {p} ELSE hidden
    /\ stop' = [stop EXCEPT ![p] = IF stop[p] = "left" THEN "no" ELSE stop[p]]
    /\ UNCHANGED <<procVars, traced, msg, attaches, zygote_map, zygote_ns, tracefork,
                   running, stops, followed, failed>>

\* stop_jokerhide: term_thread ends the thread, and the kernel lets go of what
\* it traced.
TermThread ==
    /\ running /\ stops < MaxStops /\ stops' = stops + 1
    /\ running' = FALSE
    /\ zygote_map' = {} /\ zygote_ns' = [p \in Pids |-> RootNs] /\ attaches' = {}
    /\ traced' = {} /\ tracefork' = {}
    /\ stop' = [p \in Pids |-> IF p \in traced THEN "no" ELSE stop[p]]
    /\ followed' = {}
    /\ msg' = [p \in Pids |-> p]
    /\ UNCHANGED <<procVars, hidden, hiding, failed>>

Handle(p) ==
    \/ WaitExited(p) \/ ZygoteForked(p) \/ ZygoteExits(p) \/ ChildStopped(p) \/ ChildCloned(p)
    \/ ChildLeaves(p) \/ ResendSignal(p)

System ==
    \/ \E z \in Zygotes : StartZygote(z) \/ UnshareZygote(z) \/ \E p \in Forked : Fork(z, p)
    \/ \E p \in Forked : Specialize(p) \/ RunApp(p)
    \/ \E p \in Pids : Interrupt(p) \/ Die(p) \/ \E t \in Forked : CreateThread(p, t)

Next ==
    \/ System \/ Start \/ TermThread
    \/ \E z \in Zygotes : CheckZygote(z)
    \/ \E p \in Pids : Handle(p) \/ HideDaemon(p)

Spec == Init /\ [][Next]_vars

\* The monitor's loop runs and waitpid forgets no tracee; a forked hide_daemon runs.
FairSpec ==
    /\ Spec
    /\ \A p \in Pids : WF_vars(Handle(p)) /\ WF_vars(HideDaemon(p))

(***************************************************************************)
(* Properties.                                                             *)
(***************************************************************************)

\* Every variable keeps its type.
TypeOK ==
    /\ kind \in [Pids -> Kinds] /\ stage \in [Pids -> Stages]
    /\ stop \in [Pids -> Stops] /\ msg \in [Pids -> Pids]
    /\ ns \in [Pids -> Pids \cup {RootNs}] /\ zygote_ns \in [Pids -> Pids \cup {RootNs}]
    /\ target \subseteq Pids /\ ready \subseteq Pids
    /\ tracefork \subseteq traced /\ traced \subseteq Pids
    /\ hidden \subseteq Pids /\ hiding \subseteq Pids
    /\ attaches \subseteq Pids /\ zygote_map \subseteq Pids /\ followed \subseteq Pids
    /\ running \in BOOLEAN /\ failed \in BOOLEAN /\ stops \in 0 .. MaxStops

\* A process on the hide list that a traced zygote forked, with a namespace of
\* its own, does not run the app's code before it was hidden, in whatever order
\* waitpid reports the stops of zygote, child and threads.
HiddenBeforeApp ==
    \A p \in followed \cap target :
        (kind[p] = "child" /\ ns[p] = p /\ stage[p] = "app") => p \in hidden

\* A thread is let go; only whole processes are followed and hidden.
ThreadsLetGo == \A p \in Pids : kind[p] = "thread" => p \notin attaches \cup hiding

=============================================================================
