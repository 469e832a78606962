---------------------------- MODULE DaemonSocket ----------------------------
(* The daemon's socket (core/daemon.cpp): clients connect, a root client    *)
(* starts the daemon if there is none, and one accept loop reads the        *)
(* request of each client, answers simple ones and starts a thread for the  *)
(* others.                                                                  *)
EXTENDS Naturals, Sequences, FiniteSets

CONSTANTS
    Clients,
    Scenarios,    \* [kind, req]: what each client may be, and ask
    MaxDeaths     \* bound: how often a daemon dies

\* root, shell, app: processes of the magisk binary; zygote; anyone else.
Kinds == {"root", "shell", "app", "zygote", "stranger"}

Codes == {"START_DAEMON", "SUPERUSER", "CHECK_VERSION", "CHECK_VERSION_CODE", "POST_FS_DATA",
          "LATE_START", "BOOT_COMPLETE", "JOKERHIDE", "SQLITE_CMD", "REMOVE_MODULES", "GET_PATH"}

nobody == "nobody"

ASSUME ClientsAssumption ==
    /\ nobody \notin Clients
    /\ Scenarios \subseteq [kind : [Clients -> Kinds], req : [Clients -> Codes \cup {"OUT_OF_RANGE"}]]
    /\ MaxDeaths \in Nat

VARIABLES
    kind, req,      \* what each client is and asks
    cli,            \* where each client is
    proc,           \* the daemon forked by each client
    bound,          \* the process that owns the socket's name
    queue,          \* connected and not accepted yet
    current,        \* the client the accept loop is with
    loop,           \* of the accept loop
    threads,        \* clients served by a thread
    reply,          \* what was written to each client
    deaths

vars == <<kind, req, cli, proc, bound, queue, current, loop, threads, reply, deaths>>
server == <<queue, current, loop, threads, reply>>

\* Of the clients that are gone, "left" had sent their request and "closed" not.
ClientStates == {"idle", "retry", "connected", "sent", "got", "garbled", "closed", "left",
                 "noDaemon"}
ProcStates == {"none", "starting", "bound", "listening", "exited"}
Answers == {"none", "int", "string", "refused"}

\* Every variable keeps its type.
TypeOK ==
    /\ [kind |-> kind, req |-> req] \in Scenarios
    /\ cli \in [Clients -> ClientStates] /\ proc \in [Clients -> ProcStates]
    /\ bound \in Clients \cup {nobody} /\ current \in Clients \cup {nobody}
    /\ queue \in Seq(Clients) /\ loop \in {"accept", "verify", "read"}
    /\ threads \subseteq Clients /\ reply \in [Clients -> Answers] /\ deaths \in 0..MaxDeaths

Init ==
    /\ \E s \in Scenarios : kind = s.kind /\ req = s.req
    /\ cli = [c \in Clients |-> "idle"] /\ proc = [c \in Clients |-> "none"]
    /\ bound = nobody /\ queue = <<>> /\ current = nobody /\ loop = "accept"
    /\ threads = {} /\ reply = [c \in Clients |-> "none"] /\ deaths = 0

Listening == bound # nobody /\ proc[bound] = "listening"

(***************************************************************************)
(* Clients: connect_daemon and magisk_main                                 *)
(***************************************************************************)

\* magisk_main passes create = true for these.
Creates == {"START_DAEMON", "POST_FS_DATA", "LATE_START", "BOOT_COMPLETE"}

Connect(c) ==
    /\ cli[c] = "idle" /\ UNCHANGED <<kind, req, bound, current, loop, threads, reply, deaths>>
    /\ IF Listening
       THEN cli' = [cli EXCEPT ![c] = "connected"] /\ queue' = Append(queue, c) /\ UNCHANGED proc
       ELSE /\ UNCHANGED queue
            /\ IF req[c] \in Creates /\ kind[c] = "root"
               THEN cli' = [cli EXCEPT ![c] = "retry"] /\ proc' = [proc EXCEPT ![c] = "starting"]
               ELSE cli' = [cli EXCEPT ![c] = "noDaemon"] /\ UNCHANGED proc

\* Only the daemon this client has forked will do.
RetryOwn(c) ==
    /\ cli[c] = "retry" /\ bound = c /\ Listening
    /\ cli' = [cli EXCEPT ![c] = "connected"] /\ queue' = Append(queue, c)
    /\ UNCHANGED <<kind, req, proc, bound, current, loop, threads, reply, deaths>>

\* while (connect(...)) usleep(10000)
Retry(c) ==
    /\ cli[c] = "retry" /\ Listening
    /\ cli' = [cli EXCEPT ![c] = "connected"] /\ queue' = Append(queue, c)
    /\ UNCHANGED <<kind, req, proc, bound, current, loop, threads, reply, deaths>>

Send(c) ==
    /\ cli[c] = "connected" /\ cli' = [cli EXCEPT ![c] = "sent"]
    /\ UNCHANGED <<kind, req, proc, bound, server, deaths>>

\* A client is killed; what it sent stays in the socket.
HangUp(c) ==
    /\ cli[c] \in {"connected", "sent", "retry"}
    /\ cli' = [cli EXCEPT ![c] = IF @ = "sent" THEN "left" ELSE "closed"]
    /\ UNCHANGED <<kind, req, proc, bound, server, deaths>>

\* What the client reads: a string, an int, or nothing but the end.
ReadsString(r) == r \in {"CHECK_VERSION", "SQLITE_CMD", "GET_PATH"}
Served(c) == c \in threads \/ c = current \/ \E i \in 1..Len(queue) : queue[i] = c

\* read_int takes the end for -1; read_string takes an int for a length, and
\* the end for a length of -1.
ReadReply(c) ==
    /\ cli[c] = "sent" /\ (reply[c] # "none" \/ ~Served(c))
    /\ cli' = [cli EXCEPT ![c] = IF ReadsString(req[c]) /\ reply[c] # "string" THEN "garbled" ELSE "got"]
    /\ UNCHANGED <<kind, req, proc, bound, server, deaths>>

(***************************************************************************)
(* The daemon: daemon_entry                                                *)
(***************************************************************************)

\* A daemon that cannot bind goes on to its accept loop.
BindOrStay(d) ==
    /\ proc[d] = "starting"
    /\ IF bound = nobody THEN proc' = [proc EXCEPT ![d] = "bound"] /\ bound' = d
       ELSE UNCHANGED <<proc, bound>>
    /\ UNCHANGED <<kind, req, cli, server, deaths>>

\* The socket's name is free or it is not: then exit(1).
Bind(d) ==
    /\ proc[d] = "starting"
    /\ IF bound = nobody THEN proc' = [proc EXCEPT ![d] = "bound"] /\ bound' = d
       ELSE proc' = [proc EXCEPT ![d] = "exited"] /\ UNCHANGED bound
    /\ UNCHANGED <<kind, req, cli, server, deaths>>

Listen(d) ==
    /\ proc[d] = "bound" /\ proc' = [proc EXCEPT ![d] = "listening"]
    /\ UNCHANGED <<kind, req, cli, bound, server, deaths>>

Accept ==
    /\ Listening /\ loop = "accept" /\ queue # <<>>
    /\ current' = Head(queue) /\ queue' = Tail(queue) /\ loop' = "verify"
    /\ UNCHANGED <<kind, req, cli, proc, bound, threads, reply, deaths>>

Close == current' = nobody /\ loop' = "accept"

\* The request is read from whoever connects.
VerifyLater ==
    /\ loop = "verify" /\ loop' = "read"
    /\ UNCHANGED <<kind, req, cli, proc, bound, queue, current, threads, reply, deaths>>

\* handle_request: a process that is not ours, not root and not zygote is
\* closed before anything is read from it.
Verify ==
    /\ loop = "verify"
    /\ IF kind[current] = "stranger" THEN Close ELSE loop' = "read" /\ UNCHANGED current
    /\ UNCHANGED <<kind, req, cli, proc, bound, queue, threads, reply, deaths>>

Permitted(k, r) ==
    CASE r \in {"POST_FS_DATA", "LATE_START", "BOOT_COMPLETE", "SQLITE_CMD", "GET_PATH"} -> k = "root"
      [] r = "REMOVE_MODULES" -> k \in {"root", "shell"}
      [] r = "JOKERHIDE" -> k \in {"root", "zygote"}
      [] OTHER -> TRUE

Inline == {"CHECK_VERSION", "CHECK_VERSION_CODE", "GET_PATH", "START_DAEMON"}

\* The path is answered with an int.
InlineAnswerInt(r) == CASE r = "CHECK_VERSION" -> "string" [] r = "START_DAEMON" -> "none" [] OTHER -> "int"

InlineAnswer(r) ==
    CASE r = "CHECK_VERSION_CODE" -> "int" [] r = "START_DAEMON" -> "none" [] OTHER -> "string"

Dispatch(c) ==
    IF req[c] = "OUT_OF_RANGE" THEN Close /\ UNCHANGED <<threads, reply>>
    ELSE IF ~Permitted(kind[c], req[c])
    THEN reply' = [reply EXCEPT ![c] = "refused"] /\ Close /\ UNCHANGED threads
    ELSE IF req[c] \in Inline
    THEN reply' = [reply EXCEPT ![c] = InlineAnswer(req[c])] /\ Close /\ UNCHANGED threads
    ELSE threads' = threads \cup {c} /\ Close /\ UNCHANGED reply

\* read_int returns with a code, also that of a client which is gone by now, or
\* with -1 when the client has gone without sending one.
ReadCode ==
    /\ loop = "read" /\ cli[current] # "connected"
    /\ IF cli[current] \in {"sent", "left"} THEN Dispatch(current)
       ELSE Close /\ UNCHANGED <<threads, reply>>
    /\ UNCHANGED <<kind, req, cli, proc, bound, queue, deaths>>

\* What the handlers write: exec_sql rows, and a 0 that read_string takes for
\* the empty string; all others begin with an int.
HandlerAnswer(r) == IF r = "SQLITE_CMD" THEN "string" ELSE "int"

\* request_handler, in a thread of its own: the answer, then close.
Handle(c) ==
    /\ c \in threads /\ threads' = threads \ {c}
    /\ reply' = [reply EXCEPT ![c] = HandlerAnswer(req[c])]
    /\ UNCHANGED <<kind, req, cli, proc, bound, queue, current, loop, deaths>>

DaemonDies ==
    /\ bound # nobody /\ deaths < MaxDeaths /\ deaths' = deaths + 1
    /\ proc' = [proc EXCEPT ![bound] = "exited"] /\ bound' = nobody
    /\ queue' = <<>> /\ current' = nobody /\ loop' = "accept" /\ threads' = {}
    /\ UNCHANGED <<kind, req, cli, reply>>

Next ==
    \/ Accept \/ Verify \/ ReadCode \/ DaemonDies
    \/ \E c \in Clients : \/ Connect(c) \/ Retry(c) \/ Send(c) \/ HangUp(c) \/ ReadReply(c)
                          \/ Bind(c) \/ Listen(c) \/ Handle(c)

\* The handlers that answer before they do anything else.  The others read
\* more from the client, wait for the manager or run scripts first.
AnsweredFirst == {"POST_FS_DATA", "LATE_START", "BOOT_COMPLETE"}

\* The daemon's accept loop and threads run, and so do the clients that have
\* nothing to wait for but the daemon; no client has to send anything.
Fairness ==
    /\ WF_vars(Accept) /\ WF_vars(Verify) /\ WF_vars(ReadCode)
    /\ \A c \in Clients :
        /\ WF_vars(Bind(c)) /\ WF_vars(Listen(c)) /\ WF_vars(Retry(c)) /\ WF_vars(ReadReply(c))
        /\ WF_vars(req[c] \in AnsweredFirst /\ Handle(c))

\* The clients that are ours send their request once they are connected;
\* others may stay silent for ever.
ClientsSpeak == \A c \in Clients : WF_vars(kind[c] # "stranger" /\ Send(c))

Spec == Init /\ [][Next]_vars /\ Fairness

(***************************************************************************)
(* Properties                                                              *)
(***************************************************************************)

\* The client that lost the race for the daemon's name comes through to the
\* daemon of the winner, which need not listen yet when it is tried.
RootConnects ==
    \A c \in Clients : cli[c] = "retry" ~> (cli[c] # "retry" \/ deaths > 0)

\* A forked daemon ends up as the one that listens, or ends.
OneDaemonStays ==
    \A d \in Clients : proc[d] = "starting" ~> proc[d] \in {"listening", "exited"}

\* As long as the clients that are ours speak, a request that the accept loop
\* answers, or a handler before it waits for anything, is answered or
\* disconnected, whatever processes that are not ours do with the socket and
\* however long the handlers of other requests take.
EveryRequestEnds ==
    ClientsSpeak =>
        \A c \in Clients :
            cli[c] = "sent" /\ req[c] \in Inline \cup AnsweredFirst ~> cli[c] # "sent"

\* A client that is not refused is never told something it takes for another
\* kind of answer, as long as the daemon lives.  A refusal is an int, and the
\* clients that wait for a string misread it.
AnswersUnderstood ==
    \A c \in Clients :
        cli[c] = "garbled" /\ kind[c] # "stranger" /\ deaths = 0 => ~Permitted(kind[c], req[c])
=============================================================================
