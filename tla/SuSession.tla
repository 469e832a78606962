----------------------------- MODULE SuSession -----------------------------
(* A superuser session after access was granted: the su client (su/su.cpp), *)
(* its pumps (su/pts.cpp), the handler the daemon forks and the daemon's    *)
(* thread that waits for it (su/su_daemon.cpp).                             *)
(*                                                                          *)
(* Input and output are counted in characters. Each stream of the client is *)
(* its terminal or a file; the client's terminal is the one device whose    *)
(* mode is modelled.                                                        *)
EXTENDS Integers

CONSTANTS
    Sessions,     \* records [tty, owner, root, service, ask, alive, talks]: streams
                  \* that are terminals, the caller owns the pts, the caller is
                  \* root, pty devices can be opened, namespace mode, the
                  \* requester still runs when the handler joins it, the shell
                  \* reads commands from its input
    MaxInput, MaxOutput    \* bounds on characters

ASSUME SessionsAssumption ==
    /\ Sessions \subseteq [tty : SUBSET {"in", "out", "err"}, owner : BOOLEAN, root : BOOLEAN, service : BOOLEAN,
                           ask : {"global", "requester", "isolate"}, alive : BOOLEAN, talks : BOOLEAN]
    /\ MaxInput \in Nat /\ MaxOutput \in Nat

VARIABLES
    ses,          \* the session
    cli,          \* where the client is
    code,         \* what it returned
    term,         \* mode of its terminal: cooked, raw
    stdin_is_raw,
    inClosed,     \* stdin is closed
    stdClosed,    \* the signal handler has closed the standard streams
    signalAt,     \* where a quit signal hit the client
    keyAt,        \* where the client was when a key could not be passed on
    ptmx,         \* the master: none, open, closed, or held: closed while the
                  \* other thread is in a read of it
    reader,       \* the thread of pump_stdin_async: off, on, or in a read of stdin
    input,        \* characters left in the client's stdin
    inPty, outPty,\* characters in the pty, towards the shell and from it
    shown,        \* characters written to the client's stdout
    toHandler,    \* the client has sent the pts name and the streams
    toClient,     \* the int the client reads next: none, ack, code
    hdl,          \* the handler, later the shell
    ns,           \* its mount namespace
    got, wrote,   \* characters the shell has read and written
    exit,         \* its exit status
    slave,        \* some process has the slave open
    srv           \* the daemon's thread: off, wait, done, dead

sessVars == <<ses, cli, code, term, stdin_is_raw, inClosed, stdClosed, signalAt, keyAt, ptmx, reader, input, inPty, outPty, shown,
              toHandler, toClient, hdl, ns, got, wrote, exit, slave, srv>>
termVars == <<term, stdin_is_raw, inClosed, stdClosed, keyAt>>
dataVars == <<input, inPty, outPty, shown, got, wrote>>
clientVars == <<cli, code, term, stdin_is_raw, inClosed, stdClosed, signalAt, keyAt, ptmx, reader, input, shown, toHandler>>
shellVars == <<hdl, ns, got, wrote, exit, slave>>

EACCES == 13
Nobody == "none"

SessInit ==
    /\ ses = Nobody /\ cli = "idle" /\ code = 0 /\ term = "cooked" /\ stdin_is_raw = FALSE /\ inClosed = FALSE
    /\ stdClosed = FALSE /\ signalAt = "never" /\ keyAt = "never" /\ ptmx = "none" /\ reader = "off" /\ input = 0 /\ inPty = 0 /\ outPty = 0 /\ shown = 0
    /\ toHandler = FALSE /\ toClient = "none" /\ hdl = "none" /\ ns = "none" /\ got = 0 /\ wrote = 0 /\ exit = 0
    /\ slave = FALSE /\ srv = "off"

OnTty(s) == s \in ses.tty

\* The daemon forks the handler and waits for it.
ForkHandler ==
    /\ cli = "idle" /\ ses' \in Sessions /\ input' \in 0..MaxInput
    /\ cli' = "ack" /\ hdl' = "ack" /\ srv' = "wait"
    /\ UNCHANGED <<code, termVars, signalAt, ptmx, reader, inPty, outPty, shown, toHandler, toClient, ns, got,
                   wrote, exit, slave>>

(***************************************************************************)
(* The client                                                              *)
(***************************************************************************)

\* No process holds the other end of the socket any more.
HandlerHoldsSocket == hdl \in {"ack", "streams", "terminal"}
Eof == toClient = "none" /\ srv \in {"done", "dead"} /\ ~HandlerHoldsSocket

ReadAck ==
    /\ cli = "ack" /\ (toClient # "none" \/ Eof) /\ toClient' = "none"
    /\ IF toClient = "ack" THEN cli' = "open" /\ code' = code
       ELSE cli' = "ended" /\ code' = EACCES
    /\ UNCHANGED <<ses, termVars, signalAt, ptmx, reader, dataVars, toHandler, shellVars, srv>>

\* pts_open, when any stream is a terminal.
OpenPty ==
    /\ cli = "open" /\ cli' = "send"
    /\ ptmx' = IF ses.tty # {} /\ ses.service THEN "open" ELSE "none"
    /\ UNCHANGED <<ses, code, termVars, signalAt, reader, dataVars, toHandler, toClient, shellVars, srv>>

\* A write to a socket nobody reads is the end of a client that has not set
\* its handlers yet.
SendStreams ==
    /\ cli = "send"
    /\ IF srv = "dead" /\ ~HandlerHoldsSocket THEN cli' = "killed" /\ ptmx' = "none" /\ toHandler' = toHandler
       ELSE cli' = (IF ses.tty = {} THEN "code" ELSE "raw") /\ ptmx' = ptmx /\ toHandler' = TRUE
    /\ UNCHANGED <<ses, code, termVars, signalAt, reader, dataVars, toClient, shellVars, srv>>

\* Some descriptor or read keeps the master; a close of it.
HasMaster == ptmx \in {"open", "held"}
Released(s) == IF ptmx \in {s, "held"} THEN "closed" ELSE ptmx

\* pump_stdin_async, set_stdin_raw: the terminal first ...
SetRaw ==
    /\ cli = "raw"
    /\ IF OnTty("in") /\ ~inClosed THEN term' = "raw" /\ cli' = "flag" ELSE term' = term /\ cli' = "start"
    /\ UNCHANGED <<ses, code, stdin_is_raw, inClosed, stdClosed, signalAt, keyAt, ptmx, reader, dataVars, toHandler,
                   toClient, shellVars, srv>>

\* ... then the flag.
SetRawFlag ==
    /\ cli = "flag" /\ cli' = "start" /\ stdin_is_raw' = TRUE
    /\ UNCHANGED <<ses, code, term, inClosed, stdClosed, signalAt, keyAt, ptmx, reader, dataVars, toHandler, toClient,
                   shellVars, srv>>

StartPumps ==
    /\ cli = "start" /\ cli' = "pump" /\ reader' = "on"
    /\ UNCHANGED <<ses, code, termVars, signalAt, ptmx, dataVars, toHandler, toClient, shellVars, srv>>

\* Both pumps run until the main thread has left its own.
Pumping == cli \in {"pump", "read", "restore", "code"}

\* pump of the thread: it goes into a read of stdin, ...
ReaderReads ==
    /\ reader = "on" /\ Pumping /\ ~inClosed /\ reader' = "in"
    /\ UNCHANGED <<ses, cli, code, termVars, signalAt, ptmx, dataVars, toHandler, toClient, shellVars, srv>>

\* ... which returns, also if stdin was closed meanwhile, and writes to the
\* master. A write that fails ends the pump: stdin is closed.
PumpInput ==
    /\ reader = "in" /\ Pumping /\ input > 0 /\ input' = input - 1
    /\ IF ptmx = "open"
       THEN inPty' = inPty + 1 /\ reader' = "on" /\ UNCHANGED <<inClosed, keyAt>>
       ELSE inPty' = inPty /\ reader' = "off" /\ inClosed' = TRUE /\ keyAt' = cli
    /\ UNCHANGED <<ses, cli, code, term, stdin_is_raw, stdClosed, signalAt, ptmx, outPty, shown, got, wrote, toHandler,
                   toClient, shellVars, srv>>

\* The end of a file, or stdin closed before the read: both ends are closed.
\* A terminal in raw mode has no end.
InputEnds ==
    /\ Pumping /\ \/ reader = "on" /\ inClosed
                  \/ reader = "in" /\ input = 0 /\ ~OnTty("in")
    /\ reader' = "off" /\ inClosed' = TRUE
    /\ ptmx' = IF ptmx # "open" THEN ptmx ELSE IF cli = "read" THEN "held" ELSE "closed"
    /\ UNCHANGED <<ses, cli, code, term, stdin_is_raw, stdClosed, signalAt, keyAt, dataVars, toHandler, toClient,
                   shellVars, srv>>

\* pump of pump_stdout_blocking: a read of the master ...
MainReads ==
    /\ cli = "pump" /\ ptmx = "open" /\ cli' = "read"
    /\ UNCHANGED <<ses, code, termVars, signalAt, ptmx, reader, dataVars, toHandler, toClient, shellVars, srv>>

\* ... and the write of what it returns.
PumpOutput ==
    /\ cli = "read" /\ outPty > 0 /\ ~stdClosed /\ cli' = "pump"
    /\ outPty' = outPty - 1 /\ shown' = shown + 1 /\ ptmx' = Released("held")
    /\ UNCHANGED <<ses, code, termVars, signalAt, reader, input, inPty, toHandler, toClient, shellVars, srv>>

\* The pump stops at the first sign that the shell is gone.
HungUpAtOnce == hdl = "gone" /\ ~slave

\* A read of the master fails once no slave is open and nothing is left;
\* before the first open of the slave it waits.
HungUp == hdl = "gone" /\ ~slave /\ outPty = 0

\* The end of that pump: a read or the write fails; the master is closed.
OutputEnds ==
    /\ \/ cli = "pump" /\ ptmx # "open"
       \/ cli = "read" /\ (HungUp \/ (stdClosed /\ outPty > 0))
    /\ cli' = "restore" /\ ptmx' = Released("open")
    /\ UNCHANGED <<ses, code, termVars, signalAt, reader, dataVars, toHandler, toClient, shellVars, srv>>

\* restore_stdin, with stdin open or not.
RestoreStdin(open) ==
    IF stdin_is_raw /\ open THEN term' = "cooked" /\ stdin_is_raw' = FALSE ELSE UNCHANGED <<term, stdin_is_raw>>

\* The end of pump_stdout_blocking.
RestoreTerminal ==
    /\ cli = "restore" /\ cli' = "code" /\ RestoreStdin(~inClosed)
    /\ UNCHANGED <<ses, code, inClosed, stdClosed, signalAt, keyAt, ptmx, reader, dataVars, toHandler, toClient,
                   shellVars, srv>>

\* The read of the code returns.
Answered == cli = "code" /\ (toClient = "code" \/ Eof)

ReadCode ==
    /\ Answered
    /\ cli' = "ended" /\ code' = (IF toClient = "code" THEN exit ELSE -1) /\ toClient' = "none"
    /\ ptmx' = Released("open") /\ reader' = "off"
    /\ UNCHANGED <<ses, termVars, signalAt, dataVars, toHandler, shellVars, srv>>

\* The streams first.
SignalCloses ==
    /\ stdClosed' = TRUE /\ inClosed' = TRUE /\ RestoreStdin(FALSE)
    /\ IF cli = "read" THEN cli' = "restore" /\ ptmx' = Released("open")
       ELSE UNCHANGED <<cli, ptmx>>

\* The read goes on after the handler.
SignalRestarts == stdClosed' = TRUE /\ inClosed' = TRUE /\ RestoreStdin(~inClosed) /\ UNCHANGED <<cli, ptmx>>

\* sighandler: the main thread runs it. A read of the master in which it is
\* is interrupted, which ends that pump; one it begins later is not, and a
\* read of the code goes on. The other thread stays in its read of stdin.
Sighandler ==
    /\ stdClosed' = TRUE /\ inClosed' = TRUE /\ RestoreStdin(~inClosed)
    /\ IF cli = "read" THEN cli' = "restore" /\ ptmx' = Released("open")
       ELSE UNCHANGED <<cli, ptmx>>

QuitSignal ==
    /\ cli \in {"raw", "flag", "start"} \/ Pumping
    /\ ses.tty # {} /\ signalAt = "never" /\ signalAt' = cli /\ Sighandler
    /\ UNCHANGED <<ses, code, keyAt, reader, dataVars, toHandler, toClient, shellVars, srv>>

\* SIGKILL, or a quit signal whose action is the default.
Kill ==
    /\ cli \notin {"idle", "ended", "killed"} /\ cli' = "killed"
    /\ ptmx' = Released("open") /\ reader' = "off"
    /\ UNCHANGED <<ses, code, termVars, signalAt, dataVars, toHandler, toClient, shellVars, srv>>

(***************************************************************************)
(* The handler and the shell                                               *)
(***************************************************************************)

HandlerExits(status) == hdl' = "gone" /\ exit' = status /\ slave' = FALSE
ClientGone == cli \in {"ended", "killed"}

HandlerAck ==
    /\ hdl = "ack" /\ hdl' = "streams" /\ toClient' = IF ClientGone THEN "none" ELSE "ack"
    /\ UNCHANGED <<ses, clientVars, inPty, outPty, ns, got, wrote, exit, slave, srv>>

\* read_string and recv_fd; nothing comes from a client that is gone, and
\* streams that cannot be duplicated end the handler.
StreamsOver == toHandler \/ ClientGone
HandlerStreams ==
    /\ hdl = "streams" /\ StreamsOver
    /\ IF ~toHandler THEN HandlerExits(1) ELSE hdl' = "terminal" /\ UNCHANGED <<exit, slave>>
    /\ UNCHANGED <<ses, clientVars, inPty, outPty, toClient, ns, got, wrote, srv>>

\* Log of an error ends the handler: the pts of somebody else, a pts that
\* cannot be opened because it is hung up or was never made.
HandlerTerminal ==
    /\ hdl = "terminal"
    /\ IF ses.tty # {} /\ (~HasMaster \/ (~ses.owner /\ ~ses.root)) THEN HandlerExits(1)
       ELSE hdl' = "exec" /\ slave' = (ses.tty # {}) /\ exit' = exit
    /\ UNCHANGED <<ses, clientVars, inPty, outPty, toClient, ns, got, wrote, srv>>

\* switch_mnt_ns and unshare; a requester that is gone leaves the global one.
Joined == IF ses.alive THEN "requester" ELSE "global"
HandlerExec ==
    /\ hdl = "exec" /\ ns' = (CASE ses.ask = "global" -> "global" [] ses.ask = "requester" -> Joined [] OTHER -> "private")
    /\ \/ hdl' = "shell" /\ UNCHANGED <<exit, slave>>
       \/ HandlerExits(1)
    /\ UNCHANGED <<ses, clientVars, inPty, outPty, toClient, got, wrote, srv>>

\* External: the shell reads from the stream it was given, ...
Readable == ses.talks /\ IF OnTty("in") THEN inPty > 0 ELSE input > 0
ShellReads ==
    /\ hdl = "shell" /\ Readable
    /\ IF OnTty("in") THEN inPty' = inPty - 1 /\ input' = input
       ELSE input' = input - 1 /\ inPty' = inPty
    /\ got' = got + 1
    /\ UNCHANGED <<ses, cli, code, termVars, signalAt, ptmx, reader, outPty, shown, toHandler, toClient, hdl, ns, wrote,
                   exit, slave, srv>>

\* ... writes, ...
ShellWrites ==
    /\ hdl = "shell" /\ wrote < MaxOutput /\ wrote' = wrote + 1
    /\ IF OnTty("out") THEN HasMaster /\ outPty' = outPty + 1 /\ shown' = shown ELSE shown' = shown + 1 /\ outPty' = outPty
    /\ UNCHANGED <<ses, cli, code, termVars, signalAt, ptmx, reader, input, inPty, toHandler, toClient, hdl, ns, got, exit,
                   slave, srv>>

\* ... and ends: a command by itself, also leaving a process in the
\* background, a shell that reads commands at one that says so, at the end
\* of its input, or when its terminal is hung up (a signal, whose
\* WEXITSTATUS is 0).
ToldToEnd == ses.talks /\ (got > 0 \/ (~OnTty("in") /\ input = 0))
Hangup == ses.tty # {} /\ ~HasMaster
ShellEnds ==
    /\ hdl = "shell" /\ hdl' = "gone"
    /\ \/ ~ses.talks /\ exit' \in {0, 2} /\ slave' \in {FALSE, slave}
       \/ ToldToEnd /\ exit' \in {0, 2} /\ slave' = FALSE
       \/ Hangup /\ exit' = 0 /\ slave' = FALSE
    /\ UNCHANGED <<ses, clientVars, inPty, outPty, toClient, ns, got, wrote, srv>>

BackgroundEnds ==
    /\ hdl = "gone" /\ slave /\ slave' = FALSE
    /\ UNCHANGED <<ses, clientVars, inPty, outPty, toClient, hdl, ns, got, wrote, exit, srv>>

(***************************************************************************)
(* The daemon                                                              *)
(***************************************************************************)

\* The code is sent at once.
NotWaiting == srv = "wait" /\ hdl # "ack"

\* waitpid
Waited == srv = "wait" /\ hdl = "gone"

\* The client has read the ack by then or finds it first.
Sendable == Waited /\ toClient # "ack"
SendCode ==
    /\ Sendable /\ srv' = "done" /\ toClient' = (IF ClientGone THEN "none" ELSE "code")
    /\ UNCHANGED <<ses, clientVars, inPty, outPty, shellVars>>

DaemonDies ==
    /\ srv = "wait" /\ srv' = "dead"
    /\ UNCHANGED <<ses, clientVars, inPty, outPty, toClient, shellVars>>

SessStep ==
    \/ ReadAck \/ OpenPty \/ SendStreams \/ SetRaw \/ SetRawFlag \/ StartPumps \/ PumpInput \/ InputEnds
    \/ ReaderReads \/ MainReads \/ PumpOutput \/ OutputEnds \/ RestoreTerminal \/ ReadCode
    \/ HandlerAck \/ HandlerStreams \/ HandlerTerminal \/ HandlerExec
    \/ ShellReads \/ ShellWrites \/ ShellEnds \/ BackgroundEnds \/ SendCode
SessNext == ForkHandler \/ SessStep \/ QuitSignal \/ Kill \/ DaemonDies
SessSpec == SessInit /\ [][SessNext]_sessVars

(***************************************************************************)
(* Properties                                                              *)
(***************************************************************************)

\* The client returns the status of its own shell, not the answer of another
\* process on the socket, unless access fails or the daemon dies.
ShellCode == cli = "ended" /\ srv # "dead" => code = exit /\ hdl = "gone"

\* The terminal is as it was when the client ends, whatever ended it, with
\* two exceptions: a signal between the two steps of set_stdin_raw, and a key
\* that the other thread cannot write to the master any more, before the
\* terminal is restored, so that it closes stdin.
TerminalRestored == cli = "ended" /\ signalAt # "flag" /\ keyAt \notin {"pump", "restore"} => term = "cooked"

\* What the shell wrote to the terminal has been shown when the client ends,
\* if stdin is the terminal and no signal has closed stdout.
OutputShown ==
    cli = "ended" /\ OnTty("in") /\ OnTty("out") /\ signalAt = "never" => shown = wrote

\* What the shell wrote and how it ended reach the caller of su.
ResultPassedOn == ShellCode /\ OutputShown

\* The handler, its shell, the daemon's thread or the client after the pump
\* has a step to take, without anything from outside.
GoesOn ==
    \/ hdl \in {"ack", "terminal", "exec"} \/ (hdl = "streams" /\ StreamsOver)
    \/ hdl = "shell" /\ (~ses.talks \/ Readable \/ ToldToEnd \/ Hangup)
    \/ Sendable \/ Answered \/ cli = "restore"

\* A signal that interrupts the pump or comes after it, and the death of the
\* client, end the session: as long as the client or the shell is there, one
\* of them, or who waits for them, goes on; no shell is left that waits for
\* input nobody can give, and no client that waits for a code nobody sends.
SessionEnds ==
    cli # "idle" /\ (signalAt \in {"read", "restore", "code"} \/ cli = "killed") =>
        (ClientGone /\ hdl = "gone") \/ GoesOn

\* Input reaches the shell: what the client takes from stdin goes to the
\* stream that the shell reads.
StdinForShell == cli # "idle" /\ ~OnTty("in") => inPty = 0
=============================================================================
