----------------------------- MODULE LogDaemon -----------------------------
(* The log of the daemon (core/daemon.cpp): threads send their messages     *)
(* through a socket to one writer, which keeps them in memory until a boot  *)
(* stage has it open the log file; a reset makes the old file the backup.   *)
EXTENDS Naturals, Sequences

CONSTANTS
    MaxLogs,      \* bound: messages
    MaxSetups     \* bound: calls of setup_logfile

VARIABLES
    log_sockfd,   \* whether the sending end is open
    logChan,      \* what is in the socket
    logWriter,    \* idle (not started), run, dead, closed
    logBuf,       \* log_buf: messages kept in memory
    logFile, logBak,   \* LOGFILE and LOGFILE.bak
    logOpen,      \* the file has been opened
    logSent, logSetups, logResets    \* counters: messages, calls, resets done

logVars == <<log_sockfd, logChan, logWriter, logBuf, logFile, logBak, logOpen,
             logSent, logSetups, logResets>>

\* What is left of the boot before: message 0.
LogInit ==
    /\ log_sockfd = FALSE /\ logChan = <<>> /\ logWriter = "idle" /\ logBuf = <<>>
    /\ logFile = <<0>> /\ logBak = <<>> /\ logOpen = FALSE
    /\ logSent = 0 /\ logSetups = 0 /\ logResets = 0

StartLogDaemon ==
    /\ logWriter = "idle" /\ logWriter' = "run" /\ log_sockfd' = TRUE
    /\ UNCHANGED <<logChan, logBuf, logFile, logBak, logOpen, logSent, logSetups, logResets>>

\* magisk_log: one sendmsg with the meta data and the text; when it fails no
\* more is tried.
MagiskLog ==
    /\ logWriter # "idle" /\ log_sockfd /\ logSent < MaxLogs /\ logSent' = logSent + 1
    /\ IF logWriter = "run"
       THEN logChan' = Append(logChan, [prio |-> 1, msg |-> logSent + 1]) /\ UNCHANGED log_sockfd
       ELSE log_sockfd' = FALSE /\ UNCHANGED logChan
    /\ UNCHANGED <<logWriter, logBuf, logFile, logBak, logOpen, logSetups, logResets>>

\* setup_logfile: a message of priority -1.
SetupLogfile ==
    /\ logWriter # "idle" /\ log_sockfd /\ logSetups < MaxSetups /\ logSetups' = logSetups + 1
    /\ \E reset \in {0, 1} :
        logChan' = IF logWriter = "run" THEN Append(logChan, [prio |-> 0, msg |-> reset]) ELSE logChan
    /\ UNCHANGED <<log_sockfd, logWriter, logBuf, logFile, logBak, logOpen, logSent, logResets>>

\* The file is opened and only the messages to come are written to it.
OpenDropsBuffer(reset) ==
    /\ logBak' = IF reset THEN logFile ELSE logBak
    /\ logFile' = IF reset THEN <<>> ELSE logFile
    /\ logBuf' = <<>> /\ logOpen' = TRUE

\* rename, open to append, and what was kept.
OpenLog(reset) ==
    /\ logBak' = IF reset THEN logFile ELSE logBak
    /\ logFile' = (IF reset THEN <<>> ELSE logFile) \o logBuf
    /\ logBuf' = <<>> /\ logOpen' = TRUE

HandleSetup ==
    /\ logWriter = "run" /\ logChan # <<>> /\ Head(logChan).prio = 0 /\ logChan' = Tail(logChan)
    /\ OpenLog(Head(logChan).msg = 1) /\ logResets' = logResets + Head(logChan).msg
    /\ UNCHANGED <<log_sockfd, logWriter, logSent, logSetups>>

\* The file cannot be opened (it was renamed all the same): the writer ends
\* and closes its end of the socket,
OpenFails ==
    /\ logWriter = "run" /\ logChan # <<>> /\ Head(logChan).prio = 0
    /\ logWriter' = "dead" /\ logChan' = <<>> /\ logBuf' = <<>>
    /\ IF Head(logChan).msg = 1 THEN logBak' = logFile /\ logFile' = <<>>
       ELSE UNCHANGED <<logBak, logFile>>
    /\ UNCHANGED <<log_sockfd, logOpen, logSent, logSetups, logResets>>

\* then the sending end, unless a thread was faster: log_sockfd.exchange(-1).
CloseSender ==
    /\ logWriter = "dead" /\ logWriter' = "closed" /\ log_sockfd' = FALSE
    /\ UNCHANGED <<logChan, logBuf, logFile, logBak, logOpen, logSent, logSetups, logResets>>

\* byte_stream until the file is open, then fd_stream.
HandleMessage ==
    /\ logWriter = "run" /\ logChan # <<>> /\ Head(logChan).prio = 1 /\ logChan' = Tail(logChan)
    /\ IF logOpen THEN logFile' = Append(logFile, Head(logChan).msg) /\ UNCHANGED logBuf
       ELSE logBuf' = Append(logBuf, Head(logChan).msg) /\ UNCHANGED logFile
    /\ UNCHANGED <<log_sockfd, logWriter, logBak, logOpen, logSent, logSetups, logResets>>

LogNext ==
    \/ StartLogDaemon \/ MagiskLog \/ SetupLogfile \/ HandleSetup \/ OpenFails \/ CloseSender
    \/ HandleMessage
LogSpec == LogInit /\ [][LogNext]_logVars

\* What the writer has had, and what is still in the socket.
Logged == logBak \o logFile \o logBuf
OnTheWay == {i \in DOMAIN logChan : logChan[i].prio = 1}

\* Every message is in the backup, in the file, in memory or on its way, once
\* and in the order it was sent, unless a second reset has dropped the backup:
\* whenever the boot stages have the file opened, and also if never.
LogComplete ==
    logWriter = "run" /\ logResets < 2 =>
        /\ \A i \in DOMAIN Logged : Logged[i] = i - 1
        /\ {logChan[i].msg : i \in OnTheWay} = Len(Logged)..logSent
        /\ \A i, j \in OnTheWay : i < j => logChan[i].msg < logChan[j].msg
=============================================================================
