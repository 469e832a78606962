--------------------------- MODULE MCDaemonSocket ---------------------------
EXTENDS DaemonSocket

\* Two root processes, one of which may race to start the daemon, and a third.
Third == {<<"stranger", "SUPERUSER">>, <<"app", "SQLITE_CMD">>, <<"shell", "REMOVE_MODULES">>,
          <<"zygote", "JOKERHIDE">>, <<"app", "OUT_OF_RANGE">>}

MCScenarios ==
    {[kind |-> [c \in Clients |-> IF c = "c3" THEN t[1] ELSE "root"],
      req |-> [c \in Clients |-> CASE c = "c1" -> "START_DAEMON" [] c = "c2" -> r [] OTHER -> t[2]]] :
        t \in Third, r \in {"POST_FS_DATA", "GET_PATH"}}
=============================================================================
