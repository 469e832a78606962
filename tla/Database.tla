------------------------------ MODULE Database ------------------------------
(* Opening and upgrading magisk.db (open_and_init_db and db_exec in         *)
(* core/db.cpp): databases of every earlier version, statements that fail,  *)
(* and a daemon that dies between two statements.                           *)
(*                                                                          *)
(* Each call of sqlite3_exec is atomic and durable (one statement, or one   *)
(* transaction).  The version is written last, so what was done before a    *)
(* crash is done again.                                                     *)
EXTENDS Integers, FiniteSets, Sequences

CONSTANTS
    Users, AppIds,   \* the uid of a policy is a user and an app id
    Owner,           \* the user with id 0
    Targets,         \* rows of hidelist: <<package, process>>
    NoPkg,           \* the package of a row of version 7, which has none
    MaxFiles,        \* bound on the databases created
    MaxDbCrashes

ASSUME OwnerAssumption == Owner \in Users
ASSUME TargetAssumption == \A x \in Targets : x = <<x[1], x[2]>>
ASSUME BoundAssumption == MaxFiles \in Nat \ {0} /\ MaxDbCrashes \in Nat

DB_VERSION == 10
Tables == {"policies", "settings", "strings", "hidelist"}

\* A database: its version, its tables, the uids of its policies, the rows of
\* hidelist, whether that table has its final columns and key, and whether a
\* row occurs twice (in a table without a key).
Fresh == [ver |-> 0, tables |-> {}, uids |-> {}, final |-> FALSE, rows |-> {}, twice |-> FALSE]

\* What version v left behind.
OldFile(v, u, r, d) ==
    [ver |-> v,
     tables |-> (IF v < 3 THEN {} ELSE {"policies", "settings"})
                \cup (IF v < 4 THEN {} ELSE {"strings"})
                \cup (IF v < 7 THEN {} ELSE {"hidelist"})
                \cup (IF v \in 3 .. 9 THEN {"logs"} ELSE {}),
     uids |-> IF v < 3 THEN {} ELSE u,
     final |-> v >= 9,
     rows |-> IF v < 7 THEN {} ELSE IF v = 7 THEN {<<NoPkg, x[2]>> : x \in r} ELSE r,
     twice |-> d /\ v \in {7, 8}]

VARIABLES
    files,     \* the databases created so far
    linked,    \* the one at MAGISKDB, 0 if none
    conn,      \* mDB: nullptr, an open connection, a failed open, or closed
    mDB,       \* the database of that connection, 0 if none
    dbPc,        \* what db_exec does next
    retry,     \* the database was removed in this call
    lost,      \* why the first database was removed, "no" if it was not
    broken,    \* reconstruction failed as well
    dbCrashes,
    orig, stored   \* history: the first database, the policies stored since

dbVars == <<files, linked, conn, mDB, dbPc, retry, lost, broken, dbCrashes, orig, stored>>

DbInit ==
    /\ \E v \in 0 .. DB_VERSION + 1, u \in SUBSET (Users \X AppIds), r \in SUBSET Targets,
          d \in BOOLEAN : orig = OldFile(v, u, r, d)
    /\ files = <<orig>> /\ linked = 1 /\ conn = "null" /\ mDB = 0
    /\ dbPc = "idle" /\ retry = FALSE /\ lost = "no" /\ broken = FALSE /\ dbCrashes = 0
    /\ stored = {}

(***************************************************************************)
(* The upgrade, statement by statement.                                    *)
(***************************************************************************)

FirstStepBefore6(v) ==
    IF v < 3 THEN "policies" ELSE IF v < 4 THEN "strings" ELSE IF v < 5 THEN "uids"
    ELSE IF v < 6 THEN "hidelist" ELSE IF v < 8 THEN "process" ELSE IF v < 9 THEN "key"
    ELSE IF v < 10 THEN "logs" ELSE "run"

FirstStepNo8(v) ==
    IF v < 3 THEN "policies" ELSE IF v < 4 THEN "strings" ELSE IF v < 5 THEN "uids"
    ELSE IF v < 7 THEN "hidelist" ELSE IF v < 9 THEN "process"
    ELSE IF v < 10 THEN "logs" ELSE "run"

\* The first statement an upgrade from version v runs, "run" if none.
FirstStep(v) ==
    IF v < 3 THEN "policies" ELSE IF v < 4 THEN "strings" ELSE IF v < 5 THEN "uids"
    ELSE IF v < 7 THEN "hidelist" ELSE IF v < 8 THEN "process" ELSE IF v < 9 THEN "key"
    ELSE IF v < 10 THEN "logs" ELSE "run"

\* What follows a statement; some versions are jumped over.
After == [policies |-> "settings", settings |-> "strings", strings |-> "uids",
          uids |-> "hidelist", hidelist |-> "logs", process |-> "logs", key |-> "logs",
          logs |-> "user_version", user_version |-> "run"]

Migrations == DOMAIN After

ConflictsIfExists(step, f) ==
    \/ step \in Tables /\ step \in f.tables
    \/ step = "uids" /\ \E x, y \in f.uids : x # y /\ x[2] = y[2]
    \/ step \in {"process", "key"} /\ f.twice

\* The statement breaks the primary key of policies or of the new hidelist.
Conflicts(step, f) ==
    \/ step = "uids" /\ \E x, y \in f.uids : x # y /\ x[2] = y[2]
    \/ step \in {"process", "key"} /\ f.twice

\* CREATE TABLE IF NOT EXISTS.
CreateTable(step, f) ==
    [f EXCEPT !.tables = @ \cup {step},
              !.final = (step = "hidelist" /\ "hidelist" \notin f.tables) \/ @]

Statement(step, f) ==
    CASE step \in Tables -> CreateTable(step, f)
      [] step = "uids" -> [f EXCEPT !.uids = {<<Owner, x[2]>> : x \in @}]
      [] step = "process" -> [f EXCEPT !.rows = {<<x[2], x[2]>> : x \in @}, !.final = TRUE]
      [] step = "key" -> [f EXCEPT !.final = TRUE]
      [] step = "logs" -> [f EXCEPT !.tables = @ \ {"logs"}]
      [] step = "user_version" -> [f EXCEPT !.ver = DB_VERSION]

(***************************************************************************)
(* db_exec                                                                 *)
(***************************************************************************)

Exec ==
    /\ dbPc = "idle" /\ dbPc' = IF conn = "null" THEN "open" ELSE "run"
    /\ retry' = FALSE
    /\ UNCHANGED <<files, linked, conn, mDB, lost, broken, dbCrashes, orig, stored>>

\* sqlite3_open_v2 creates the database if there is none.
Open ==
    /\ dbPc = "open" /\ dbPc' = "version"
    /\ IF linked # 0 THEN UNCHANGED <<files, linked>>
       ELSE /\ Len(files) < MaxFiles
            /\ files' = Append(files, Fresh) /\ linked' = Len(files) + 1
    /\ conn' = "open" /\ mDB' = linked'
    /\ UNCHANGED <<retry, lost, broken, dbCrashes, orig, stored>>

\* A newer database is closed and the caller told that all is well; mDB is not
\* reset.
ReadVersion ==
    /\ dbPc = "version"
    /\ dbPc' = IF files[mDB].ver > DB_VERSION THEN "run" ELSE FirstStep(files[mDB].ver)
    /\ conn' = IF files[mDB].ver > DB_VERSION THEN "closed" ELSE conn
    /\ UNCHANGED <<files, linked, mDB, retry, lost, broken, dbCrashes, orig, stored>>

Upgrade ==
    /\ dbPc \in Migrations /\ ~Conflicts(dbPc, files[mDB])
    /\ files' = [files EXCEPT ![mDB] = Statement(dbPc, files[mDB])]
    /\ dbPc' = After[dbPc]
    /\ UNCHANGED <<linked, conn, mDB, retry, lost, broken, dbCrashes, orig, stored>>

\* The removed database is not opened again.
RemoveFileOnly(reason) ==
    /\ dbPc' = (IF retry THEN "idle" ELSE "run") /\ broken' = retry
    /\ linked' = (IF retry THEN linked ELSE 0) /\ retry' = TRUE
    /\ lost' = IF linked = 1 /\ ~retry THEN reason ELSE lost
    /\ UNCHANGED <<files, dbCrashes, orig, stored>>

\* Open fails, remove and reconstruct: once; a connection that failed is left
\* in mDB, and no later call upgrades it.
RemoveFile(reason) ==
    /\ IF retry
       THEN /\ dbPc' = "idle" /\ broken' = TRUE
            /\ UNCHANGED <<linked, retry, lost>>
       ELSE /\ dbPc' = "open" /\ linked' = 0 /\ retry' = TRUE
            /\ lost' = IF linked = 1 THEN reason ELSE lost
            /\ UNCHANGED broken
    /\ UNCHANGED <<files, dbCrashes, orig, stored>>

OpenDbFails == dbPc = "open" /\ conn' = "bad" /\ mDB' = 0 /\ RemoveFile("failure")
StatementFails == dbPc \in Migrations \cup {"version"} /\ RemoveFile("failure") /\ UNCHANGED <<conn, mDB>>
Conflict ==
    /\ dbPc \in Migrations /\ Conflicts(dbPc, files[mDB]) /\ RemoveFile("conflict")
    /\ UNCHANGED <<conn, mDB>>

\* The caller's statement: it stores a policy, or changes nothing of interest.
RunOther ==
    /\ dbPc = "run" /\ dbPc' = "idle"
    /\ UNCHANGED <<files, linked, conn, mDB, retry, lost, broken, dbCrashes, orig, stored>>
RunStore ==
    /\ dbPc = "run" /\ dbPc' = "idle" /\ conn = "open" /\ "policies" \in files[mDB].tables
    /\ \E x \in Users \X AppIds :
        /\ files' = [files EXCEPT ![mDB].uids = @ \cup {x}]
        /\ stored' = IF mDB = 1 THEN stored \cup {x} ELSE stored
    /\ UNCHANGED <<linked, conn, mDB, retry, lost, broken, dbCrashes, orig>>

\* The daemon dies and is started again.  (It also does when libsqlite cannot
\* be loaded: db_err calls sqlite3_free, which was not found.)
DbCrash ==
    /\ dbCrashes < MaxDbCrashes /\ dbCrashes' = dbCrashes + 1
    /\ dbPc' = "idle" /\ conn' = "null" /\ mDB' = 0 /\ retry' = FALSE /\ broken' = FALSE
    /\ UNCHANGED <<files, linked, lost, orig, stored>>

DbNext ==
    \/ Exec \/ Open \/ ReadVersion \/ Upgrade \/ OpenDbFails \/ StatementFails \/ Conflict
    \/ RunOther \/ RunStore \/ DbCrash

DbSpec == DbInit /\ [][DbNext]_dbVars

(***************************************************************************)
(* Properties.                                                             *)
(***************************************************************************)

Files == [ver : 0 .. DB_VERSION + 1, tables : SUBSET (Tables \cup {"logs"}),
          uids : SUBSET (Users \X AppIds), final : BOOLEAN,
          rows : SUBSET ((({NoPkg} \cup {x[1] : x \in Targets} \cup {x[2] : x \in Targets})
                         \X {x[2] : x \in Targets})), twice : BOOLEAN]

\* Every variable keeps its type; a connection is open to a database that exists.
DbTypeOK ==
    /\ files \in Seq(Files) /\ linked \in 0 .. Len(files)
    /\ conn \in {"null", "open", "bad", "closed"} /\ mDB \in 0 .. Len(files)
    /\ conn \in {"open", "closed"} => mDB # 0
    /\ dbPc \in {"idle", "open", "version", "run"} \cup Migrations
    /\ retry \in BOOLEAN /\ lost \in {"no", "failure", "conflict"} /\ broken \in BOOLEAN
    /\ dbCrashes \in 0 .. MaxDbCrashes
    /\ orig \in Files /\ stored \subseteq Users \X AppIds

\* A statement of the daemon runs on the final schema, from whatever version
\* the upgrade started and wherever an earlier attempt died; only after both
\* attempts failed does db_exec go on with what there is.
RunsOnFinalSchema ==
    (dbPc = "run" /\ conn = "open" /\ ~broken) =>
        /\ files[mDB].ver = DB_VERSION /\ files[mDB].tables = Tables /\ files[mDB].final

\* Reference: the data of the first database in the final schema.
MigratedUids == IF orig.ver < 5 THEN {<<Owner, x[2]>> : x \in orig.uids} ELSE orig.uids
MigratedRows == IF orig.ver = 7 THEN {<<x[2], x[2]>> : x \in orig.rows} ELSE orig.rows

\* The first database, as long as it is the one at MAGISKDB: however often
\* the upgrade is interrupted and done again, once upgraded it holds its own
\* policies and hide list and what was stored since; before, each is as it was
\* or as it will be.
DataHeld ==
    LET f == files[1] IN
    linked = 1 =>
        IF f.ver = DB_VERSION THEN f.uids = MigratedUids \cup stored /\ f.rows = MigratedRows
        ELSE f.uids \in {orig.uids \cup stored, MigratedUids \cup stored} /\ f.rows \in {orig.rows, MigratedRows}

\* It is removed, with all it holds, only if SQLite itself fails or if it has
\* rows that are one row in the new schema; an upgrade that is done again after
\* a crash meets no conflict of its own making.
RemovedForCause ==
    \/ linked = 1 \/ lost = "failure"
    \/ lost = "conflict" /\ \E s \in Migrations : Conflicts(s, orig)

\* What the daemon stores is stored at MAGISKDB, where the next start finds it,
\* and not in a file that was removed.
StoredThere == dbPc = "run" /\ conn = "open" => mDB = linked

\* The three together: but for the causes named, no policy and no entry of the
\* hide list is lost.
DataKept == DataHeld /\ RemovedForCause /\ StoredThere
=============================================================================
