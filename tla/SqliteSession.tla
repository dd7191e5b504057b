---------------------------- MODULE SqliteSession ---------------------------
(***************************************************************************)
(* The TypeScript API of the database on both platforms and the Drizzle    *)
(* driver over it, used by one caller that awaits what it calls: a         *)
(* database is opened from its options, transactions and nested ones       *)
(* follow, and their rows are read back.  AndroidTransactions and          *)
(* IOSTransactions have what several callers do to each other; this module *)
(* has what one does to itself: the savepoints SQLite keeps on a stack of  *)
(* names, which the three implementations name and drop differently.       *)
(***************************************************************************)
EXTENDS OpenSequence, StatementResults

CONSTANTS
  OptionSets,     \* the options openDatabase() is called with
  Params,         \* the parameters statements are run with
  Columns,        \* the columns of the table, in order
  ColumnLists,    \* the lists of columns a query may ask for
  MaxDepth,       \* bound: transactions open in one another
  MaxStack,       \* bound: savepoints SQLite keeps, BEGIN included
  MaxNames,       \* bound: names handed out by one counter
  MaxRows         \* bound: rows in the table

ASSUME OptionSetsAssumption == OptionSets \subseteq OptionTypes
ASSUME ColumnsAssumption == Columns \in Seq(STRING) /\ ColumnLists \subseteq Seq(Range(Columns))

VARIABLES
  platform,       \* "android" or "ios"
  driver,         \* "plugin" or "drizzle"
  options,        \* of openDatabase(), until it has returned
  phase,          \* "opening", "refused" or "open"
  table,          \* the parameters of the rows written, in order
  stack,          \* SQLite: BEGIN and the savepoints, [name, saved] each
  frames,         \* the calls open in one another, [name, stage, found] each
  sync,           \* the outermost is transactionSync()
  counter,        \* savepointSeq or _savepointCounter
  answer,         \* of the last outermost call
  fault           \* the error that call is rejected with

apiVars     == <<platform, driver>>
openVars    == <<options, phase>>
engineVars  == <<table, stack>>
callVars    == <<frames, sync, counter, answer, fault>>
sessionVars == <<platform, driver, options, phase, table, stack,
                 frames, sync, counter, answer, fault>>

NoOptions == "none"

SessionInit ==
  /\ platform \in {"android", "ios"}
  /\ driver \in {"plugin", "drizzle"}
  /\ options \in OptionSets
  /\ phase = "opening"
  /\ table = <<>> /\ stack = <<>>
  /\ frames = <<>> /\ sync = FALSE /\ counter = 0
  /\ answer = "none" /\ fault = "none"

-----------------------------------------------------------------------------
(* openDatabase().                                                         *)

OpenDatabase ==
  /\ phase = "opening"
  /\ phase' = IF Accepted(options) THEN "open" ELSE "refused"
  /\ options' = NoOptions
  /\ UNCHANGED <<apiVars, engineVars, callVars>>

-----------------------------------------------------------------------------
(* SQLite's savepoints: RELEASE and ROLLBACK TO act on the youngest of the *)
(* name; the first forgets it and those above, the second only those above.*)

Youngest(name) == CHOOSE i \in 0..Len(stack) :
  /\ i = 0 \/ stack[i].name = name
  /\ \A j \in (i + 1)..Len(stack) : stack[j].name # name

Savepoint(name) ==
  /\ stack' = Append(stack, [name |-> name, saved |-> table])
  /\ UNCHANGED table

ReleaseTo(name) ==
  /\ stack' = SubSeq(stack, 1, Youngest(name) - 1)
  /\ UNCHANGED table

RollbackTo(name) ==
  /\ table' = stack[Youngest(name)].saved
  /\ stack' = SubSeq(stack, 1, Youngest(name))

Rollback == table' = stack[1].saved /\ stack' = <<>>

-----------------------------------------------------------------------------
(* The calls.                                                              *)

BeginName == <<"BEGIN", 0>>

Top == Last(frames)

Is(stage) == frames # <<>> /\ Top.stage = stage

Frame(name) == [name |-> name, stage |-> "running", found |-> table]

SetStage(stage) == [frames EXCEPT ![Len(frames)].stage = stage]

(* Fault: every nested call uses one name.                                 *)
SavepointName_One == <<"sp", 0>>

(* The savepoint a nested call makes: Android numbers them for the whole   *)
(* process, iOS within a transaction, Drizzle by depth.                    *)
SavepointName ==
  IF driver = "drizzle" THEN <<"sp", Len(frames) - 1>> ELSE <<"_sp", counter>>

(* transaction() and transactionSync().                                    *)
Begin ==
  /\ phase = "open" /\ frames = <<>>
  /\ Savepoint(BeginName)
  /\ frames' = <<Frame(BeginName)>>
  /\ sync' \in (IF driver = "drizzle" THEN {FALSE} ELSE BOOLEAN)
  /\ counter' = IF platform = "ios" THEN 0 ELSE counter
  /\ answer' = "pending" /\ fault' = "none"
  /\ UNCHANGED <<apiVars, openVars>>

(* execute() of the transaction, or run() of a prepared query of Drizzle   *)
(* with the transaction's id.                                              *)
Execute ==
  /\ Is("running") /\ Len(table) < MaxRows
  /\ \E p \in Params : table' = Append(table, p)
  /\ UNCHANGED <<stack, apiVars, openVars, callVars>>

(* savepoint(), savepointSync(), or transaction() of Drizzle's transaction.*)
Nest ==
  /\ Is("running")
  /\ Len(frames) < MaxDepth /\ Len(stack) < MaxStack /\ counter < MaxNames
  /\ Savepoint(SavepointName)
  /\ frames' = Append(frames, Frame(SavepointName))
  /\ counter' = IF driver = "drizzle" THEN counter ELSE counter + 1
  /\ UNCHANGED <<apiVars, openVars, sync, answer, fault>>

(* The callback of a nested call returns.                                  *)
Return ==
  /\ Is("running") /\ Len(frames) > 1
  /\ ReleaseTo(Top.name)
  /\ frames' = Front(frames)
  /\ UNCHANGED <<apiVars, openVars, sync, counter, answer, fault>>

(* A callback throws, or lets the error of what it called pass.            *)
Throw ==
  /\ Is("running")
  /\ frames' = SetStage("undoing")
  /\ fault' = "callback"
  /\ UNCHANGED <<apiVars, openVars, engineVars, sync, counter, answer>>

(* The call above hears the error: its callback catches it or passes it on.*)
Rethrown(rest) ==
  \/ frames' = rest
  \/ frames' = [rest EXCEPT ![Len(rest)].stage = "undoing"]

(* Only the plugin on Android releases the savepoint it has rolled back to.*)
ReleasesAfterRollback == platform = "android" /\ driver = "plugin"

Undo ==
  /\ Is("undoing") /\ Len(frames) > 1
  /\ RollbackTo(Top.name)
  /\ IF ReleasesAfterRollback THEN frames' = SetStage("dropping") ELSE Rethrown(Front(frames))
  /\ UNCHANGED <<apiVars, openVars, sync, counter, answer, fault>>

Drop ==
  /\ Is("dropping")
  /\ ReleaseTo(Top.name)
  /\ Rethrown(Front(frames))
  /\ UNCHANGED <<apiVars, openVars, sync, counter, answer, fault>>

(* The outermost callback returns: COMMIT.  A COMMIT that fails is rolled  *)
(* back by the native layer, which forgets the transaction.                *)
Commit ==
  /\ Is("running") /\ Len(frames) = 1
  /\ stack' = <<>> /\ frames' = <<>> /\ answer' = "resolved"
  /\ UNCHANGED <<apiVars, openVars, table, sync, counter, fault>>

CommitFails ==
  /\ Is("running") /\ Len(frames) = 1
  /\ Rollback
  /\ IF sync THEN frames' = <<>> /\ answer' = "rejected"
     ELSE frames' = SetStage("undoing") /\ UNCHANGED answer
  /\ fault' = "commit"
  /\ UNCHANGED <<apiVars, openVars, sync, counter>>

(* transactionSync() refuses a callback that returns a promise.            *)
ReturnPromise ==
  /\ Is("running") /\ Len(frames) = 1 /\ sync
  /\ frames' = SetStage("undoing")
  /\ fault' = "misuse"
  /\ UNCHANGED <<apiVars, openVars, engineVars, sync, counter, answer>>

(* Fault: the error of the ROLLBACK is passed on by everyone.              *)
AfterRollback_Loud(ended) == IF ended THEN "rollback" ELSE fault

(* The error of a ROLLBACK, of a transaction that has ended already: the   *)
(* plugin drops it, the driver does not catch it.                          *)
AfterRollback(ended) == IF ended /\ driver = "drizzle" THEN "rollback" ELSE fault

RollbackTransaction ==
  /\ Is("undoing") /\ Len(frames) = 1
  /\ IF stack = <<>> THEN UNCHANGED engineVars ELSE Rollback
  /\ frames' = <<>> /\ answer' = "rejected"
  /\ fault' = AfterRollback(stack = <<>>)
  /\ UNCHANGED <<apiVars, openVars, sync, counter>>

SessionNext ==
  \/ OpenDatabase \/ Begin \/ Execute \/ Nest \/ Return \/ Throw \/ Undo \/ Drop
  \/ Commit \/ CommitFails \/ ReturnPromise \/ RollbackTransaction

SessionSpec == SessionInit /\ [][SessionNext]_sessionVars

-----------------------------------------------------------------------------
KeyIsSound(role, o) ==
  o.encryptionKey # Empty =>
    /\ Derivation(ResolveEncryptionKey(o)) = o.encryptionKeyFormat
    /\ \E k \in 1..Len(Performed(role, o)) :
         /\ At(Performed(role, o), "key") = {k}
         /\ \A w \in At(Performed(role, o), "wal") : k < w
         /\ "openSequence" \in o.given \/ k = 1

MeantFor(role, entry) ==
  entry.form \in {"text", "object"} /\ entry.sql # Empty /\ entry.on \in {"undefined", "all", role}

StatementsAreRun(role, o) ==
  LET given == Selection(Performed(role, o), LAMBDA s : s.kind = "sql")
      meant == Selection(o.sequence, LAMBDA e : MeantFor(role, e))
  IN  [i \in 1..Len(given) |-> given[i].sql] = [i \in 1..Len(meant) |-> meant[i].sql]

(* What is opened is what was asked for: the key is used in the form the   *)
(* caller said, applied once, and before the journal mode is switched (and *)
(* first of all when the caller gives no order); every statement the       *)
(* caller gave runs on the connections it is meant for and in its order;   *)
(* only the writer switches to WAL; and the connections share one database *)
(* (except for a pool over memory that the caller insists on: Android      *)
(* shares only ":memory:", iOS nothing, though common.ts:235 offers it).   *)
OpenIsSound ==
  phase = "opening" /\ Accepted(options) =>
    /\ \A role \in Roles(options) :
         /\ KeyIsSound(role, options)
         /\ StatementsAreRun(role, options)
         /\ At(Performed(role, options), "wal") # {} => role = "writer" /\ ~options.readOnly
    /\ \/ options.serialized = "false" /\ (platform = "ios" \/ options.path # ":memory:")
       \/ OneDatabase(IF platform = "android" THEN AndroidPath(options) ELSE IOSPath(options), options)

(* A call that has ended for SQLite and has not returned yet.              *)
Ended == frames # <<>> /\ (Top.stage = "dropping" \/ stack = <<>>)

Open == IF Ended THEN Front(frames) ELSE frames

Nested == INSTANCE NestedTransactions WITH
  table  <- table,
  found  <- [i \in 1..Len(Open) |-> Open[i].found],
  answer <- IF Ended /\ Len(frames) = 1 THEN "rejected" ELSE answer

(* Nested transactions are atomic whatever order they succeed and fail in: *)
(* an inner one that fails takes back what it wrote and nothing else, and  *)
(* the outermost keeps all or nothing.  The calls know a savepoint by its  *)
(* name only, and on iOS and in the driver the savepoints of calls that    *)
(* failed stay on SQLite's stack.                                          *)
ImplementsNestedTransactions == Nested!AbsSpec

(* A rejected transaction is rejected with what went wrong in it, not with *)
(* what went wrong in taking it back.  Drizzle's driver does not have this *)
(* after a COMMIT that failed: it awaits a ROLLBACK nobody expects any     *)
(* more, and its error replaces that of the COMMIT.                        *)
CallersErrorWins ==
  answer = "rejected" =>
    \/ fault \in {"callback", "commit", "misuse"}
    \/ driver = "drizzle" /\ fault = "rollback"

(* What a parameter is, whatever the platform's code makes of it.         *)
Meant(v) ==
  CASE v.js = "boolean"               -> [value |-> IF v.data = "true" THEN "1" ELSE "0"]
    [] v.js \in {"number", "string"}  -> [value |-> v.data]
    [] v.js = "ArrayBuffer"           -> [blob |-> v.data]
    [] OTHER                          -> NullCell

Written == [i \in 1..Len(table) |->
  IF platform = "android" THEN ParseParams(table[i], Columns) ELSE MarshalParams(table[i], Columns)]

MeantRows == [i \in 1..Len(table) |-> [c \in Range(Columns) |-> Meant(BindParams(table[i], Columns)[c])]]

Entries == IF platform = "android"
           THEN {"prepared", "readTx", "syncTx", "database", "databaseSync", "lowLevel"}
           ELSE {"prepared", "readTx", "writeTx", "syncTx", "database", "databaseSync", "lowLevel"}

Answered(entry, m, q) ==
  CASE platform = "android" /\ entry = "prepared"     -> AndroidPrepared(m, q)
    [] platform = "android" /\ entry = "readTx"       -> AndroidReadTx(m, q)
    [] platform = "android" /\ entry = "syncTx"       -> AndroidSyncTx(m, q)
    [] platform = "android" /\ entry = "database"     -> AndroidDatabase(m, q)
    [] platform = "android" /\ entry = "databaseSync" -> AndroidDatabaseSync(m, q)
    [] platform = "android" /\ entry = "lowLevel"     -> AndroidLowLevel(m, q)
    [] platform = "ios" /\ entry = "prepared"         -> IOSPrepared(m, q)
    [] platform = "ios" /\ entry = "readTx"           -> IOSReadTx(m, q)
    [] platform = "ios" /\ entry = "writeTx"          -> IOSWriteTx(m, q)
    [] platform = "ios" /\ entry = "syncTx"           -> IOSSyncTx(m, q)
    [] platform = "ios" /\ entry = "database"         -> IOSDatabase(m, q)
    [] platform = "ios" /\ entry = "databaseSync"     -> IOSDatabaseSync(m, q)
    [] platform = "ios" /\ entry = "lowLevel"         -> IOSLowLevel(m, q)

DriverRead(q) == [m \in {"select", "selectArray"} |->
  IF platform = "android" THEN AndroidDatabase(m, q) ELSE IOSDatabase(m, q)]

Swallows(entry, m) ==
  platform = "android" /\ entry \in {"prepared", "database", "databaseSync"}
    /\ m \in {"get", "getArray"}

Wanted(m, columns, rows) ==
  LET Last1(n) == CHOOSE i \in DOMAIN columns :
                    columns[i] = n /\ \A j \in DOMAIN columns : columns[j] = n => j <= i
      objects == [r \in 1..Len(rows) |-> [n \in Range(columns) |-> rows[r][columns[Last1(n)]]]]
      arrays  == [r \in 1..Len(rows) |-> [c \in 1..Len(columns) |-> rows[r][columns[c]]]]
  IN  CASE m = "select"      -> [rows |-> objects]
        [] m = "get"         -> IF rows = <<>> THEN NoRow ELSE [row |-> objects[1]]
        [] m = "selectArray" -> [columns |-> columns, rows |-> arrays]
        [] m = "getArray"    -> [columns |-> columns, rows |-> IF rows = <<>> THEN rows ELSE <<arrays[1]>>]

(* Rows come back as they were written through every entry point: blobs in *)
(* their places, also when columns share a name, get() the first row of    *)
(* select(), and an error for a statement that fails (except, on Android,  *)
(* from get() and getArray() of the database and of prepared statements).  *)
RowsAreWhole ==
  phase = "open" /\ frames = <<>> =>
  \A columns \in ColumnLists, fails \in BOOLEAN :
    LET q == [columns |-> columns, rows |-> Written, fails |-> fails]
        select == Wanted("select", columns, MeantRows)
        arrays == Wanted("selectArray", columns, MeantRows)
    IN  /\ \A entry \in Entries, m \in Methods :
             \/ entry = "lowLevel" /\ m \in {"get", "getArray"}
             \/ fails /\ Swallows(entry, m)
             \/ Answered(entry, m, q) = IF fails THEN FailedRead ELSE Wanted(m, columns, MeantRows)
        /\ ~fails =>
             /\ DrizzleAll(DriverRead(q), FALSE) = select
             /\ DrizzleValues(DriverRead(q)).rows = arrays.rows
             /\ DrizzleGet(DriverRead(q), FALSE) = Wanted("get", columns, MeantRows)
             /\ DrizzleGet(DriverRead(q), TRUE) = FirstRow(arrays.rows)
        /\ fails => DrizzleAll(DriverRead(q), TRUE) = FailedRead
=============================================================================
