-------------------------- MODULE StatementResults --------------------------
(***************************************************************************)
(* How parameters go into a statement and rows come back out of it.        *)
(*                                                                         *)
(* The native layer answers a read with a JSON text in which every blob is *)
(* a marker holding its place in a list that travels beside the text; the  *)
(* other side puts the buffers back.  A query is                           *)
(*   [columns |-> names, rows |-> rows of the table, fails |-> BOOLEAN]    *)
(* where fails says that the statement fails at its first step.            *)
(* A cell is [value |-> v], [blob |-> bytes] or, in JSON, [at |-> index].  *)
(***************************************************************************)
EXTENDS Integers, Sequences, FiniteSets, SequencesExt

NullCell == [value |-> "null"]
FailedRead == [error |-> TRUE]
NoRow    == [undefined |-> TRUE]
Methods  == {"select", "get", "selectArray", "getArray"}

-----------------------------------------------------------------------------
(* Parameters.  A JavaScript value is [js |-> its type, data |-> it].      *)

MarshalValue(v) ==
  CASE v.js = "boolean"               -> [value |-> IF v.data = "true" THEN "1" ELSE "0"]
    [] v.js \in {"number", "string"}  -> [value |-> v.data]
    [] v.js = "ArrayBuffer"           -> [blob |-> v.data]
    [] OTHER                          -> NullCell

ParseSingleParam(v) ==
  CASE v.js \in {"number", "string"}  -> [value |-> v.data]
    [] v.js = "ArrayBuffer"           -> [blob |-> v.data]
    [] v.js = "boolean"               -> [value |-> IF v.data = "true" THEN "1" ELSE "0"]
    [] OTHER                          -> NullCell

(* params is [array |-> values], [object |-> values by name] or [none].    *)
(* The row has one parameter per column, in order and named after it; what *)
(* is not bound is NULL.                                                   *)
Unbound == [js |-> "undefined"]

BindParams(params, columns) ==
  [c \in Range(columns) |->
     LET i == CHOOSE j \in 1..Len(columns) : columns[j] = c
     IN  CASE "array" \in DOMAIN params /\ i \in DOMAIN params.array -> params.array[i]
           [] "object" \in DOMAIN params /\ c \in DOMAIN params.object -> params.object[c]
           [] OTHER -> Unbound]

MarshalParams(params, columns) ==
  [c \in Range(columns) |-> MarshalValue(BindParams(params, columns)[c])]

ParseParams(params, columns) ==
  [c \in Range(columns) |-> ParseSingleParam(BindParams(params, columns)[c])]

-----------------------------------------------------------------------------
(* The text the native layer makes of a result, and the list of its blobs. *)

IsBlob(cell) == "blob" \in DOMAIN cell

Grid(q) == [r \in 1..Len(q.rows) |-> [c \in 1..Len(q.columns) |-> q.rows[r][q.columns[c]]]]

BlobsOf(grid) ==
  {p \in UNION {{r} \X DOMAIN grid[r] : r \in DOMAIN grid} : IsBlob(grid[p[1]][p[2]])}

(* How many are written before row p[1] and column p[2].                   *)
Before(grid, p) ==
  Cardinality({b \in BlobsOf(grid) : b[1] < p[1] \/ (b[1] = p[1] /\ b[2] < p[2])})

Blobs(grid) ==
  [k \in 1..Cardinality(BlobsOf(grid)) |->
     LET p == CHOOSE b \in BlobsOf(grid) : Before(grid, b) = k - 1 IN grid[p[1]][p[2]]]

(* Fault: the places of blobs are counted from the start of each row.      *)
Marked_PerRow(grid) ==
  [r \in DOMAIN grid |-> [c \in DOMAIN grid[r] |->
     IF IsBlob(grid[r][c]) THEN [at |-> Cardinality({b \in BlobsOf(grid) : b[1] = r /\ b[2] < c})]
     ELSE grid[r][c]]]

Marked(grid) ==
  [r \in DOMAIN grid |-> [c \in DOMAIN grid[r] |->
     IF IsBlob(grid[r][c]) THEN [at |-> Before(grid, <<r, c>>)] ELSE grid[r][c]]]

(* An object has one property per name: of two columns with one name JSON  *)
(* keeps the last.                                                         *)
Object(columns, cells) ==
  [n \in Range(columns) |->
     cells[CHOOSE i \in DOMAIN columns :
             columns[i] = n /\ \A j \in DOMAIN columns : columns[j] = n => j <= i]]

Cut(rows) == IF rows = <<>> THEN rows ELSE <<rows[1]>>

ResultAsJson(q, firstOnly) ==
  LET grid == IF firstOnly THEN Cut(Grid(q)) ELSE Grid(q)
  IN  [cells |-> Marked(grid), columns |-> q.columns, blobs |-> Blobs(grid)]

Hydrated(cell, blobs) == IF "at" \in DOMAIN cell THEN blobs[cell.at + 1] ELSE cell

HydrateBlobs(object, blobs) == [n \in DOMAIN object |-> Hydrated(object[n], blobs)]

ParseSelectResult(json) ==
  [r \in DOMAIN json.cells |->
     LET object == Object(json.columns, json.cells[r])
     IN  IF Len(json.blobs) > 0 THEN HydrateBlobs(object, json.blobs) ELSE object]

ParseArrayResult(json) ==
  [columns |-> json.columns,
   rows    |-> [r \in DOMAIN json.cells |->
                  [c \in DOMAIN json.cells[r] |-> Hydrated(json.cells[r][c], json.blobs)]]]

FirstRow(rows)   == IF Len(rows) > 0 THEN [row |-> rows[1]] ELSE NoRow
FirstOnly(array) == [array EXCEPT !.rows = Cut(@)]

-----------------------------------------------------------------------------
(* Android.  With mode 3 and 4 the native layer stops at the first row; it *)
(* then does not look at the result of the step (sqlite_connection.cpp,    *)
(* 711 and 742), so a statement that fails at once answers like one that   *)
(* finds nothing.                                                          *)

NativeRead(mode, q) ==
  LET json == ResultAsJson(IF q.fails THEN [q EXCEPT !.rows = <<>>] ELSE q, mode \in {3, 4})
  IN  IF q.fails /\ mode \in {1, 2} THEN FailedRead ELSE
      CASE mode = 1 -> [rows |-> ParseSelectResult(json)]
        [] mode = 2 -> ParseArrayResult(json)
        [] mode = 3 -> FirstRow(ParseSelectResult(json))
        [] mode = 4 -> ParseArrayResult(json)

PreparedModes == [select |-> 1, selectArray |-> 2, get |-> 3, getArray |-> 4]

AndroidPrepared(m, q) == NativeRead(PreparedModes[m], q)

AndroidReadTx(m, q) ==
  LET selected == NativeRead(IF m \in {"select", "get"} THEN 1 ELSE 2, q)
  IN  IF selected = FailedRead THEN FailedRead ELSE
      CASE m = "get"      -> FirstRow(selected.rows)
        [] m = "getArray" -> FirstOnly(selected)
        [] OTHER          -> selected

(* SyncTransactionImpl repeats the four reads for transactionSync().        *)
AndroidSyncTx(m, q) == AndroidReadTx(m, q)

(* The entry points of the database are named natively, one per shape.     *)
AndroidDatabase(m, q)     == NativeRead(PreparedModes[m], q)
AndroidDatabaseSync(m, q) == NativeRead(PreparedModes[m], q)

AndroidLowLevel(m, q) == NativeRead(IF m = "select" THEN 1 ELSE 2, q)

-----------------------------------------------------------------------------
(* iOS.  Every read is one of two native calls, for objects or for arrays, *)
(* and get() and getArray() are cut from their answers.                    *)

IOSSelect(q) ==
  IF q.fails THEN FailedRead ELSE [rows |-> ParseSelectResult(ResultAsJson(q, FALSE))]

IOSSelectArray(q) ==
  IF q.fails THEN FailedRead ELSE ParseArrayResult(ResultAsJson(q, FALSE))

IOSRead(m, q) ==
  IF q.fails THEN FailedRead ELSE
  CASE m = "select"      -> IOSSelect(q)
    [] m = "selectArray" -> IOSSelectArray(q)
    [] m = "get"         -> FirstRow(IOSSelect(q).rows)
    [] m = "getArray"    -> FirstOnly(IOSSelectArray(q))

(* The classes that hold one copy each of these four methods.              *)
IOSSyncTx(m, q)       == IOSRead(m, q)
IOSWriteTx(m, q)      == IOSRead(m, q)
IOSReadTx(m, q)       == IOSRead(m, q)
IOSPrepared(m, q)     == IOSRead(m, q)
IOSDatabase(m, q)     == IOSRead(m, q)
IOSDatabaseSync(m, q) == IOSRead(m, q)
IOSLowLevel(m, q)     == IF m = "select" THEN IOSSelect(q) ELSE IOSSelectArray(q)

-----------------------------------------------------------------------------
(* The Drizzle driver reads through select() and selectArray() of the      *)
(* database, or of a transaction when it has one; read is what they answer.*)

DrizzleAll(read, arrayMode) ==
  LET answer == read[IF arrayMode THEN "selectArray" ELSE "select"]
  IN  IF answer = FailedRead THEN FailedRead ELSE [rows |-> answer.rows]

DrizzleGet(read, arrayMode) ==
  LET answer == read[IF arrayMode THEN "selectArray" ELSE "select"]
  IN  IF answer = FailedRead THEN FailedRead ELSE FirstRow(answer.rows)

DrizzleValues(read) == DrizzleAll(read, TRUE)
=============================================================================
