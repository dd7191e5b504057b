---------------------------- MODULE OpenSequence ----------------------------
(***************************************************************************)
(* What openDatabase() makes of its options before and while connections   *)
(* are opened: the open sequence and the key are resolved in TypeScript    *)
(* (common.ts), which refuses what cannot work, and the native layer runs  *)
(* the steps that are left on the writer and on every reader.              *)
(*                                                                         *)
(* options.given says which of onOpen and openSequence the caller passed,  *)
(* options.sequence is the one of openSequence or the statements of        *)
(* onOpen.  An entry has a form (a bare "text", an "object" with its scope *)
(* in on, one of the markers "key" and "wal", or "junk", anything else).   *)
(* A statement is a name; a key is Empty, "words", "hex"                   *)
(* (64 or 96 digits) or "literal" (the same as x'...').                    *)
(***************************************************************************)
EXTENDS Integers, Sequences, FiniteSets, Selections

CONSTANT Statements   \* the texts a caller may pass, but for empty ones

Empty == ""

EntryTypes ==
  {entry \in [form : {"key", "wal", "text", "object", "junk"}, sql : Statements \cup {Empty},
              on   : {"undefined", "all", "writer", "readers", "typo"}] :
     entry.form # "object" => entry.on = "undefined"}

OptionTypes ==
  [given : SUBSET {"onOpen", "openSequence"}, sequence : Seq(EntryTypes),
   encryptionKey : {Empty, "words", "hex", "literal"}, encryptionKeyFormat : {"passphrase", "raw"},
   path : {"file", ":memory:", Empty, "file::memory:?cache=shared"},
   serialized : {"undefined", "true", "false"}, readOnly : BOOLEAN]

KeyEntry == [form |-> "key", sql |-> Empty, on |-> "undefined"]
WalEntry == [form |-> "wal", sql |-> Empty, on |-> "undefined"]

Source(options) ==
  IF "openSequence" \in options.given THEN options.sequence
  ELSE <<KeyEntry>> \o options.sequence \o <<WalEntry>>

(* The entries that become steps: empty statements are skipped, but only   *)
(* after their scope has been looked at.                                   *)
Kept(entry) == entry.form \in {"key", "wal"} \/ entry.sql # Empty

ScopeCode(entry) == IF entry.form = "wal" THEN "writer"
                    ELSE IF entry.on \in {"writer", "readers"} THEN entry.on
                    ELSE "all"

StepOf(entry) ==
  [kind  |-> IF entry.form \in {"key", "wal"} THEN entry.form ELSE "sql",
   scope |-> ScopeCode(entry),
   sql   |-> entry.sql]

Steps(options) ==
  LET kept == Selection(Source(options), Kept)
  IN  [i \in 1..Len(kept) |-> StepOf(kept[i])]

At(steps, kind) == {i \in 1..Len(steps) : steps[i].kind = kind}

Misuse(options) ==
  LET source == Source(options)
      steps  == Steps(options)
      key    == At(steps, "key")
      wal    == At(steps, "wal")
  IN  \/ options.given = {"onOpen", "openSequence"}
      \/ \E i \in 1..Len(source) : source[i].form = "junk"
      \/ \E i \in 1..Len(source) : source[i].form = "object" /\ source[i].on = "typo"
      \/ Cardinality(key) > 1 \/ Cardinality(wal) > 1
      \/ /\ options.encryptionKey # Empty
         /\ key = {} \/ \E w \in wal, k \in key : w < k

KeyMisuse(options) ==
  /\ options.encryptionKey # Empty
  /\ IF options.encryptionKeyFormat = "raw" THEN options.encryptionKey = "words"
                                            ELSE options.encryptionKey = "literal"

(* Fault: a raw key of bare digits is handed on as it is.                  *)
ResolveEncryptionKey_Bare(options) == options.encryptionKey

ResolveEncryptionKey(options) ==
  IF options.encryptionKey = "hex" /\ options.encryptionKeyFormat = "raw"
  THEN "literal" ELSE options.encryptionKey

InMemory(path) == path \in {":memory:", Empty, "file::memory:?cache=shared"}

Serialized(options) == IF options.serialized = "undefined" THEN InMemory(options.path)
                       ELSE options.serialized = "true"

(* The file the connections open: Android gives a pool over ":memory:" an  *)
(* URI of its own with a shared cache, iOS leaves the path alone.          *)
AndroidPath(options) ==
  IF ~Serialized(options) /\ options.path = ":memory:"
  THEN "file::memory:?cache=shared" ELSE options.path

IOSPath(options) == options.path

Accepted(options) == ~Misuse(options) /\ ~KeyMisuse(options)

(***************************************************************************)
(* The native open of one connection, as both platforms do it.             *)
(***************************************************************************)
Runs(step, role, options) ==
  /\ step.scope \in {"all", role}
  /\ step.kind = "key" => ResolveEncryptionKey(options) # Empty
  /\ step.kind = "wal" => role = "writer" /\ ~options.readOnly

QueryOnly == [kind |-> "query_only", scope |-> "readers", sql |-> Empty]

Performed(role, options) ==
  Selection(Steps(options), LAMBDA s : Runs(s, role, options))
    \o IF role = "readers" /\ ~options.readOnly THEN <<QueryOnly>> ELSE <<>>

Roles(options) == IF Serialized(options) THEN {"writer"} ELSE {"writer", "readers"}

(* SQLCipher takes a key of the literal's shape as bytes and stretches any *)
(* other.                                                                  *)
Derivation(key) == IF key = "literal" THEN "raw" ELSE "passphrase"

(* SQLite gives connections one database in memory only through a shared   *)
(* cache.                                                                  *)
OneDatabase(path, options) ==
  \/ Serialized(options)
  \/ ~InMemory(path)
  \/ path = "file::memory:?cache=shared"
=============================================================================
