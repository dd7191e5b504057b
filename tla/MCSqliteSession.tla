--------------------------- MODULE MCSqliteSession ---------------------------
(* SqliteSession over every open sequence of up to three entries with every *)
(* kind of key, every path with every way to ask for one connection, and    *)
(* two parameter lists, one by position and one by name.                    *)
EXTENDS SqliteSession

Entry(form, sql, on) == [form |-> form, sql |-> sql, on |-> on]

MCEntries ==
  {KeyEntry, WalEntry, Entry("junk", "", "undefined"), Entry("text", "", "undefined"),
   Entry("text", "s1", "undefined"), Entry("object", "s2", "readers"),
   Entry("object", "s3", "writer"), Entry("object", "", "typo")}

MCOptions(given, sequence, key, format, path, serialized, readOnly) ==
  [given |-> given, sequence |-> sequence, encryptionKey |-> key, encryptionKeyFormat |-> format,
   path |-> path, serialized |-> serialized, readOnly |-> readOnly]

MCKeys == {"", "words", "hex", "literal"} \X {"passphrase", "raw"}

MCPlain(sequence) == \A i \in DOMAIN sequence : sequence[i].form = "text"

MCOptionSets ==
  {MCOptions({"openSequence"}, s, k[1], k[2], "file", "undefined", FALSE) :
     s \in BoundedSeq(MCEntries, 3), k \in MCKeys}
  \cup
  {MCOptions({"onOpen"}, s, k[1], k[2], "file", "undefined", r) :
     s \in {q \in BoundedSeq(MCEntries, 2) : MCPlain(q)}, k \in MCKeys, r \in BOOLEAN}
  \cup
  {MCOptions({"onOpen", "openSequence"}, <<>>, "", "passphrase", "file", "undefined", FALSE)}
  \cup
  {MCOptions({}, <<>>, "", "passphrase", p, s, r) :
     p \in {"file", ":memory:", "", "file::memory:?cache=shared"},
     s \in {"undefined", "true", "false"}, r \in BOOLEAN}

Js(type, data) == [js |-> type, data |-> data]

MCParams ==
  {[array  |-> <<Js("ArrayBuffer", "A"), Js("ArrayBuffer", "B"), Js("boolean", "true")>>],
   [object |-> [a |-> Js("string", "x"), b |-> Js("ArrayBuffer", "C"), c |-> Js("Uint8Array", "D")]]}

MCColumns == <<"a", "b", "c">>

MCColumnLists == {<<"a", "b", "c">>, <<"a", "b", "a">>, <<"c">>}

==============================================================================
