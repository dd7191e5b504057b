--------------------------- MODULE MCStorageClient ---------------------------
(* StorageClient with the client the application creates and one made from  *)
(* it, two calls, and one outcome of every kind that the code tells apart.  *)
EXTENDS StorageClient, TLC

MCPaths == {<<>>, <<"a">>, <<"/", "a", "/", "/", "b", "/">>, <<"/", "/", "a">>, <<"a", "/", "/">>}

MCOutcome(status, body) == [status |-> status, body |-> body]

MCOutcomes ==
  {MCOutcome(0, "none"), MCOutcome(204, "none"), MCOutcome(404, "object"), MCOutcome(500, "text")}
  \cup {MCOutcome(200, body) : body \in {"object", "list", "null", "text", "lost"}}

MCSymmetry == Permutations(Calls)
==============================================================================
