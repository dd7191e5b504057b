---------------------------- MODULE StorageClient ----------------------------
(***************************************************************************)
(* Clients of the Supabase storage and the calls made through them.  A     *)
(* client has a flag, set for good by throwOnError(), that says whether    *)
(* its calls reject or answer with the error; calls run side by side and   *)
(* the server answers them in any order.  The flag is read when an answer  *)
(* arrives, except by a download, which takes it along when it is made and *)
(* sends its request when it is first awaited.  The catalog that from()    *)
(* makes counts as a client; it keeps the flag of that moment for good.    *)
(***************************************************************************)
EXTENDS StorageRequests

CONSTANTS
  Clients,      \* the clients the application may come to hold
  Root,         \* the one it creates itself
  Calls,        \* bound: the calls it makes
  Paths,        \* the paths it names objects by
  Outcomes      \* what requests come to

VARIABLES
  client,       \* client[k]: [api, throws], api "none" before it is made
  call,         \* call[i]: see NoCall
  objects       \* the keys the server has objects under

vars == <<client, call, objects>>

(* stage is "none", "built" (not sent), "sent" or "settled"; throws is the *)
(* flag it took along; promised says that a download has a promise; asked  *)
(* is the flag of its client when it was made, requests what it has sent,  *)
(* and failed how its request went: "no", "status", "network", "garbled"   *)
(* (an upload's error status whose body is not JSON) or "body".            *)
NoCall == [stage |-> "none", client |-> Root, operation |-> ListBuckets, path |-> <<>>,
           throws |-> FALSE, promised |-> FALSE, asked |-> FALSE, requests |-> 0,
           failed |-> "no", missing |-> FALSE, answer |-> Answer("none", "none")]

ASSUME RootIsClient == Root \in Clients

ASSUME PathsAssumption == Paths \subseteq Seq(STRING)

ASSUME OutcomesAssumption == Outcomes \subseteq [status : Nat, body : Bodies]

Init ==
  /\ \E api \in Exported :
       client = [k \in Clients |-> [api |-> IF k = Root THEN api ELSE "none", throws |-> FALSE]]
  /\ call = [i \in Calls |-> NoCall]
  /\ objects = {}

Lazy(operation) == operation.catches \in {"download", "stream"}

(* throwOnError(), which a catalog does not have.                          *)
ThrowOnError(k) ==
  /\ client[k].api \notin {"none", "catalog"}
  /\ client' = [client EXCEPT ![k].throws = TRUE]
  /\ UNCHANGED <<call, objects>>

(* from(), index(), and the getters vectors and analytics: a client of its *)
(* own, whose flag is not that of the client that makes it.  Only the      *)
(* catalog of an analytics client takes that client's flag, as it is now;  *)
(* storage.analytics is a new client every time.                           *)
From(k, made) ==
  /\ client[made].api = "none"
  /\ \E api \in Makes(client[k].api) :
       client' = [client EXCEPT ![made] =
         [api |-> api, throws |-> client[k].api = "analytics" /\ client[k].throws]]
  /\ UNCHANGED <<call, objects>>

New(i, k, operation, path) ==
  [NoCall EXCEPT !.client = k, !.operation = operation, !.path = path,
                 !.throws = client[k].throws, !.asked = client[k].throws]

(* A method is called.  What it checks first it throws, whatever the flag. *)
Call(i, k) ==
  /\ call[i].stage = "none"
  /\ \E operation \in Operations, path \in Paths :
       /\ operation.api = client[k].api
       /\ operation.path = "none" => path = <<>>
       /\ LET new == New(i, k, operation, path)
          IN  \/ call' = [call EXCEPT ![i] =
                   IF Lazy(operation) THEN [new EXCEPT !.stage = "built"]
                   ELSE [new EXCEPT !.stage = "sent", !.requests = 1]]
              \/ /\ operation.checks
                 /\ call' = [call EXCEPT ![i] =
                      [new EXCEPT !.stage = "settled", !.failed = "check",
                                  !.answer = Rejected(Failure("Error", 0))]]
  /\ UNCHANGED <<client, objects>>

(* asStream(): a builder over the same request, with the same flag.        *)
MakeStream(i, j) ==
  /\ call[i].stage # "none" /\ call[i].operation = Download
  /\ call[j].stage = "none"
  /\ call' = [call EXCEPT ![j] =
       [New(j, call[i].client, AsStream, call[i].path)
          EXCEPT !.stage = "built", !.throws = call[i].throws, !.asked = call[i].asked]]
  /\ UNCHANGED <<client, objects>>

(* Fault: every await executes the request.                                *)
GetPromise_Again(c) == [c EXCEPT !.promised = TRUE, !.requests = @ + 1, !.stage = "sent"]

GetPromise(c) ==
  IF c.promised THEN c
  ELSE [c EXCEPT !.promised = TRUE, !.requests = @ + 1, !.stage = "sent"]

(* then(), catch() or finally() of a builder, which may follow each other. *)
Await(i) ==
  /\ call[i].stage # "none" /\ Lazy(call[i].operation) /\ call[i].requests < 2
  /\ call' = [call EXCEPT ![i] = GetPromise(@)]
  /\ UNCHANGED <<client, objects>>

(* The flag the answer is made with.                                       *)
Throws(c) ==
  IF Lazy(c.operation) THEN c.throws ELSE client[c.client].throws

Expected(operation) == IF operation.takes = "list" THEN "list" ELSE "object"

How(operation, outcome) ==
  IF outcome.status = 0 THEN "network"
  ELSE IF ~Successful(outcome.status) THEN
    IF operation.via = "native" /\ ~IsJson(outcome.body) THEN "garbled" ELSE "status"
  ELSE IF outcome.body = Expected(operation) THEN "no"
  ELSE "body"

(* The request of a call comes to its end.                                 *)
Respond(i) ==
  /\ call[i].stage = "sent"
  /\ \E outcome \in Outcomes :
       LET c == call[i]
           result == Result(c.operation, outcome)
       IN  /\ call' = [call EXCEPT ![i] =
                [c EXCEPT !.stage = "settled", !.failed = How(c.operation, outcome),
                          !.missing = outcome.status \in {400, 404},
                          !.answer = Settled(c.operation, Throws(c), result)]]
           /\ objects' = IF c.operation.path = "clean" /\ Successful(outcome.status)
                         THEN objects \cup {Target(c.operation, c.path)} ELSE objects
  /\ UNCHANGED client

Next ==
  \/ \E k \in Clients : ThrowOnError(k)
  \/ \E k, made \in Clients : From(k, made)
  \/ \E i \in Calls, k \in Clients : Call(i, k)
  \/ \E i, j \in Calls : MakeStream(i, j)
  \/ \E i \in Calls : Await(i) \/ Respond(i)

Spec == Init /\ [][Next]_vars

-----------------------------------------------------------------------------
Failures == {"status", "network", "garbled"}

(* The answers that do not keep to AnsweredAsChosen.                       *)
Unruly(c) ==
  \/ c.failed \in {"check", "body"}
  \/ c.operation.via = "native" /\ c.failed \in {"network", "garbled"}
  \/ c.operation.catches = "exists" /\ ~c.missing

(* A caller hears of a failure in the way he chose, and of one request     *)
(* only, however often he awaits the call and whoever else calls           *)
(* throwOnError() meanwhile: when the client had been told to throw before *)
(* the call a failure rejects, and when it was not and is not the promise  *)
(* is resolved with the error and no data.  A catalog had been told what   *)
(* its analytics client had been told when from() made it: throwOnError()  *)
(* after that does not reach it.  Four kinds of answer do not keep to      *)
(* this: arguments found wrong are thrown at once; an upload rejects when  *)
(* the network fails, and when the body of an error status is not JSON,    *)
(* because neither error is one of the client's own; exists() rejects      *)
(* unless the status is 400 or 404; and the body of a success that cannot  *)
(* be read or is not what the method expects may reject.                   *)
AnsweredAsChosen ==
  \A i \in Calls :
    LET c == call[i]
        rejected == c.answer.how = "rejected"
    IN  /\ c.requests <= 1
        /\ c.stage = "settled" =>
             /\ c.asked /\ c.failed \in Failures => rejected
             /\ rejected => c.failed # "no"
             /\ rejected /\ ~Unruly(c) => c.asked \/ client[c.client].throws
             /\ ~rejected /\ c.failed \in Failures =>
                  c.answer.error # "null" /\ c.answer.data \in {"null", "false"}

Doubled(path, i) ==
  /\ {i, i + 1} \subseteq DOMAIN path
  /\ path[i] = Slash /\ path[i + 1] = Slash

(* The path an upload answers with names the object it has written, for    *)
(* every other method: uploads drop empty folders from the path they are   *)
(* given, the others do not.  Only one slash is dropped at either end, so  *)
(* of two in front one stays, which the methods that put the path in the   *)
(* body of the request do not drop, and of two at the end one stays, which *)
(* the next upload drops.                                                  *)
PathsAgree ==
  \A i \in Calls :
    LET c == call[i]
        path == AnsweredPath(c.operation, c.path)
    IN  c.operation.path = "clean" /\ c.answer.how = "resolved" /\ c.answer.error = "null" =>
          \A operation \in Operations :
            \/ operation.path = "none"
            \/ operation.path = "raw" /\ Doubled(c.path, 1)
            \/ operation.path = "clean" /\ Doubled(c.path, Len(c.path) - 1)
            \/ Target(operation, path) \in objects
=============================================================================
