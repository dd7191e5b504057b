-------------------------- MODULE TypeScriptProofs --------------------------
(***************************************************************************)
(* Proofs about the TypeScript layers, StorageClient and SqliteSession.    *)
(*                                                                         *)
(* StorageClient: that the caller of the storage client hears of failures  *)
(* in the way he chose, and that what was uploaded is found again at the   *)
(* path that was answered, for any clients, calls, paths and answers of    *)
(* the server.                                                             *)
(*                                                                         *)
(* What the code drops from a list and keeps in order is here a function   *)
(* on the places that stay (Ascending): it is the only one that is         *)
(* increasing and has them all (AscendingOnly), which is what the proofs   *)
(* about paths, blobs and open sequences have in common.                   *)
(*                                                                         *)
(* SqliteSession: that nested transactions are atomic, however deep they   *)
(* are nested and however often they fail, that a rejection says what went *)
(* wrong, that rows come back as they were written, and that a database is *)
(* opened as its options ask.  A call knows its savepoint by name, and     *)
(* SQLite takes the youngest of that name.  Savepoints of calls that       *)
(* failed stay on the stack on iOS and under the driver, so the stack is   *)
(* not that of the calls that are open; but the youngest savepoint of the  *)
(* name of each open call is the one that call made, and they are in the   *)
(* order of the calls (Holds).  What is cut off the stack is above those   *)
(* of the calls that stay, and a new name is none of theirs (NewName): the *)
(* plugin has not used its number, the driver has no call of that depth.   *)
(* With that every step is a step of NestedTransactions or changes nothing *)
(* it sees.                                                                *)
(***************************************************************************)
EXTENDS StorageClient, SqliteSession, FiniteSetTheorems, TLAPS

-----------------------------------------------------------------------------
(* What is selected of a sequence.                                          *)

\* The place of a number says how many are before it.
LEMMA PlaceOf ==
  ASSUME NEW n \in Nat, NEW S \in SUBSET (1..n)
  PROVE  /\ IsFiniteSet(S) /\ Cardinality(S) \in Nat
         /\ \A i \in S : Place(S, i) \in 0..(Cardinality(S) - 1)
         /\ \A i, j \in S : i < j => Place(S, i) < Place(S, j)
<1> USE \A i \in S : i \in Int
<1>1. IsFiniteSet(S) /\ Cardinality(S) \in Nat
  <2>1. IsFiniteSet(1..n)
    BY FS_Interval
  <2>2. QED
    BY <2>1, FS_Subset, FS_CardinalityType
<1>2. ASSUME NEW i \in S
      PROVE  /\ IsFiniteSet({j \in S : j < i}) /\ Place(S, i) \in Nat
             /\ Cardinality({j \in S : j < i} \cup {i}) = Place(S, i) + 1
  <2>1. IsFiniteSet({j \in S : j < i})
    BY <1>1, FS_Subset
  <2>2. i \notin {j \in S : j < i}
    OBVIOUS
  <2>3. QED
    BY <2>1, <2>2, FS_CardinalityType, FS_AddElement DEF Place
<1>3. ASSUME NEW i \in S PROVE Place(S, i) \in 0..(Cardinality(S) - 1)
  <2>1. {j \in S : j < i} \cup {i} \in SUBSET S
    OBVIOUS
  <2>2. Cardinality({j \in S : j < i} \cup {i}) <= Cardinality(S)
    BY <1>1, <2>1, FS_Subset
  <2>3. Place(S, i) \in Nat /\ Place(S, i) + 1 <= Cardinality(S)
    BY <1>2, <2>2
  <2>4. QED
    BY <1>1, <2>3
<1>4. ASSUME NEW i \in S, NEW j \in S, i < j PROVE Place(S, i) < Place(S, j)
  <2>1. {l \in S : l < i} \cup {i} \in SUBSET {l \in S : l < j}
    <3>1. \A l \in S : l < i => l < j
      BY <1>4
    <3>2. QED
      BY <1>4, <3>1
  <2>2. Cardinality({l \in S : l < i} \cup {i}) <= Place(S, j)
    BY <1>2, <2>1, FS_Subset DEF Place
  <2>3. Place(S, i) \in Nat /\ Place(S, i) + 1 <= Place(S, j) /\ Place(S, j) \in Nat
    BY <1>2, <2>2
  <2>4. QED
    BY <2>3
<1>5. QED
  BY <1>1, <1>3, <1>4

\* Every place is taken, and by one number.
LEMMA AscendingAt ==
  ASSUME NEW n \in Nat, NEW S \in SUBSET (1..n)
  PROVE  /\ Cardinality(S) \in Nat /\ DOMAIN Ascending(S) = 1..Cardinality(S)
         /\ \A k \in 1..Cardinality(S) : Ascending(S)[k] \in S /\ Place(S, Ascending(S)[k]) = k - 1
         /\ \A i \in S : Place(S, i) + 1 \in 1..Cardinality(S) /\ Ascending(S)[Place(S, i) + 1] = i
<1> DEFINE c == Cardinality(S)
           f == [i \in S |-> Place(S, i) + 1]
<1>1. IsFiniteSet(S) /\ c \in Nat /\ \A i \in S : Place(S, i) \in 0..(c - 1)
  BY PlaceOf
<1>2. \A i, j \in S : Place(S, i) = Place(S, j) => i = j
  <2> SUFFICES ASSUME NEW i \in S, NEW j \in S, i # j PROVE Place(S, i) # Place(S, j)
    OBVIOUS
  <2>1. i \in Int /\ j \in Int
    OBVIOUS
  <2>2. Place(S, i) \in Int /\ Place(S, j) \in Int
    BY <1>1
  <2>3. CASE i < j
    <3>1. Place(S, i) < Place(S, j)
      BY <2>3, PlaceOf
    <3>2. QED
      BY <2>2, <3>1
  <2>4. CASE j < i
    <3>1. Place(S, j) < Place(S, i)
      BY <2>4, PlaceOf
    <3>2. QED
      BY <2>2, <3>1
  <2>5. QED
    BY <2>1, <2>3, <2>4
<1>3. f \in [S -> 1..c]
  BY <1>1
<1>4. f \in Injection(S, 1..c)
  <2>1. \A i, j \in S : f[i] = f[j] => i = j
    BY <1>1, <1>2
  <2>2. QED
    BY <1>3, <2>1 DEF Injection, IsInjective
<1>5. IsFiniteSet(1..c) /\ Cardinality(1..c) = c
  BY <1>1, FS_Interval
<1>6. f \in Surjection(S, 1..c)
  <2> HIDE DEF f
  <2>1. QED
    BY <1>4, <1>5, FS_Injection
<1>7. ASSUME NEW k \in 1..c PROVE \E i \in S : Place(S, i) = k - 1
  <2>1. PICK i \in S : f[i] = k
    BY <1>6 DEF Surjection
  <2>2. Place(S, i) = k - 1
    BY <1>1, <2>1
  <2>3. QED
    BY <2>2
<1>8. Ascending(S) = [k \in 1..c |-> CHOOSE i \in S : Place(S, i) = k - 1]
  BY DEF Ascending
<1>9. ASSUME NEW k \in 1..c PROVE Ascending(S)[k] \in S /\ Place(S, Ascending(S)[k]) = k - 1
  BY <1>7, <1>8
<1>10. ASSUME NEW i \in S PROVE Place(S, i) + 1 \in 1..c /\ Ascending(S)[Place(S, i) + 1] = i
  <2> DEFINE k == Place(S, i) + 1
  <2>1. k \in 1..c /\ k - 1 = Place(S, i)
    BY <1>1
  <2>2. Ascending(S)[k] \in S /\ Place(S, Ascending(S)[k]) = Place(S, i)
    BY <1>9, <2>1
  <2>3. QED
    BY <1>2, <2>1, <2>2
<1>11. QED
  BY <1>1, <1>8, <1>9, <1>10

\* They ascend.
LEMMA Ascends ==
  ASSUME NEW n \in Nat, NEW S \in SUBSET (1..n),
         NEW k \in 1..Cardinality(S), NEW l \in 1..Cardinality(S), k < l
  PROVE  Ascending(S)[k] < Ascending(S)[l]
<1> DEFINE a == Ascending(S)[k]
           b == Ascending(S)[l]
<1>1. a \in S /\ b \in S /\ Place(S, a) = k - 1 /\ Place(S, b) = l - 1 /\ Cardinality(S) \in Nat
  BY AscendingAt
<1>2. a \in Int /\ b \in Int
  BY <1>1, S \subseteq Int
<1> HIDE DEF a, b
<1>3. a # b
  BY <1>1
<1>4. ~(b < a)
  <2> SUFFICES ASSUME b < a PROVE FALSE
    OBVIOUS
  <2>1. Place(S, b) < Place(S, a)
    BY <1>1, PlaceOf
  <2>2. QED
    BY <1>1, <2>1
<1>5. QED
  BY <1>2, <1>3, <1>4 DEF a, b

\* No other sequence has the numbers of S in their order.
LEMMA AscendingOnly ==
  ASSUME NEW n \in Nat, NEW S \in SUBSET (1..n), NEW m \in Nat, NEW f \in [1..m -> S],
         \A k, l \in 1..m : k < l => f[k] < f[l], \A i \in S : \E k \in 1..m : f[k] = i
  PROVE  m = Cardinality(S) /\ f = Ascending(S)
<1>0. \A k \in 1..m : f[k] \in S /\ f[k] \in Int
  <2>1. S \subseteq Int
    OBVIOUS
  <2>2. QED
    BY <2>1
<1>1. \A k, l \in 1..m : f[k] = f[l] => k = l
  <2> SUFFICES ASSUME NEW k \in 1..m, NEW l \in 1..m, k < l PROVE f[k] # f[l]
    OBVIOUS
  <2>1. QED
    BY <1>0
<1>2. f \in Bijection(1..m, S)
  BY <1>1 DEF Bijection, Injection, Surjection, IsInjective
<1>3. Cardinality(S) = m
  BY <1>2, FS_Bijection, FS_Interval DEF ExistsBijection
<1>4. ASSUME NEW k \in 1..m PROVE f[k] = Ascending(S)[k]
  <2> DEFINE T == {i \in S : i < f[k]}
             g == [l \in 1..(k - 1) |-> f[l]]
  <2>1. g \in [1..(k - 1) -> T]
    OBVIOUS
  <2>2. \A i \in T : \E l \in 1..(k - 1) : g[l] = i
    <3> TAKE i \in T
    <3>1. PICK l \in 1..m : f[l] = i
      OBVIOUS
    <3>2. ~(k < l) /\ k # l
      BY <1>0, <3>1
    <3>3. l \in 1..(k - 1)
      BY <3>2
    <3>4. QED
      BY <3>1, <3>3
  <2>3. g \in Bijection(1..(k - 1), T)
    <3>1. \A l1, l2 \in 1..(k - 1) : g[l1] = g[l2] => l1 = l2
      BY <1>1
    <3>2. QED
      BY <2>1, <2>2, <3>1 DEF Bijection, Injection, Surjection, IsInjective
  <2>4. Cardinality(T) = k - 1
    <3> HIDE DEF T, g
    <3>1. IsFiniteSet(1..(k - 1)) /\ Cardinality(1..(k - 1)) = k - 1
      BY FS_Interval
    <3>2. QED
      BY <2>3, <3>1, FS_Bijection DEF ExistsBijection
  <2>5. Place(S, f[k]) = k - 1 /\ f[k] \in S
    BY <2>4 DEF Place
  <2>6. Ascending(S)[Place(S, f[k]) + 1] = f[k]
    BY <2>5, AscendingAt
  <2>7. Place(S, f[k]) + 1 = k
    BY <2>5
  <2>8. QED
    BY <2>6, <2>7
<1>5. DOMAIN Ascending(S) = 1..m /\ DOMAIN f = 1..m
  BY <1>3, AscendingAt
<1>6. f = Ascending(S)
  BY <1>4, <1>5, <1>3, AscendingAt DEF Ascending
<1>7. QED
  BY <1>3, <1>6

-----------------------------------------------------------------------------
(* StorageClient.                                                           *)

Requests == Operations \cup {AsStream}

\* What the proofs need to know of an operation.
Known(operation) ==
  /\ operation.catches \in {"operation", "exists", "download", "stream", "catalog"}
  /\ operation.via \in {"fetch", "native", "iceberg"}
  /\ operation.namespace \in {"storage", "vectors"}
  /\ operation.via = "native" => operation.catches = "operation" /\ operation.takes = "path"
  /\ operation.via = "iceberg" <=> operation.catches = "catalog"
  /\ operation.via = "iceberg" => operation.takes = "all"
  /\ operation.takes \in {"list", "token"} => operation.namespace = "storage"
  /\ operation.takes = "response" <=> operation.catches \in {"download", "stream", "exists"}
  /\ operation.checks => operation.catches \notin {"download", "stream"}

\* It is so of each of them.
LEMMA AllKnown == \A operation \in Requests : Known(operation)
<1> USE DEF Operation, Named, UploadOrUpdate, Vector, Voiding, Checked, Known
<1>1. Known(ListBuckets) /\ Known(GetBucket) /\ Known(CreateBucket) /\ Known(UpdateBucket) /\
     Known(EmptyBucket)
  BY DEF ListBuckets, GetBucket, CreateBucket, UpdateBucket, EmptyBucket
<1>2. Known(DeleteBucket) /\ Known(GetBucketLifecycle) /\ Known(UpdateBucketLifecycle) /\
     Known(DeleteBucketLifecycle) /\ Known(PurgeBucketCache)
  BY DEF DeleteBucket, GetBucketLifecycle, UpdateBucketLifecycle, DeleteBucketLifecycle,
         PurgeBucketCache
<1>3. Known(Upload) /\ Known(Update) /\ Known(UploadToSignedUrl)
  BY DEF Upload, Update, UploadToSignedUrl
<1>4. Known(CreateSignedUploadUrl) /\ Known(CreateSignedUrl) /\ Known(CreateSignedUrls) /\
     Known(Copy)
  BY DEF CreateSignedUploadUrl, CreateSignedUrl, CreateSignedUrls, Copy
<1>5. Known(Move) /\ Known(Info) /\ Known(RemoveFiles) /\ Known(PurgeCache) /\ Known(ListFiles) /\
     Known(ListFilesV2)
  BY DEF Move, Info, RemoveFiles, PurgeCache, ListFiles, ListFilesV2
<1>6. Known(Download) /\ Known(AsStream) /\ Known(Exists)
  BY DEF Download, AsStream, Exists
<1>7. Known(CreateVectorBucket) /\ Known(DeleteVectorBucket) /\ Known(CreateIndex) /\
     Known(DeleteIndex)
  BY DEF CreateVectorBucket, DeleteVectorBucket, CreateIndex, DeleteIndex
<1>8. Known(GetVectorBucket) /\ Known(ListVectorBuckets) /\ Known(GetIndex) /\ Known(ListIndexes)
  BY DEF GetVectorBucket, ListVectorBuckets, GetIndex, ListIndexes
<1>9. Known(PutVectors) /\ Known(DeleteVectors) /\ Known(ListVectors)
  BY DEF PutVectors, DeleteVectors, ListVectors
<1>10. Known(GetVectors) /\ Known(QueryVectors)
  BY DEF GetVectors, QueryVectors
<1>11. Known(CreateAnalyticsBucket) /\ Known(ListAnalyticsBuckets) /\ Known(DeleteAnalyticsBucket)
     /\ Known(CatalogCall)
  BY DEF CreateAnalyticsBucket, ListAnalyticsBuckets, DeleteAnalyticsBucket, CatalogCall
<1> HIDE DEF Known
<1>12. QED
  BY <1>1, <1>2, <1>3, <1>4, <1>5, <1>6, <1>7, <1>8, <1>9, <1>10, <1>11 DEF Requests, Operations

-----------------------------------------------------------------------------
(* The reply to one request.                                              *)

StorageErrors == {"StorageError", "StorageApiError", "StorageUnknownError"}
Errors        == StorageErrors \cup {"Error", "TypeError", "NativeError", "SyntaxError", "IcebergError"}
Values        == Bodies \cup {"response", "empty", "true", "false"}

\* Data and errors are told apart.
LEMMA DataOrError ==
  /\ \A what : ~IsError(Data(what)) /\ Data(what).data = what
  /\ \A what, status : /\ IsError(Failure(what, status)) /\ Failure(what, status).error = what
                       /\ Failure(what, status).status = status
BY DEF IsError, Data, Failure

\* What a request comes to: data, or an error that says what went wrong.
Fits(operation, outcome, result) ==
  \/ /\ \E value \in Values : result = Data(value)
     /\ How(operation, outcome) \in {"no", "body"}
  \/ \E error \in Errors, status \in Nat :
       /\ result = Failure(error, status) /\ How(operation, outcome) # "no"
       /\ How(operation, outcome) \in Failures =>
            \/ error = "IcebergError" /\ operation.via = "iceberg"
            \/ operation.via = "native" /\ How(operation, outcome) \in {"network", "garbled"}
            \/ error \in StorageErrors /\ (outcome.status \in {400, 404} => status = outcome.status)

\* Every transport and every method brings the reply of the server to one of these.
LEMMA ResultFits ==
  ASSUME NEW operation \in Requests, NEW outcome \in Outcomes
  PROVE  Fits(operation, outcome, Result(operation, outcome))
<1> DEFINE how == How(operation, outcome)
<1>1. Known(operation) /\ outcome.status \in Nat /\ outcome.body \in Bodies
  BY AllKnown, OutcomesAssumption
<1>2. /\ outcome.status = 0 => how = "network" /\ ~Successful(outcome.status)
      /\ outcome.status # 0 /\ ~Successful(outcome.status) =>
           how = IF operation.via = "native" /\ ~IsJson(outcome.body) THEN "garbled" ELSE "status"
      /\ Successful(outcome.status) => how = (IF outcome.body = Expected(operation) THEN "no" ELSE "body")
  BY DEF How, Successful
<1>3. outcome.status \in {400, 404} => ~Successful(outcome.status) /\ outcome.status # 0
  BY DEF Successful
<1> HIDE DEF how
<1>4. ASSUME NEW value \in Values, Result(operation, outcome) = Data(value), Successful(outcome.status)
      PROVE  Fits(operation, outcome, Result(operation, outcome))
  BY <1>2, <1>4 DEF Fits, how
<1>5. CASE operation.via = "native"
  <2>1. CASE Successful(outcome.status)
    <3>1. CASE IsJson(outcome.body)
      <4>1. NativeRequest(outcome) = Data("object")
        BY <1>2, <2>1, <3>1 DEF NativeRequest, IsJson
      <4>2. Result(operation, outcome) = Taken(operation, "object", outcome.body)
        BY <1>5, <4>1, DataOrError DEF Result
      <4>3. Taken(operation, "object", outcome.body) \in {Data("object"), Data("empty")}
        BY <1>1, <1>5 DEF Known, Taken
      <4>4. QED
        BY <1>4, <2>1, <4>2, <4>3 DEF Values, Bodies
    <3>2. CASE ~IsJson(outcome.body)
      <4>1. NativeRequest(outcome) \in {Failure("NativeError", 0), Failure("SyntaxError", 0)}
        BY <1>2, <2>1, <3>2 DEF NativeRequest
      <4>2. Result(operation, outcome) = NativeRequest(outcome)
        BY <1>5, <4>1, DataOrError DEF Result
      <4>3. how = "body"
        BY <1>1, <1>2, <1>5, <2>1, <3>2 DEF Known, Expected, IsJson
      <4>4. QED
        BY <4>1, <4>2, <4>3 DEF Fits, how, Errors, Failures
    <3>3. QED
      BY <3>1, <3>2
  <2>2. CASE ~Successful(outcome.status)
    <3>1. /\ outcome.status = 0 \/ outcome.body = "lost" => NativeRequest(outcome) = Failure("NativeError", 0)
          /\ ~(outcome.status = 0 \/ outcome.body = "lost") =>
               NativeRequest(outcome) = IF ~IsJson(outcome.body) THEN Failure("SyntaxError", 0)
                                        ELSE Failure("StorageApiError", outcome.status)
      BY <2>2 DEF NativeRequest
    <3>2. Result(operation, outcome) = NativeRequest(outcome)
      BY <1>5, <3>1, DataOrError DEF Result
    <3>3. CASE outcome.status = 0
      BY <1>1, <1>2, <1>5, <3>1, <3>2, <3>3 DEF Fits, how, Errors, Failures
    <3>4. CASE outcome.status # 0 /\ ~IsJson(outcome.body)
      <4>1. NativeRequest(outcome) \in {Failure("NativeError", 0), Failure("SyntaxError", 0)}
        BY <3>1, <3>4
      <4>2. how = "garbled"
        BY <1>2, <1>5, <2>2, <3>4
      <4>3. QED
        BY <1>5, <3>2, <4>1, <4>2 DEF Fits, how, Errors, Failures
    <3>5. CASE outcome.status # 0 /\ IsJson(outcome.body)
      <4>1. NativeRequest(outcome) = Failure("StorageApiError", outcome.status)
        BY <3>1, <3>5 DEF IsJson
      <4>2. how = "status"
        BY <1>2, <1>5, <2>2, <3>5
      <4>3. QED
        BY <1>1, <3>2, <4>1, <4>2 DEF Fits, how, Errors, StorageErrors, Failures
    <3>6. QED
      BY <3>3, <3>4, <3>5
  <2>3. QED
    BY <2>1, <2>2
<1>6. CASE operation.via = "iceberg"
  <2>1. CASE Successful(outcome.status) /\ IsJson(outcome.body)
    <3>1. CatalogRequest(outcome) = Data(outcome.body)
      BY <2>1 DEF CatalogRequest
    <3>2. Result(operation, outcome) = Taken(operation, outcome.body, outcome.body)
      BY <1>6, <3>1, DataOrError DEF Result
    <3>3. Taken(operation, outcome.body, outcome.body) \in {Data(outcome.body), Data("empty")}
      BY <1>1, <1>6 DEF Known, Taken
    <3>4. QED
      BY <1>1, <1>4, <2>1, <3>2, <3>3 DEF Values
  <2>2. CASE ~(Successful(outcome.status) /\ IsJson(outcome.body))
    <3>1. CatalogRequest(outcome) = Failure("IcebergError", outcome.status)
      BY <2>2 DEF CatalogRequest
    <3>2. Result(operation, outcome) = Failure("IcebergError", outcome.status)
      BY <1>6, <3>1, DataOrError DEF Result
    <3>3. how # "no"
      BY <1>1, <1>2, <1>6, <2>2 DEF Known, Expected, IsJson
    <3>4. QED
      BY <1>1, <1>6, <3>2, <3>3 DEF Fits, how, Errors, Failures
  <2>3. QED
    BY <2>1, <2>2
<1>7. CASE operation.via = "fetch"
  <2>1. CASE ~Successful(outcome.status)
    <3>1. \/ outcome.status = 0 /\ HandleRequest(operation, outcome) = Failure("StorageUnknownError", 0)
          \/ outcome.status # 0 /\ HandleRequest(operation, outcome) = Failure("StorageApiError", outcome.status)
      BY <2>1 DEF HandleRequest, HandleError
    <3>2. Result(operation, outcome) = HandleRequest(operation, outcome)
      BY <1>7, <3>1, DataOrError DEF Result
    <3>3. QED
      BY <1>1, <1>2, <1>3, <1>7, <2>1, <3>1, <3>2 DEF Fits, how, Errors, StorageErrors, Failures
  <2>2. CASE Successful(outcome.status)
    <3>1. \/ HandleRequest(operation, outcome) = Failure("StorageUnknownError", 0) /\ how = "body"
          \/ \E value \in Values : /\ HandleRequest(operation, outcome) = Data(value)
                                   /\ how = "no" /\ operation.takes \in {"list", "token"} => value = Expected(operation)
                                   /\ how = "no" => value # "null"
      <4>1. CASE operation.takes = "response"
        <5>1. HandleRequest(operation, outcome) = Data("response")
          BY <2>2, <4>1 DEF HandleRequest
        <5>2. QED
          BY <4>1, <5>1 DEF Values
      <4>2. CASE operation.takes # "response" /\ operation.namespace = "vectors"
                   /\ (outcome.status = 204 \/ outcome.body \in {"none", "text"})
        <5>1. HandleRequest(operation, outcome) = Data("empty")
          BY <2>2, <4>2 DEF HandleRequest
        <5>2. QED
          BY <1>1, <4>2, <5>1 DEF Values, Known
      <4>3. CASE /\ operation.takes # "response"
                 /\ ~(operation.namespace = "vectors" /\ (outcome.status = 204 \/ outcome.body \in {"none", "text"}))
                 /\ IsJson(outcome.body)
        <5>1. HandleRequest(operation, outcome) = Data(outcome.body)
          BY <2>2, <4>3 DEF HandleRequest
        <5>2. QED
          BY <1>1, <1>2, <2>2, <5>1 DEF Values, Expected
      <4>4. CASE /\ operation.takes # "response"
                 /\ ~(operation.namespace = "vectors" /\ (outcome.status = 204 \/ outcome.body \in {"none", "text"}))
                 /\ ~IsJson(outcome.body)
        <5>1. HandleRequest(operation, outcome) = Failure("StorageUnknownError", 0)
          BY <2>2, <4>4 DEF HandleRequest, HandleError
        <5>2. QED
          BY <1>2, <2>2, <4>4, <5>1 DEF Expected, IsJson
      <4>5. QED
        BY <4>1, <4>2, <4>3, <4>4
    <3>2. CASE HandleRequest(operation, outcome) = Failure("StorageUnknownError", 0) /\ how = "body"
      <4>1. Result(operation, outcome) = Failure("StorageUnknownError", 0)
        BY <1>7, <3>2, DataOrError DEF Result
      <4>2. QED
        BY <3>2, <4>1 DEF Fits, how, Errors, StorageErrors, Failures
    <3>3. ASSUME NEW value \in Values, HandleRequest(operation, outcome) = Data(value),
                 how = "no" /\ operation.takes \in {"list", "token"} => value = Expected(operation),
                 how = "no" => value # "null"
          PROVE  Fits(operation, outcome, Result(operation, outcome))
      <4>1. Result(operation, outcome) = Taken(operation, value, outcome.body)
        BY <1>7, <3>3, DataOrError DEF Result
      <4>2. \/ Taken(operation, value, outcome.body) \in {Data("true"), Data("empty"), Data(value)}
            \/ Taken(operation, value, outcome.body) \in {Failure("TypeError", 0), Failure("StorageError", 0)}
               /\ how # "no"
        BY <1>1, <1>2, <2>2, <3>3 DEF Known, Taken, Expected
      <4>3. how \in {"no", "body"}
        BY <1>2, <2>2
      <4>4. QED
        BY <4>1, <4>2, <4>3 DEF Fits, how, Values, Errors, StorageErrors, Failures
    <3>4. QED
      BY <3>1, <3>2, <3>3
  <2>3. QED
    BY <2>1, <2>2
<1>8. QED
  BY <1>1, <1>5, <1>6, <1>7 DEF Known

Answers == [how : {"resolved", "rejected"}, error : Errors \cup {"null"}, data : Values \cup {"none"}]

\* How the reply follows from what the request came to and the flag it is read with.
LEMMA SettledFits ==
  ASSUME NEW operation \in Requests, NEW outcome \in Outcomes, NEW throws \in BOOLEAN,
         NEW result, Fits(operation, outcome, result)
  PROVE  LET reply == Settled(operation, throws, result)
             failed == How(operation, outcome) IN
         /\ reply \in Answers
         /\ throws /\ failed \in Failures => reply.how = "rejected"
         /\ reply.how = "rejected" => failed # "no"
         /\ reply.how = "rejected" /\ failed \in Failures /\ ~throws =>
              \/ operation.via = "native" /\ failed \in {"network", "garbled"}
              \/ operation.catches = "exists" /\ outcome.status \notin {400, 404}
         /\ reply.how # "rejected" /\ failed \in Failures =>
              reply.error # "null" /\ reply.data \in {"null", "false"}
<1> DEFINE reply == Settled(operation, throws, result)
           failed == How(operation, outcome)
<1>1. Known(operation)
  BY AllKnown
<1>2. \A value \in Values : Answer(value, "null") \in Answers /\ Answer(value, "null").how = "resolved"
  BY DEF Answer, Answers
<1>3. \A error \in Errors, status \in Nat :
        /\ Rejected(Failure(error, status)) \in Answers /\ Rejected(Failure(error, status)).how = "rejected"
        /\ \A value \in {"null", "false"} :
             /\ Answer(value, error) \in Answers /\ Answer(value, error).how = "resolved"
             /\ Answer(value, error).error = error /\ Answer(value, error).data = value
  BY DataOrError DEF Answer, Rejected, Answers, Values, Bodies
<1>4. failed \in {"no", "body"} \cup Failures /\ "null" \notin Errors
  BY DEF How, Errors, StorageErrors, Failures
<1> HIDE DEF reply, failed
<1>5. ASSUME NEW value \in Values, result = Data(value), failed \in {"no", "body"}
      PROVE  reply \in Answers /\ reply.how = "resolved"
  <2>1. ~IsError(result) /\ result.data = value
    BY <1>5, DataOrError
  <2>2. reply \in {Answer(value, "null"), Answer("true", "null")}
    BY <1>1, <2>1 DEF Known, reply, Settled, HandleOperation, ExistsAnswer, ExecuteDownload, ExecuteStream, CatalogAnswer
  <2>3. QED
    BY <1>2, <2>2 DEF Values
<1>6. ASSUME NEW error \in Errors, NEW status \in Nat, result = Failure(error, status)
      PROVE  /\ reply \in {Rejected(result), Answer("null", error), Answer("false", error)}
             /\ reply = Rejected(result) \/ ~throws
             /\ \/ reply # Rejected(result)
                \/ throws
                \/ error \notin StorageErrors /\ operation.catches # "catalog"
                \/ operation.catches = "exists" /\ status \notin {400, 404}
  <2>1. IsError(result) /\ result.error = error /\ result.status = status
    BY <1>6, DataOrError
  <2>2. IsStorageError(result) <=> error \in StorageErrors
    BY <2>1 DEF IsStorageError, StorageErrors
  <2> DEFINE rejected == Rejected(result)
  <2>7. rejected # Answer("null", error) /\ rejected # Answer("false", error)
    BY <1>3, <1>6
  <2> HIDE DEF rejected
  <2>8. throws \in BOOLEAN
    OBVIOUS
  <2>3. CASE operation.catches \in {"operation", "download", "stream"}
    <3>1. reply = IF ~throws /\ IsStorageError(result) THEN Answer("null", error) ELSE Rejected(result)
      BY <2>1, <2>3 DEF reply, Settled, HandleOperation, ExecuteDownload, ExecuteStream
    <3>2. QED
      BY <2>2, <2>3, <2>7, <3>1 DEF rejected
  <2>4. CASE operation.catches = "exists"
    <3>1. reply = IF ~throws /\ IsStorageError(result) /\ status \in {400, 404} THEN Answer("false", error)
                   ELSE Rejected(result)
      BY <2>1, <2>4 DEF reply, Settled, ExistsAnswer
    <3>2. QED
      BY <2>2, <2>4, <2>7, <3>1 DEF rejected
  <2>5. CASE operation.catches = "catalog"
    <3>1. reply = IF ~throws THEN Answer("null", error) ELSE Rejected(result)
      BY <2>1, <2>5 DEF reply, Settled, CatalogAnswer
    <3>2. QED
      BY <2>5, <2>7, <3>1 DEF rejected
  <2>6. QED
    BY <1>1, <2>3, <2>4, <2>5 DEF Known
<1>7. CASE (\E value \in Values : result = Data(value)) /\ failed \in {"no", "body"}
  BY <1>5, <1>7 DEF reply, failed, Failures
<1>8. ASSUME NEW error \in Errors, NEW status \in Nat, result = Failure(error, status), failed # "no",
             failed \in Failures =>
               \/ error = "IcebergError" /\ operation.via = "iceberg"
               \/ operation.via = "native" /\ failed \in {"network", "garbled"}
               \/ error \in StorageErrors /\ (outcome.status \in {400, 404} => status = outcome.status)
      PROVE  /\ reply \in Answers
             /\ throws /\ failed \in Failures => reply.how = "rejected"
             /\ reply.how = "rejected" /\ failed \in Failures /\ ~throws =>
                  \/ operation.via = "native" /\ failed \in {"network", "garbled"}
                  \/ operation.catches = "exists" /\ outcome.status \notin {400, 404}
             /\ reply.how # "rejected" => reply.error # "null" /\ reply.data \in {"null", "false"}
  <2>1. /\ reply \in {Rejected(result), Answer("null", error), Answer("false", error)}
        /\ reply = Rejected(result) \/ ~throws
        /\ \/ reply # Rejected(result)
           \/ throws
           \/ error \notin StorageErrors /\ operation.catches # "catalog"
           \/ operation.catches = "exists" /\ status \notin {400, 404}
    BY <1>6, <1>8
  <2>2. reply \in Answers /\ (reply.how = "rejected" <=> reply = Rejected(result))
        /\ (reply.how # "rejected" => reply.error # "null" /\ reply.data \in {"null", "false"})
    BY <1>3, <1>4, <1>8, <2>1
  <2>3. QED
    BY <1>1, <1>8, <2>1, <2>2 DEF Known, StorageErrors
<1>9. {"no", "body"} \cap Failures = {}
  BY DEF Failures
<1>10. QED
  BY <1>7, <1>8, <1>9 DEF Fits, reply, failed

-----------------------------------------------------------------------------
(* The calls.                                                              *)

Apis   == {"bucket", "file", "vectors", "indexes", "index", "analytics", "catalog"}
Record ==
  [stage : {"none", "built", "sent", "settled"}, client : Clients, operation : Requests,
   path : Paths \cup {<<>>}, throws : BOOLEAN, promised : BOOLEAN, asked : BOOLEAN, requests : {0, 1},
   failed : {"no", "body", "check"} \cup Failures, missing : BOOLEAN,
   answer : Answers \cup {Answer("none", "none")}]

\* A call has the flag of its client when it was made, which stays set; a builder
\* has made its one request when it has a promise.
KeptFlag(c) ==
  /\ c \in Record /\ c.throws = c.asked
  /\ c.stage # "none" /\ c.asked => client[c.client].throws
  /\ c.stage = "built" => c.requests = 0
  /\ c.stage # "none" /\ Lazy(c.operation) /\ c.promised => c.stage \in {"sent", "settled"}
  /\ c.stage # "none" /\ Lazy(c.operation) /\ ~c.promised => c.stage = "built"

\* What AnsweredAsChosen says of one call.
Chosen(c) ==
  LET rejected == c.answer.how = "rejected" IN
  c.stage = "settled" =>
    /\ c.asked /\ c.failed \in Failures => rejected
    /\ rejected => c.failed # "no"
    /\ rejected /\ ~Unruly(c) => c.asked \/ client[c.client].throws
    /\ ~rejected /\ c.failed \in Failures =>
         c.answer.error # "null" /\ c.answer.data \in {"null", "false"}

\* The two together, with the types they need and the fact that a client nobody
\* has made has no flag.
ChosenInv ==
  /\ client \in [Clients -> [api : Apis \cup {"none"}, throws : BOOLEAN]]
  /\ \A k \in Clients : client[k].api = "none" => ~client[k].throws
  /\ call \in [Calls -> Record]
  /\ \A i \in Calls : KeptFlag(call[i]) /\ Chosen(call[i])

\* A flag that is set changes nothing of what calls were answered.
LEMMA FlagsRise ==
  ASSUME \A k \in Clients : client[k].throws => client'[k].throws,
         NEW c, KeptFlag(c), Chosen(c)
  PROVE  KeptFlag(c)' /\ Chosen(c)'
<1>1. c.client \in Clients
  BY DEF KeptFlag, Record
<1>2. QED
  BY <1>1 DEF KeptFlag, Chosen, Record, Requests

\* The steps that change one call change nothing of the others.
LEMMA OneCall ==
  ASSUME ChosenInv, NEW i \in Calls, NEW c, call' = [call EXCEPT ![i] = c], client' = client,
         KeptFlag(c), Chosen(c)
  PROVE  ChosenInv'
<1>1. c \in Record
  BY DEF KeptFlag
<1>2. \A j \in Calls : call'[j] = IF j = i THEN c ELSE call[j]
  BY DEF ChosenInv
<1>3. call' \in [Calls -> Record]
  BY <1>1 DEF ChosenInv
<1>4. ASSUME NEW j \in Calls PROVE (KeptFlag(call[j]) /\ Chosen(call[j]))'
  <2>1. CASE j = i
    <3>1. call'[j] = c
      BY <1>2, <2>1
    <3>2. QED
      BY <3>1 DEF KeptFlag, Chosen
  <2>2. CASE j # i
    <3>1. call'[j] = call[j]
      BY <1>2, <2>2
    <3>2. KeptFlag(call[j]) /\ Chosen(call[j])
      BY DEF ChosenInv
    <3>3. QED
      BY <3>1, <3>2 DEF KeptFlag, Chosen
  <2>3. QED
    BY <2>1, <2>2
<1>5. QED
  BY <1>3, <1>4 DEF ChosenInv

\* A call as its method makes it.
LEMMA NewCall ==
  ASSUME ChosenInv, NEW i, NEW k \in Clients, NEW operation \in Requests, NEW path \in Paths \cup {<<>>}
  PROVE  New(i, k, operation, path) =
           [stage |-> "none", client |-> k, operation |-> operation, path |-> path,
            throws |-> client[k].throws, promised |-> FALSE, asked |-> client[k].throws, requests |-> 0,
            failed |-> "no", missing |-> FALSE, answer |-> Answer("none", "none")]
<1> DEFINE none == Answer("none", "none")
<1>2. NoCall = [stage |-> "none", client |-> Root, operation |-> ListBuckets, path |-> <<>>,
                throws |-> FALSE, promised |-> FALSE, asked |-> FALSE, requests |-> 0,
                failed |-> "no", missing |-> FALSE, answer |-> none]
  BY DEF NoCall
<1> DEFINE throws == client[k].throws
<1> HIDE DEF none, throws
<1>3. New(i, k, operation, path) = [NoCall EXCEPT !.client = k, !.operation = operation, !.path = path,
                                                  !.throws = throws, !.asked = throws]
  BY DEF New, throws
<1>4. QED
  BY <1>2, <1>3 DEF none, throws

\* The invariant holds at first, and every step keeps it.
LEMMA ChosenInit == Init => ChosenInv
<1> SUFFICES ASSUME Init PROVE ChosenInv
  OBVIOUS
<1>1. ListBuckets \in Requests
  BY DEF Requests, Operations
<1>2. NoCall \in Record
  BY <1>1, RootIsClient DEF NoCall, Record
<1>3. KeptFlag(NoCall) /\ Chosen(NoCall)
  BY <1>2 DEF KeptFlag, Chosen, NoCall
<1>4. PICK api \in Exported :
        client = [k \in Clients |-> [api |-> IF k = Root THEN api ELSE "none", throws |-> FALSE]]
  BY DEF Init
<1>5. api \in Apis
  BY <1>4 DEF Exported, Apis
<1>6. client \in [Clients -> [api : Apis \cup {"none"}, throws : BOOLEAN]] /\ \A k \in Clients : ~client[k].throws
  BY <1>4, <1>5
<1>7. QED
  BY <1>2, <1>3, <1>6 DEF Init, ChosenInv

\* The steps, one by one.
LEMMA ChosenStep == ChosenInv /\ [Next]_vars => ChosenInv'
<1> SUFFICES ASSUME ChosenInv, [Next]_vars PROVE ChosenInv'
  OBVIOUS
<1>1. client \in [Clients -> [api : Apis \cup {"none"}, throws : BOOLEAN]]
  BY DEF ChosenInv
<1>2. ASSUME \A k \in Clients : client[k].throws => client'[k].throws, UNCHANGED call,
             client' \in [Clients -> [api : Apis \cup {"none"}, throws : BOOLEAN]],
             \A k \in Clients : client'[k].api = "none" => ~client'[k].throws
      PROVE  ChosenInv'
  <2>1. \A i \in Calls : KeptFlag(call[i])' /\ Chosen(call[i])'
    BY <1>2, FlagsRise DEF ChosenInv, KeptFlag, Chosen
  <2>2. QED
    BY <1>2, <2>1 DEF ChosenInv
<1>3. ASSUME NEW k \in Clients, ThrowOnError(k) PROVE ChosenInv'
  <2>1. client'[k] = [client[k] EXCEPT !.throws = TRUE] /\ \A l \in Clients : l # k => client'[l] = client[l]
    BY <1>1, <1>3 DEF ThrowOnError
  <2>2. client'[k].throws /\ client'[k].api = client[k].api /\ client'[k] \in [api : Apis \cup {"none"}, throws : BOOLEAN]
    BY <1>1, <2>1
  <2>3. client' \in [Clients -> [api : Apis \cup {"none"}, throws : BOOLEAN]] /\ UNCHANGED call
    BY <1>1, <1>3, <2>1, <2>2 DEF ThrowOnError
  <2>4. QED
    BY <1>2, <1>3, <2>1, <2>2, <2>3 DEF ThrowOnError, ChosenInv
<1>4. ASSUME NEW k \in Clients, NEW made \in Clients, From(k, made) PROVE ChosenInv'
  <2> DEFINE throws == client[k].api = "analytics" /\ client[k].throws
  <2>1. PICK api \in Makes(client[k].api) : client' = [client EXCEPT ![made] = [api |-> api, throws |-> throws]]
    BY <1>4 DEF From
  <2>2. api \in Apis /\ throws \in BOOLEAN
    BY <1>1, <2>1 DEF Makes, Apis
  <2> HIDE DEF throws
  <2>3. ~client[made].throws
    BY <1>4 DEF From, ChosenInv
  <2>4. QED
    BY <1>1, <1>2, <1>4, <2>1, <2>2, <2>3 DEF From, ChosenInv, Apis
<1>5. ASSUME NEW i \in Calls, NEW k \in Clients, Call(i, k) PROVE ChosenInv'
  <2>1. PICK operation \in Operations, path \in Paths :
          LET new == New(i, k, operation, path) IN
          \/ call' = [call EXCEPT ![i] = IF Lazy(operation) THEN [new EXCEPT !.stage = "built"]
                                         ELSE [new EXCEPT !.stage = "sent", !.requests = 1]]
          \/ operation.checks /\ call' = [call EXCEPT ![i] =
               [new EXCEPT !.stage = "settled", !.failed = "check", !.answer = Rejected(Failure("Error", 0))]]
    BY <1>5 DEF Call
  <2> DEFINE new == New(i, k, operation, path)
  <2>2. new = [stage |-> "none", client |-> k, operation |-> operation, path |-> path,
               throws |-> client[k].throws, promised |-> FALSE, asked |-> client[k].throws, requests |-> 0,
               failed |-> "no", missing |-> FALSE, answer |-> Answer("none", "none")]
    BY NewCall DEF Requests
  <2>3. operation \in Requests /\ path \in Paths \cup {<<>>} /\ client[k].throws \in BOOLEAN
    BY <1>1 DEF Requests
  <2> HIDE DEF new
  <2>4. CASE Lazy(operation) /\ call' = [call EXCEPT ![i] = [new EXCEPT !.stage = "built"]]
    <3> DEFINE c == [new EXCEPT !.stage = "built"]
    <3>1. c \in Record /\ KeptFlag(c) /\ Chosen(c)
      BY <2>2, <2>3 DEF Record, KeptFlag, Chosen
    <3>2. QED
      BY <1>5, <2>4, <3>1, OneCall DEF Call
  <2>5. CASE ~Lazy(operation) /\ call' = [call EXCEPT ![i] = [new EXCEPT !.stage = "sent", !.requests = 1]]
    <3> DEFINE c == [new EXCEPT !.stage = "sent", !.requests = 1]
    <3>1. c \in Record /\ c.operation = operation
      BY <2>2, <2>3 DEF Record
    <3>2. KeptFlag(c) /\ Chosen(c)
      BY <2>2, <2>5, <3>1 DEF KeptFlag, Chosen
    <3>3. QED
      BY <1>5, <2>5, <3>2, OneCall DEF Call
  <2>6. CASE operation.checks /\ call' = [call EXCEPT ![i] =
               [new EXCEPT !.stage = "settled", !.failed = "check", !.answer = Rejected(Failure("Error", 0))]]
    <3> DEFINE reply == Rejected(Failure("Error", 0))
               c == [new EXCEPT !.stage = "settled", !.failed = "check", !.answer = reply]
    <3>1. reply \in Answers /\ reply.how = "rejected"
      BY DataOrError DEF Rejected, Answers, Errors
    <3> HIDE DEF reply
    <3>2. c \in Record /\ c.operation = operation
      BY <2>2, <2>3, <3>1 DEF Record
    <3>3. ~Lazy(operation)
      BY <2>3, <2>6, AllKnown DEF Known, Lazy
    <3>4. KeptFlag(c) /\ Chosen(c)
      BY <2>2, <3>1, <3>2, <3>3 DEF KeptFlag, Chosen, Unruly
    <3>5. QED
      BY <1>5, <2>6, <3>4, OneCall DEF Call, reply
  <2>7. QED
    BY <2>1, <2>4, <2>5, <2>6 DEF new
<1>6. ASSUME NEW i \in Calls, NEW j \in Calls, MakeStream(i, j) PROVE ChosenInv'
  <2> DEFINE new  == New(j, call[i].client, AsStream, call[i].path)
             was  == call[i].throws
             c    == [new EXCEPT !.stage = "built", !.throws = was, !.asked = was]
  <2>1. /\ call[i] \in Record /\ was = call[i].asked /\ was \in BOOLEAN
        /\ was => client[call[i].client].throws
    BY <1>6 DEF ChosenInv, KeptFlag, MakeStream, Record
  <2>2. call[i].client \in Clients /\ call[i].path \in Paths \cup {<<>>} /\ AsStream \in Requests
    BY <2>1 DEF Record, Requests
  <2>3. new = [stage |-> "none", client |-> call[i].client, operation |-> AsStream, path |-> call[i].path,
               throws |-> client[call[i].client].throws, promised |-> FALSE,
               asked |-> client[call[i].client].throws, requests |-> 0,
               failed |-> "no", missing |-> FALSE, answer |-> Answer("none", "none")]
    BY <2>2, NewCall
  <2>4. call' = [call EXCEPT ![j] = c] /\ UNCHANGED client
    BY <1>6, <2>1 DEF MakeStream
  <2> HIDE DEF new, was
  <2>5. c \in Record /\ c.stage = "built" /\ c.requests = 0 /\ ~c.promised
        /\ c.throws = was /\ c.asked = was /\ c.client = call[i].client
    <3>1. c.stage = "built" /\ c.requests = 0 /\ ~c.promised
          /\ c.throws = was /\ c.asked = was /\ c.client = call[i].client
      BY <2>3
    <3>2. c \in Record
      BY <2>1, <2>2, <2>3, ZenonT(90) DEF Record
    <3>3. QED
      BY <3>1, <3>2
  <2> HIDE DEF c
  <2>6. KeptFlag(c) /\ Chosen(c)
    BY <2>1, <2>5 DEF KeptFlag, Chosen
  <2>7. QED
    BY <2>4, <2>6, OneCall
<1>7. ASSUME NEW i \in Calls, Await(i) PROVE ChosenInv'
  <2> DEFINE c == GetPromise(call[i])
  <2>1. call[i] \in Record /\ KeptFlag(call[i]) /\ Chosen(call[i])
    BY DEF ChosenInv
  <2>2. call' = [call EXCEPT ![i] = c] /\ UNCHANGED client /\ call[i].stage # "none" /\ Lazy(call[i].operation)
    BY <1>7, <2>1 DEF Await, ChosenInv
  <2>3. CASE call[i].promised
    BY <2>1, <2>2, <2>3, OneCall DEF GetPromise
  <2>4. CASE ~call[i].promised
    <3>1. call[i].stage = "built" /\ call[i].requests = 0
      BY <2>1, <2>2, <2>4 DEF KeptFlag
    <3>2. c = [call[i] EXCEPT !.promised = TRUE, !.requests = 1, !.stage = "sent"]
      BY <2>4, <3>1 DEF GetPromise
    <3>3. c \in Record /\ c.operation = call[i].operation /\ c.stage = "sent" /\ c.promised
          /\ c.asked = call[i].asked /\ c.throws = call[i].throws /\ c.client = call[i].client
      BY <2>1, <3>2 DEF Record
    <3> HIDE DEF c
    <3>4. KeptFlag(c) /\ Chosen(c)
      BY <2>1, <2>2, <3>3 DEF KeptFlag, Chosen
    <3>5. QED
      BY <2>2, <3>4, OneCall
  <2>5. QED
    BY <2>3, <2>4
<1>8. ASSUME NEW i \in Calls, Respond(i) PROVE ChosenInv'
  <2>1. call[i] \in Record /\ KeptFlag(call[i]) /\ Chosen(call[i]) /\ call[i].stage = "sent"
    BY <1>8 DEF ChosenInv, Respond
  <2>2. PICK outcome \in Outcomes :
          call' = [call EXCEPT ![i] =
            [call[i] EXCEPT !.stage = "settled", !.failed = How(call[i].operation, outcome),
                            !.missing = outcome.status \in {400, 404},
                            !.answer = Settled(call[i].operation, Throws(call[i]), Result(call[i].operation, outcome))]]
    BY <1>8, ZenonT(90) DEF Respond
  <2> DEFINE operation == call[i].operation
             throws    == Throws(call[i])
             failed    == How(operation, outcome)
             missing   == outcome.status \in {400, 404}
             reply    == Settled(operation, throws, Result(operation, outcome))
             c         == [call[i] EXCEPT !.stage = "settled", !.failed = failed, !.missing = missing, !.answer = reply]
  <2>3. operation \in Requests /\ call[i].client \in Clients
    BY <2>1 DEF Record
  <2>4. /\ throws \in BOOLEAN /\ (call[i].asked => throws)
        /\ throws => call[i].asked \/ client[call[i].client].throws
    BY <1>1, <2>1, <2>3 DEF Throws, KeptFlag, Record
  <2>5. failed \in {"no", "body"} \cup Failures /\ missing \in BOOLEAN
    BY DEF How, Failures
  <2>6. /\ reply \in Answers
        /\ throws /\ failed \in Failures => reply.how = "rejected"
        /\ reply.how = "rejected" => failed # "no"
        /\ reply.how = "rejected" /\ failed \in Failures /\ ~throws =>
             \/ operation.via = "native" /\ failed \in {"network", "garbled"}
             \/ operation.catches = "exists" /\ ~missing
        /\ reply.how # "rejected" /\ failed \in Failures =>
             reply.error # "null" /\ reply.data \in {"null", "false"}
    BY <2>3, <2>4, ResultFits, SettledFits
  <2>7. call' = [call EXCEPT ![i] = c] /\ UNCHANGED client
    BY <1>8, <2>2 DEF Respond
  <2>8. c = [call[i] EXCEPT !.stage = "settled", !.failed = failed, !.missing = missing, !.answer = reply]
    OBVIOUS
  <2> HIDE DEF throws, failed, missing, reply, c
  <2>9. c \in Record /\ c.stage = "settled" /\ c.failed = failed /\ c.missing = missing /\ c.answer = reply
    BY <2>1, <2>5, <2>6, <2>8 DEF Record
  <2>10. /\ c.operation = operation /\ c.asked = call[i].asked /\ c.throws = call[i].throws
         /\ c.client = call[i].client /\ c.promised = call[i].promised
    BY <2>1, <2>8 DEF Record
  <2>11. KeptFlag(c)
    BY <2>1, <2>9, <2>10 DEF KeptFlag
  <2>12. Chosen(c)
    BY <2>4, <2>5, <2>6, <2>9, <2>10 DEF Chosen, Unruly
  <2>13. QED
    BY <2>7, <2>11, <2>12, OneCall
<1>9. CASE UNCHANGED vars
  BY <1>9 DEF vars, ChosenInv, KeptFlag, Chosen
<1>10. QED
  BY <1>3, <1>4, <1>5, <1>6, <1>7, <1>8, <1>9 DEF Next

\* However many clients and calls there are, whenever throwOnError() is called and
\* whatever the server answers, a failure reaches the caller in the way he chose
\* (BaseApiClient.ts, handleOperation), and one call makes one request.
THEOREM FailuresAsChosen == Spec => []AnsweredAsChosen
<1>1. ChosenInv => AnsweredAsChosen
  BY DEF ChosenInv, KeptFlag, Chosen, Record, AnsweredAsChosen
<1>2. QED
  BY <1>1, ChosenInit, ChosenStep, PTL DEF Spec

-----------------------------------------------------------------------------
(* StorageClient: paths.                                                    *)

\* Whether two slashes follow each other.
Smooth(path) == \A i \in 1..(Len(path) - 1) : ~Doubled(path, i)

\* Only one slash goes at either end; what stays is what was next to it.
LEMMA TrimmedEnds ==
  ASSUME NEW path \in Seq(STRING)
  PROVE  /\ Trimmed(path) \in Seq(STRING)
         /\ ~Doubled(path, 1) /\ Trimmed(path) # <<>> => Trimmed(path)[1] # Slash
         /\ ~Doubled(path, Len(path) - 1) /\ Trimmed(path) # <<>> => Last(Trimmed(path)) # Slash
         /\ (path # <<>> => Last(path) # Slash) =>
              Trimmed(path) = IF path # <<>> /\ Head(path) = Slash THEN Tail(path) ELSE path
<1> DEFINE u == IF path # <<>> /\ Head(path) = Slash THEN Tail(path) ELSE path
           t == Trimmed(path)
           d == Len(path) - Len(u)
<1>1. /\ u \in Seq(STRING) /\ d \in {0, 1} /\ Len(u) \in Nat /\ Len(path) = Len(u) + d
      /\ \A i \in 1..Len(u) : u[i] = path[i + d]
      /\ d = 1 => path[1] = Slash
      /\ d = 0 /\ path # <<>> => path[1] # Slash
  <2>1. CASE path # <<>> /\ Head(path) = Slash
    <3>1. u = Tail(path) /\ path[1] = Slash
      BY <2>1
    <3>2. u \in Seq(STRING) /\ Len(u) = Len(path) - 1 /\ Len(path) \in Nat /\ \A i \in 1..Len(u) : u[i] = path[i + 1]
      BY <2>1, <3>1
    <3> HIDE DEF u
    <3>3. Len(path) \in Nat /\ Len(u) \in Nat /\ Len(u) = Len(path) - 1 /\ d = 1
      BY <3>2
    <3>4. \A i \in 1..Len(u) : u[i] = path[i + d]
      BY <3>2, <3>3
    <3>5. u \in Seq(STRING)
      BY <3>2
    <3> HIDE DEF d
    <3>6. QED
      BY <3>1, <3>3, <3>4, <3>5
  <2>2. CASE ~(path # <<>> /\ Head(path) = Slash)
    <3>1. u = path
      BY <2>2
    <3>2. path # <<>> => path[1] # Slash
      BY <2>2
    <3> HIDE DEF u
    <3>3. Len(path) \in Nat /\ Len(u) = Len(path) /\ d = 0
      BY <3>1
    <3>4. \A i \in 1..Len(u) : u[i] = path[i + d]
      BY <3>1, <3>3
    <3>5. QED
      BY <3>1, <3>2, <3>3, <3>4
  <2>3. QED
    BY <2>1, <2>2
<1>2. /\ t \in Seq(STRING) /\ Len(t) \in 0..Len(u) /\ \A i \in 1..Len(t) : t[i] = u[i]
      /\ Len(t) # Len(u) => Len(t) = Len(u) - 1 /\ u # <<>> /\ u[Len(u)] = Slash
      /\ Len(t) = Len(u) => t = u /\ (u # <<>> => u[Len(u)] # Slash)
  <2> HIDE DEF u
  <2>1. t = IF u # <<>> /\ Last(u) = Slash THEN Front(u) ELSE u
    BY DEF Trimmed, u
  <2>2. CASE u # <<>> /\ Last(u) = Slash
    <3>1. t = SubSeq(u, 1, Len(u) - 1) /\ u[Len(u)] = Slash
      BY <2>1, <2>2 DEF Front, Last
    <3>2. PICK n \in Nat : Len(u) = n + 1
      <4>1. Len(u) >= 1 /\ Len(u) \in Nat
        <5>1. u \in Seq(STRING) /\ u # <<>>
          BY <1>1, <2>2
        <5>2. QED
          BY <5>1
      <4>2. Len(u) - 1 \in Nat /\ Len(u) = (Len(u) - 1) + 1
        BY <4>1
      <4>3. QED
        BY <4>2
    <3>3. t = SubSeq(u, 1, n)
      BY <3>1, <3>2
    <3>4. t \in Seq(STRING) /\ Len(t) = n /\ \A i \in 1..n : t[i] = u[i]
      BY <1>1, <3>2, <3>3
    <3>5. QED
      BY <2>2, <3>1, <3>2, <3>4
  <2>3. CASE ~(u # <<>> /\ Last(u) = Slash)
    <3>1. t = u
      BY <2>1, <2>3
    <3>2. u # <<>> => u[Len(u)] # Slash
      BY <2>3 DEF Last
    <3>3. u \in Seq(STRING) /\ Len(u) \in Nat
      BY <1>1
    <3>4. QED
      BY <3>1, <3>2, <3>3
  <2>4. QED
    BY <2>2, <2>3
<1> HIDE DEF u, t, d
<1>3. DOMAIN path = 1..Len(path) /\ Len(path) \in Nat /\ Len(t) \in Nat /\ (t # <<>> => Len(t) >= 1)
  BY <1>2
<1>4. ASSUME ~Doubled(path, 1), t # <<>> PROVE t[1] # Slash
  <2>1. t[1] = path[1 + d] /\ Len(u) >= 1
    BY <1>1, <1>2, <1>3, <1>4
  <2>2. CASE d = 0
    BY <1>1, <2>1, <2>2
  <2>3. CASE d = 1
    <3>1. {1, 1 + 1} \subseteq DOMAIN path
      BY <1>1, <1>3, <2>1, <2>3
    <3>2. QED
      BY <1>1, <1>4, <2>1, <2>3, <3>1 DEF Doubled
  <2>4. QED
    BY <1>1, <2>2, <2>3
<1>5. ASSUME ~Doubled(path, Len(path) - 1), t # <<>> PROVE Last(t) # Slash
  <2>1. CASE Len(t) = Len(u)
    <3>1. t = u /\ u # <<>>
      BY <1>2, <1>5, <2>1
    <3>2. QED
      BY <1>2, <2>1, <3>1 DEF Last
  <2>2. CASE Len(t) # Len(u)
    <3> DEFINE k == Len(path) - 1
    <3>1. Len(t) = Len(u) - 1 /\ Len(t) >= 1 /\ u[Len(u)] = Slash
      BY <1>2, <1>3, <1>5, <2>2
    <3>2. k = Len(t) + d /\ k >= 1 /\ k + 1 = Len(u) + d
      BY <1>1, <1>3, <3>1
    <3>3. path[k + 1] = Slash /\ path[k] = t[Len(t)]
      BY <1>1, <1>2, <1>3, <3>1, <3>2
    <3>4. {k, k + 1} \subseteq DOMAIN path
      BY <1>1, <1>3, <3>2
    <3>5. QED
      BY <1>5, <3>3, <3>4 DEF Doubled, Last
  <2>3. QED
    BY <2>1, <2>2
<1>6. ASSUME path # <<>> => Last(path) # Slash PROVE t = u
  <2>1. SUFFICES ASSUME Len(t) # Len(u) PROVE FALSE
    BY <1>2
  <2>2. Len(u) >= 1 /\ u[Len(u)] = Slash
    BY <1>1, <1>2, <1>3, <2>1
  <2>3. path[Len(path)] = Slash /\ path # <<>>
    BY <1>1, <1>3, <2>2
  <2>4. QED
    BY <1>6, <2>3 DEF Last
<1>7. QED
  BY <1>2, <1>4, <1>5, <1>6 DEF t, u

\* What is left has no empty folder, and the ends of what was trimmed.
LEMMA CleanedEnds ==
  ASSUME NEW path \in Seq(STRING)
  PROVE  LET t == Trimmed(path)
             q == RemoveEmptyFolders(path)
         IN  /\ q \in Seq(STRING) /\ Smooth(q)
             /\ q # <<>> => t # <<>> /\ q[1] = t[1]
             /\ q # <<>> /\ Last(t) # Slash => Last(q) # Slash
             /\ Smooth(t) => q = t
<1> DEFINE t == Trimmed(path)
           n == Len(t)
           K == {i \in DOMAIN t : ~(i > 1 /\ t[i] = Slash /\ t[i - 1] = Slash)}
           c == Cardinality(K)
           a == Ascending(K)
           q == RemoveEmptyFolders(path)
<1>1. t \in Seq(STRING) /\ n \in Nat /\ DOMAIN t = 1..n /\ \A i \in 1..n : t[i] \in STRING
  BY TrimmedEnds
<1>2. K \in SUBSET (1..n) /\ K \subseteq Int
  BY <1>1
<1>3. q = [k \in DOMAIN a |-> t[a[k]]]
  BY DEF RemoveEmptyFolders
<1>4. \A i \in 1..n : i \in K <=> ~(i > 1 /\ t[i] = Slash /\ t[i - 1] = Slash)
  BY <1>1
<1> HIDE DEF t, n, K, c, a, q
<1>5. /\ c \in Nat /\ DOMAIN a = 1..c
      /\ \A k \in 1..c : a[k] \in K /\ Place(K, a[k]) = k - 1
      /\ \A i \in K : Place(K, i) + 1 \in 1..c /\ a[Place(K, i) + 1] = i
  BY <1>1, <1>2, AscendingAt DEF a, c
<1>6. \A k, l \in 1..c : k < l => a[k] < a[l]
  BY <1>1, <1>2, Ascends DEF a, c
<1>7. \A k \in 1..c : a[k] \in 1..n /\ a[k] \in Int
  BY <1>2, <1>5
<1>8. q = [k \in 1..c |-> t[a[k]]] /\ q \in Seq(STRING) /\ Len(q) = c /\ DOMAIN q = 1..c
  BY <1>1, <1>3, <1>5, <1>7
<1>9. Smooth(q)
  <2> SUFFICES ASSUME NEW k \in 1..(c - 1), q[k] = Slash, q[k + 1] = Slash PROVE FALSE
    BY <1>8 DEF Smooth, Doubled
  <2>1. k \in 1..c /\ k + 1 \in 1..c
    BY <1>5
  <2> DEFINE j == a[k + 1] - 1
  <2>2. t[a[k]] = Slash /\ t[a[k + 1]] = Slash /\ a[k] < a[k + 1] /\ a[k] >= 1 /\ a[k + 1] \in 1..n /\ a[k] \in Int
    BY <1>6, <1>7, <1>8, <2>1
  <2>3. j \in 1..n /\ t[j] # Slash
    <3>1. a[k + 1] \in Int /\ a[k + 1] > 1 /\ a[k + 1] \in K
      BY <1>5, <1>7, <2>1, <2>2
    <3>2. t[j] # Slash
      BY <1>4, <2>2, <3>1
    <3>3. QED
      BY <1>1, <2>2, <3>1, <3>2
  <2>4. j \in K
    BY <1>4, <2>3
  <2>5. PICK l \in 1..c : a[l] = j
    BY <1>5, <2>4
  <2>6. a[k] < a[l] /\ a[l] < a[k + 1]
    BY <2>2, <2>3, <2>5
  <2>7. ~(l <= k) /\ ~(l >= k + 1)
    <3>1. ASSUME l <= k PROVE FALSE
      <4>1. l = k \/ a[l] < a[k]
        BY <1>6, <2>1, <3>1
      <4>2. QED
        BY <1>7, <2>1, <2>6, <4>1
    <3>2. ASSUME l >= k + 1 PROVE FALSE
      <4>1. l = k + 1 \/ a[k + 1] < a[l]
        BY <1>6, <2>1, <3>2
      <4>2. QED
        BY <1>7, <2>1, <2>6, <4>1
    <3>3. QED
      BY <3>1, <3>2
  <2>8. QED
    BY <2>7
<1>10. ASSUME q # <<>> PROVE t # <<>> /\ q[1] = t[1]
  <2>1. c >= 1 /\ n >= 1
    BY <1>5, <1>7, <1>8, <1>10, <1>1
  <2>2. 1 \in K
    BY <1>4, <2>1, <1>1
  <2>3. PICK l \in 1..c : a[l] = 1
    BY <1>5, <2>2
  <2>4. l = 1
    <3>1. SUFFICES ASSUME 1 < l PROVE FALSE
      BY <1>5
    <3>2. a[1] < a[l] /\ a[1] >= 1
      BY <1>6, <1>7, <2>1, <3>1, <1>5
    <3>3. QED
      BY <1>7, <2>1, <2>3, <3>2, <1>5
  <2>5. QED
    BY <1>1, <1>8, <2>1, <2>3, <2>4
<1>11. ASSUME q # <<>>, Last(t) # Slash PROVE Last(q) # Slash
  <2>1. c >= 1 /\ n >= 1 /\ t[n] # Slash
    BY <1>1, <1>5, <1>7, <1>8, <1>11 DEF Last, n
  <2>2. n \in K
    BY <1>1, <1>4, <2>1
  <2>3. PICK l \in 1..c : a[l] = n
    BY <1>5, <2>2
  <2>4. l = c
    <3>1. SUFFICES ASSUME l < c PROVE FALSE
      BY <1>5
    <3>2. a[l] < a[c] /\ a[c] <= n
      BY <1>5, <1>6, <1>7, <2>1, <3>1
    <3>3. QED
      BY <1>1, <1>5, <1>7, <2>1, <2>3, <3>2
  <2>5. QED
    BY <1>8, <2>1, <2>3, <2>4, <1>5 DEF Last
<1>12. ASSUME Smooth(t) PROVE q = t
  <2> DEFINE f == [k \in 1..n |-> k]
  <2>1. K = 1..n
    <3>1. ASSUME NEW i \in 1..n, i > 1, t[i] = Slash, t[i - 1] = Slash PROVE FALSE
      <4>1. i - 1 \in 1..(Len(t) - 1) /\ {i - 1, (i - 1) + 1} \subseteq DOMAIN t /\ (i - 1) + 1 = i
        BY <1>1, <3>1 DEF n
      <4>2. Doubled(t, i - 1)
        BY <3>1, <4>1 DEF Doubled
      <4>3. QED
        BY <1>12, <4>1, <4>2 DEF Smooth
    <3>2. QED
      BY <1>2, <1>4, <3>1
  <2>2. f \in [1..n -> K] /\ (\A k, l \in 1..n : k < l => f[k] < f[l]) /\ \A i \in K : \E k \in 1..n : f[k] = i
    BY <2>1
  <2>3. f = a /\ n = c
    <3> HIDE DEF f
    <3>1. QED
      BY <1>1, <1>2, <2>2, AscendingOnly DEF a, c
  <2>4. q = [k \in 1..n |-> t[k]]
    BY <1>8, <2>3
  <2>5. QED
    BY <1>1, <2>4
<1>13. QED
  BY <1>8, <1>9, <1>10, <1>11, <1>12 DEF t, q

\* Of a path without empty folders, what goes before the first name is a slash or nothing.
LEMMA FinalOfSmooth ==
  ASSUME NEW q \in Seq(STRING), Smooth(q)
  PROVE  GetFinalPath(q) = IF q # <<>> /\ Head(q) = Slash THEN Tail(q) ELSE q
<1> DEFINE S == {i \in 1..Len(q) : \A j \in 1..i : q[j] = Slash}
<1>1. GetFinalPath(q) = SubSeq(q, Cardinality(S) + 1, Len(q)) /\ Len(q) \in Nat /\ DOMAIN q = 1..Len(q)
  BY DEF GetFinalPath
<1>2. CASE q # <<>> /\ Head(q) = Slash
  <2>1. Len(q) >= 1 /\ q[1] = Slash
    BY <1>2
  <2>2. S = {1}
    <3>1. 1 \in S
      BY <2>1
    <3>2. ASSUME NEW i \in S, i # 1 PROVE FALSE
      <4>1. i \in 1..Len(q) /\ i >= 2
        BY <3>2
      <4>2. 1 \in 1..i /\ 2 \in 1..i /\ q[1] = Slash /\ q[2] = Slash
        BY <3>2, <4>1
      <4>3. {1, 1 + 1} \subseteq DOMAIN q /\ 1 \in 1..(Len(q) - 1)
        BY <1>1, <4>1
      <4>4. Doubled(q, 1)
        BY <4>2, <4>3 DEF Doubled
      <4>5. QED
        BY <4>3, <4>4 DEF Smooth
    <3>3. QED
      BY <3>1, <3>2
  <2>3. Cardinality(S) = 1
    BY <2>2, FS_Singleton
  <2>4. GetFinalPath(q) = SubSeq(q, 2, Len(q))
    <3> HIDE DEF S
    <3>1. Cardinality(S) + 1 = 2
      BY <2>3
    <3>2. QED
      BY <1>1, <3>1
  <2>5. Tail(q) = SubSeq(q, 2, Len(q))
    BY <2>1
  <2>6. QED
    BY <1>2, <2>4, <2>5
<1>3. CASE ~(q # <<>> /\ Head(q) = Slash)
  <2>1. q # <<>> => q[1] # Slash
    BY <1>3
  <2>2. S = {}
    <3>1. ASSUME NEW i \in S PROVE FALSE
      <4>1. 1 \in 1..i /\ q # <<>>
        BY <3>1
      <4>2. q[1] = Slash
        BY <3>1, <4>1
      <4>3. QED
        BY <2>1, <4>1, <4>2
    <3>2. QED
      BY <3>1
  <2>3. Cardinality(S) = 0
    BY <2>2, FS_EmptySet
  <2>4. GetFinalPath(q) = SubSeq(q, 1, Len(q))
    <3> HIDE DEF S
    <3>1. Cardinality(S) + 1 = 1
      BY <2>3
    <3>2. QED
      BY <1>1, <3>1
  <2>5. SubSeq(q, 1, Len(q)) = q
    OBVIOUS
  <2>6. QED
    BY <1>3, <2>4, <2>5
<1>4. QED
  BY <1>2, <1>3

\* What the two spellings of the path of an upload come to.
LEMMA SpellingsAgree ==
  ASSUME NEW path \in Seq(STRING)
  PROVE  LET q == RemoveEmptyFolders(path)
         IN  /\ ~Doubled(path, 1) => q = GetFinalPath(q)
             /\ ~Doubled(path, Len(path) - 1) => GetFinalPath(RemoveEmptyFolders(q)) = GetFinalPath(q)
<1> DEFINE t == Trimmed(path)
           q == RemoveEmptyFolders(path)
           u == IF q # <<>> /\ Head(q) = Slash THEN Tail(q) ELSE q
<1>1. q \in Seq(STRING) /\ Smooth(q) /\ (q # <<>> => t # <<>> /\ q[1] = t[1])
      /\ (q # <<>> /\ Last(t) # Slash => Last(q) # Slash)
  BY CleanedEnds
<1>2. GetFinalPath(q) = u
  BY <1>1, FinalOfSmooth
<1> HIDE DEF t, q
<1>3. ASSUME ~Doubled(path, 1) PROVE q = GetFinalPath(q)
  <2>1. q # <<>> => q[1] # Slash
    BY <1>1, <1>3, TrimmedEnds DEF t
  <2>2. u = q
    BY <1>1, <2>1
  <2>3. QED
    BY <1>2, <2>2
<1>4. ASSUME ~Doubled(path, Len(path) - 1) PROVE GetFinalPath(RemoveEmptyFolders(q)) = GetFinalPath(q)
  <2>1. q # <<>> => Last(q) # Slash
    BY <1>1, <1>4, TrimmedEnds DEF t
  <2>2. Trimmed(q) = u
    BY <1>1, <2>1, TrimmedEnds
  <2>3. u \in Seq(STRING) /\ Smooth(u) /\ (u # <<>> => Head(u) # Slash)
    <3>1. CASE q # <<>> /\ Head(q) = Slash
      <4>1. u = Tail(q) /\ q[1] = Slash /\ Len(q) \in Nat /\ Len(q) >= 1
        BY <1>1, <3>1
      <4> HIDE DEF u
      <4>2. u \in Seq(STRING) /\ Len(u) = Len(q) - 1 /\ \A i \in 1..Len(u) : u[i] = q[i + 1]
        BY <1>1, <3>1, <4>1
      <4>3. DOMAIN u = 1..Len(u) /\ DOMAIN q = 1..Len(q)
        BY <1>1, <4>2
      <4>4. ASSUME NEW i \in 1..(Len(u) - 1), Doubled(u, i) PROVE FALSE
        <5>1. i \in Int /\ i \in 1..Len(u) /\ i + 1 \in 1..Len(u) /\ i + 1 \in 1..(Len(q) - 1)
          BY <4>1, <4>2
        <5>2. q[i + 1] = Slash /\ q[(i + 1) + 1] = Slash
          BY <4>2, <4>4, <5>1 DEF Doubled
        <5>3. {i + 1, (i + 1) + 1} \subseteq DOMAIN q
          BY <4>3, <5>1
        <5>4. QED
          BY <1>1, <5>1, <5>2, <5>3 DEF Doubled, Smooth
      <4>5. ASSUME u # <<>>, Head(u) = Slash PROVE FALSE
        <5>1. Len(u) >= 1 /\ u[1] = Slash
          BY <4>2, <4>5
        <5>2. q[1] = Slash /\ q[1 + 1] = Slash /\ {1, 1 + 1} \subseteq DOMAIN q /\ 1 \in 1..(Len(q) - 1)
          BY <4>1, <4>2, <4>3, <5>1
        <5>3. QED
          BY <1>1, <5>2 DEF Doubled, Smooth
      <4>6. QED
        BY <4>2, <4>4, <4>5 DEF Smooth
    <3>2. CASE ~(q # <<>> /\ Head(q) = Slash)
      <4>1. u = q
        BY <3>2
      <4>2. QED
        BY <1>1, <3>2, <4>1
    <3>3. QED
      BY <3>1, <3>2
  <2> HIDE DEF u
  <2>4. RemoveEmptyFolders(q) = u
    BY <1>1, <2>2, <2>3, CleanedEnds
  <2>5. GetFinalPath(u) = u
    BY <2>3, FinalOfSmooth
  <2>6. QED
    BY <1>2, <2>4, <2>5
<1>5. QED
  BY <1>3, <1>4 DEF q

\* An operation names its object in one of three ways or not at all.
LEMMA HowNamed == \A operation \in Requests : operation.path \in {"raw", "final", "clean", "none"}
<1> USE DEF Operation, Named, UploadOrUpdate, Vector, Voiding, Checked
<1> DEFINE P(operation) == operation.path \in {"raw", "final", "clean", "none"}
<1>1. P(ListBuckets) /\ P(GetBucket) /\ P(CreateBucket) /\ P(UpdateBucket) /\ P(EmptyBucket)
  BY DEF ListBuckets, GetBucket, CreateBucket, UpdateBucket, EmptyBucket
<1>2. P(DeleteBucket) /\ P(GetBucketLifecycle) /\ P(UpdateBucketLifecycle)
      /\ P(DeleteBucketLifecycle) /\ P(PurgeBucketCache)
  BY DEF DeleteBucket, GetBucketLifecycle, UpdateBucketLifecycle, DeleteBucketLifecycle,
         PurgeBucketCache
<1>3. P(Upload) /\ P(Update) /\ P(UploadToSignedUrl)
  BY DEF Upload, Update, UploadToSignedUrl
<1>4. P(CreateSignedUploadUrl) /\ P(CreateSignedUrl) /\ P(CreateSignedUrls) /\ P(Copy)
  BY DEF CreateSignedUploadUrl, CreateSignedUrl, CreateSignedUrls, Copy
<1>5. P(Move) /\ P(Info) /\ P(RemoveFiles) /\ P(PurgeCache) /\ P(ListFiles) /\ P(ListFilesV2)
  BY DEF Move, Info, RemoveFiles, PurgeCache, ListFiles, ListFilesV2
<1>6. P(Download) /\ P(AsStream) /\ P(Exists)
  BY DEF Download, AsStream, Exists
<1>7. P(CreateVectorBucket) /\ P(DeleteVectorBucket) /\ P(CreateIndex) /\ P(DeleteIndex)
  BY DEF CreateVectorBucket, DeleteVectorBucket, CreateIndex, DeleteIndex
<1>8. P(GetVectorBucket) /\ P(ListVectorBuckets) /\ P(GetIndex) /\ P(ListIndexes)
      /\ P(GetVectors) /\ P(QueryVectors)
  BY DEF GetVectorBucket, ListVectorBuckets, GetIndex, ListIndexes, GetVectors, QueryVectors
<1>9. P(PutVectors) /\ P(ListVectors) /\ P(DeleteVectors)
  BY DEF PutVectors, ListVectors, DeleteVectors
<1>10. P(CreateAnalyticsBucket) /\ P(ListAnalyticsBuckets) /\ P(DeleteAnalyticsBucket) /\ P(CatalogCall)
  BY DEF CreateAnalyticsBucket, ListAnalyticsBuckets, DeleteAnalyticsBucket, CatalogCall
<1> HIDE DEF P
<1>11. \A operation \in Requests : P(operation)
  BY <1>1, <1>2, <1>3, <1>4, <1>5, <1>6, <1>7, <1>8, <1>9, <1>10 DEF Requests, Operations
<1>12. QED
  BY <1>11 DEF P

\* An upload that has succeeded has written the object its cleaned path names.
Wrote(c) ==
  c.operation.path = "clean" /\ c.answer.how = "resolved" /\ c.answer.error = "null" =>
    GetFinalPath(RemoveEmptyFolders(c.path)) \in objects

UploadsInv == ChosenInv /\ \A i \in Calls : Wrote(call[i])

LEMMA UploadsStart == Init => UploadsInv
<1> SUFFICES ASSUME Init PROVE \A i \in Calls : Wrote(call[i])
  BY ChosenInit DEF UploadsInv
<1>1. NoCall.answer.error = "none"
  BY DEF NoCall, Answer
<1>2. QED
  BY <1>1 DEF Init, Wrote

\* Objects stay, and a call is answered once.
LEMMA UploadsStep == UploadsInv /\ [Next]_vars => UploadsInv'
<1> SUFFICES ASSUME UploadsInv, [Next]_vars PROVE \A i \in Calls : Wrote(call[i])'
  BY ChosenStep DEF UploadsInv
<1>1. ChosenInv /\ ChosenInv' /\ \A i \in Calls : Wrote(call[i]) /\ call[i] \in Record
  BY ChosenStep DEF UploadsInv, ChosenInv
<1>2. ASSUME objects \subseteq objects', NEW i \in Calls,
             \/ /\ call'[i].operation = call[i].operation /\ call'[i].path = call[i].path
                /\ call'[i].answer = call[i].answer
             \/ call'[i].answer.error # "null" \/ call'[i].answer.how # "resolved"
      PROVE  Wrote(call[i])'
  BY <1>1, <1>2 DEF Wrote
<1>3. ASSUME NEW k \in Clients, ThrowOnError(k), NEW i \in Calls PROVE Wrote(call[i])'
  BY <1>2, <1>3 DEF ThrowOnError
<1>4. ASSUME NEW k \in Clients, NEW made \in Clients, From(k, made), NEW i \in Calls PROVE Wrote(call[i])'
  BY <1>2, <1>4 DEF From
<1>5. ASSUME NEW j \in Calls, NEW c, call' = [call EXCEPT ![j] = c], UNCHANGED objects, NEW i \in Calls,
             \/ c.operation = call[j].operation /\ c.path = call[j].path /\ c.answer = call[j].answer
             \/ c.answer.error # "null" \/ c.answer.how # "resolved"
      PROVE  Wrote(call[i])'
  <2>1. call'[i] = IF i = j THEN c ELSE call[i]
    BY <1>1, <1>5 DEF ChosenInv
  <2>2. QED
    BY <1>2, <1>5, <2>1
<1>6. ASSUME NEW j \in Calls, NEW k \in Clients, Call(j, k), NEW i \in Calls PROVE Wrote(call[i])'
  <2>1. PICK operation \in Operations, path \in Paths :
          LET new == New(j, k, operation, path)
          IN  \/ call' = [call EXCEPT ![j] =
                   IF Lazy(operation) THEN [new EXCEPT !.stage = "built"]
                   ELSE [new EXCEPT !.stage = "sent", !.requests = 1]]
              \/ /\ operation.checks
                 /\ call' = [call EXCEPT ![j] =
                      [new EXCEPT !.stage = "settled", !.failed = "check",
                                  !.answer = Rejected(Failure("Error", 0))]]
    BY <1>6 DEF Call
  <2> DEFINE new == New(j, k, operation, path)
             built == [new EXCEPT !.stage = "built"]
             asked == [new EXCEPT !.stage = "sent", !.requests = 1]
             wrong == [new EXCEPT !.stage = "settled", !.failed = "check",
                                  !.answer = Rejected(Failure("Error", 0))]
  <2>2. PICK c \in {built, asked, wrong} : call' = [call EXCEPT ![j] = c]
    <3> HIDE DEF new
    <3>1. QED
      BY <2>1 DEF new
  <2>3. new.answer = Answer("none", "none") /\ new = [stage |-> "none", client |-> k, operation |-> operation, path |-> path,
            throws |-> client[k].throws, promised |-> FALSE, asked |-> client[k].throws, requests |-> 0,
            failed |-> "no", missing |-> FALSE, answer |-> Answer("none", "none")]
    BY <1>1, NewCall DEF Requests
  <2> HIDE DEF new
  <2>4. c.answer \in {Answer("none", "none"), Rejected(Failure("Error", 0))}
    BY <2>2, <2>3
  <2>5. c.answer.error # "null"
    BY <2>4 DEF Answer, Rejected, Failure
  <2>6. UNCHANGED objects
    BY <1>6 DEF Call
  <2>7. QED
    BY <1>5, <2>2, <2>5, <2>6
<1>7. ASSUME NEW l \in Calls, NEW j \in Calls, MakeStream(l, j), NEW i \in Calls PROVE Wrote(call[i])'
  <2> DEFINE new == New(j, call[l].client, AsStream, call[l].path)
             c   == [new EXCEPT !.stage = "built", !.throws = call[l].throws, !.asked = call[l].asked]
  <2>1. call' = [call EXCEPT ![j] = c] /\ UNCHANGED objects
    BY <1>7 DEF MakeStream
  <2>2. call[l].client \in Clients /\ call[l].path \in Paths \cup {<<>>} /\ AsStream \in Requests
    BY <1>1 DEF Record, Requests
  <2>3. new = [stage |-> "none", client |-> call[l].client, operation |-> AsStream, path |-> call[l].path,
            throws |-> client[call[l].client].throws, promised |-> FALSE, asked |-> client[call[l].client].throws,
            requests |-> 0, failed |-> "no", missing |-> FALSE, answer |-> Answer("none", "none")]
    BY <1>1, <2>2, NewCall
  <2> HIDE DEF new
  <2>4. c.answer = Answer("none", "none")
    BY <2>3
  <2>5. c.answer.error # "null"
    BY <2>4 DEF Answer
  <2> HIDE DEF c
  <2>6. QED
    BY <1>5, <2>1, <2>5
<1>8. ASSUME NEW j \in Calls, Await(j), NEW i \in Calls PROVE Wrote(call[i])'
  <2> DEFINE c == GetPromise(call[j])
  <2>1. call' = [call EXCEPT ![j] = c] /\ UNCHANGED objects
    BY <1>8 DEF Await
  <2>2. c.operation = call[j].operation /\ c.path = call[j].path /\ c.answer = call[j].answer
    BY <1>1 DEF GetPromise, Record
  <2> HIDE DEF c
  <2>3. QED
    BY <1>5, <2>1, <2>2
<1>9. ASSUME NEW j \in Calls, Respond(j), NEW i \in Calls PROVE Wrote(call[i])'
  <2> DEFINE operation == call[j].operation
             path      == call[j].path
  <2>1. PICK outcome \in Outcomes :
          /\ call' = [call EXCEPT ![j] =
               [call[j] EXCEPT !.stage = "settled", !.failed = How(operation, outcome),
                               !.missing = outcome.status \in {400, 404},
                               !.answer = Settled(operation, Throws(call[j]), Result(operation, outcome))]]
          /\ objects' = IF operation.path = "clean" /\ Successful(outcome.status)
                        THEN objects \cup {Target(operation, path)} ELSE objects
    BY <1>9 DEF Respond
  <2>2. objects \subseteq objects'
    BY <2>1
  <2>3. CASE i # j
    <3>1. call'[i] = call[i]
      BY <1>1, <2>1, <2>3 DEF ChosenInv
    <3>2. QED
      BY <1>2, <2>2, <3>1
  <2>4. CASE i = j
    <3> DEFINE failed  == How(operation, outcome)
               missing == outcome.status \in {400, 404}
               reply   == Settled(operation, Throws(call[j]), Result(operation, outcome))
               c       == [call[j] EXCEPT !.stage = "settled", !.failed = failed, !.missing = missing,
                                          !.answer = reply]
    <3>1. call'[i] = c
      BY <1>1, <2>1, <2>4 DEF ChosenInv
    <3> HIDE DEF failed, missing, reply
    <3>2. c.operation = operation /\ c.path = path /\ c.failed = failed /\ c.stage = "settled"
      BY <1>1 DEF Record
    <3> HIDE DEF c
    <3>3. CASE operation.path = "clean" /\ Successful(outcome.status)
      <4>1. GetFinalPath(RemoveEmptyFolders(path)) \in objects'
        BY <2>1, <3>3 DEF Target
      <4>2. QED
        BY <3>1, <3>2, <4>1 DEF Wrote
    <3>4. CASE operation.path = "clean" /\ ~Successful(outcome.status)
      <4>1. failed \in Failures
        BY <3>4 DEF How, failed, Failures
      <4>2. Chosen(call[i])'
        BY <1>1 DEF ChosenInv
      <4>3. call'[i].answer.how = "rejected" \/ call'[i].answer.error # "null"
        BY <3>1, <3>2, <4>1, <4>2 DEF Chosen
      <4>4. QED
        BY <4>3 DEF Wrote
    <3>5. CASE operation.path # "clean"
      BY <3>1, <3>2, <3>5 DEF Wrote
    <3>6. QED
      BY <3>3, <3>4, <3>5
  <2>5. QED
    BY <2>3, <2>4
<1>10. CASE UNCHANGED vars
  BY <1>1, <1>2, <1>10 DEF vars
<1>11. QED
  BY <1>3, <1>4, <1>6, <1>7, <1>8, <1>9, <1>10 DEF Next

\* Whatever the paths of the uploads are, however many empty folders are in them and
\* whatever the server answers meanwhile, the path an upload answers with
\* (StorageFileApi.ts, uploadOrUpdate and _removeEmptyFolders) names the object it
\* has written for every other method, but for slashes doubled at its ends.
THEOREM UploadsAreFound == Spec => []PathsAgree
<1>1. ASSUME UploadsInv, NEW i \in Calls, call[i].operation.path = "clean", call[i].answer.how = "resolved",
             call[i].answer.error = "null", NEW operation \in Operations,
             operation.path # "none", operation.path = "raw" => ~Doubled(call[i].path, 1),
             operation.path = "clean" => ~Doubled(call[i].path, Len(call[i].path) - 1)
      PROVE  Target(operation, AnsweredPath(call[i].operation, call[i].path)) \in objects
  <2> DEFINE path == call[i].path
             q    == RemoveEmptyFolders(path)
  <2>1. call[i] \in Record
    BY <1>1 DEF UploadsInv, ChosenInv
  <2>2. path \in Seq(STRING)
    <3>1. path \in Paths \/ path = <<>>
      BY <2>1 DEF Record
    <3>2. <<>> \in Seq(STRING)
      OBVIOUS
    <3>3. QED
      BY <3>1, <3>2, PathsAssumption
  <2>3. GetFinalPath(q) \in objects /\ AnsweredPath(call[i].operation, path) = q
    BY <1>1 DEF UploadsInv, Wrote, AnsweredPath
  <2>4. operation.path \in {"raw", "final", "clean"}
    BY <1>1, HowNamed DEF Requests
  <2>5. Target(operation, q) = GetFinalPath(q)
    <3>1. /\ operation.path = "raw" => q = GetFinalPath(q)
          /\ operation.path = "clean" => GetFinalPath(RemoveEmptyFolders(q)) = GetFinalPath(q)
      BY <1>1, <2>2, SpellingsAgree
    <3> HIDE DEF q, path
    <3>2. QED
      BY <2>4, <3>1 DEF Target
  <2>6. QED
    BY <2>3, <2>5
<1>2. UploadsInv => PathsAgree
  BY <1>1 DEF PathsAgree
<1>3. QED
  BY <1>2, UploadsStart, UploadsStep, PTL DEF Spec

-----------------------------------------------------------------------------
(* SqliteSession: rows.                                                     *)

\* The three readings of a parameter are one, and none is a marker of a blob.
LEMMA Readings ==
  ASSUME NEW v
  PROVE  MarshalValue(v) = Meant(v) /\ ParseSingleParam(v) = Meant(v) /\ "at" \notin DOMAIN Meant(v)
<1>1. CASE v.js = "boolean"
  BY <1>1 DEF MarshalValue, ParseSingleParam, Meant
<1>2. CASE v.js \in {"number", "string"}
  BY <1>2 DEF MarshalValue, ParseSingleParam, Meant
<1>3. CASE v.js = "ArrayBuffer"
  BY <1>3 DEF MarshalValue, ParseSingleParam, Meant
<1>4. CASE v.js \notin {"boolean", "number", "string", "ArrayBuffer"}
  BY <1>4 DEF MarshalValue, ParseSingleParam, Meant, NullCell
<1>5. QED
  BY <1>1, <1>2, <1>3, <1>4

\* What is written is what was meant.
LEMMA WrittenIsMeant == Written = MeantRows
<1>1. ASSUME NEW i \in 1..Len(table)
      PROVE  /\ ParseParams(table[i], Columns) = [c \in Range(Columns) |-> Meant(BindParams(table[i], Columns)[c])]
             /\ MarshalParams(table[i], Columns) = [c \in Range(Columns) |-> Meant(BindParams(table[i], Columns)[c])]
  <2> DEFINE b == BindParams(table[i], Columns)
  <2>1. ParseParams(table[i], Columns) = [c \in Range(Columns) |-> ParseSingleParam(b[c])]
    BY DEF ParseParams
  <2>2. MarshalParams(table[i], Columns) = [c \in Range(Columns) |-> MarshalValue(b[c])]
    BY DEF MarshalParams
  <2> HIDE DEF b
  <2>3. \A c \in Range(Columns) : ParseSingleParam(b[c]) = Meant(b[c]) /\ MarshalValue(b[c]) = Meant(b[c])
    BY Readings
  <2>4. ParseParams(table[i], Columns) = [c \in Range(Columns) |-> Meant(b[c])]
    BY <2>1, <2>3
  <2>5. MarshalParams(table[i], Columns) = [c \in Range(Columns) |-> Meant(b[c])]
    BY <2>2, <2>3
  <2>6. QED
    BY <2>4, <2>5 DEF b
<1>2. QED
  BY <1>1 DEF Written, MeantRows

\* A blob is where its marker says.
LEMMA BlobsFound ==
  ASSUME NEW n \in Nat, NEW m \in Nat, NEW grid, DOMAIN grid = 1..n, \A r \in 1..n : DOMAIN grid[r] = 1..m
  PROVE  /\ Len(Blobs(grid)) \in Nat
         /\ Len(Blobs(grid)) = 0 => \A r \in 1..n, c \in 1..m : ~IsBlob(grid[r][c])
         /\ \A r \in 1..n, c \in 1..m :
              IsBlob(grid[r][c]) => Blobs(grid)[Before(grid, <<r, c>>) + 1] = grid[r][c]
<1> DEFINE B == BlobsOf(grid)
           Smaller(p) == {b \in B : b[1] < p[1] \/ (b[1] = p[1] /\ b[2] < p[2])}
<1>1. B \subseteq (1..n) \X (1..m)
  BY DEF BlobsOf
<1>2. \A r \in 1..n, c \in 1..m : IsBlob(grid[r][c]) <=> <<r, c>> \in B
  BY DEF BlobsOf
<1>3. IsFiniteSet(B) /\ Cardinality(B) \in Nat
  <2>1. IsFiniteSet(1..n) /\ IsFiniteSet(1..m)
    BY FS_Interval
  <2>2. IsFiniteSet((1..n) \X (1..m))
    BY <2>1, FS_Product
  <2>3. QED
    BY <1>1, <2>2, FS_Subset, FS_CardinalityType
<1>4. \A p \in B : p[1] \in Int /\ p[2] \in Int /\ p = <<p[1], p[2]>>
  BY <1>1
<1> HIDE DEF B
<1>5. \A p : Before(grid, p) = Cardinality(Smaller(p))
  BY DEF Before, B
<1>6. ASSUME NEW p \in B
      PROVE  /\ Before(grid, p) \in 0..(Cardinality(B) - 1)
             /\ IsFiniteSet(Smaller(p) \cup {p}) /\ Cardinality(Smaller(p) \cup {p}) = Before(grid, p) + 1
  <2>1. Smaller(p) \in SUBSET B /\ p \notin Smaller(p) /\ Smaller(p) \cup {p} \in SUBSET B
    BY <1>4
  <2> HIDE DEF Smaller
  <2>2. IsFiniteSet(Smaller(p)) /\ Cardinality(Smaller(p)) \in Nat
    BY <1>3, <2>1, FS_Subset, FS_CardinalityType
  <2>3. IsFiniteSet(Smaller(p) \cup {p}) /\ Cardinality(Smaller(p) \cup {p}) = Cardinality(Smaller(p)) + 1
    BY <2>1, <2>2, FS_AddElement
  <2>4. Cardinality(Smaller(p) \cup {p}) <= Cardinality(B)
    BY <1>3, <2>1, FS_Subset
  <2>5. QED
    BY <1>3, <1>5, <2>2, <2>3, <2>4
<1>14. \A p \in B : Before(grid, p) \in Nat /\ Before(grid, p) + 1 <= Cardinality(B)
  <2>1. \A p \in B : Before(grid, p) \in 0..(Cardinality(B) - 1)
    BY <1>6
  <2>2. QED
    BY <1>3, <2>1
<1>7. ASSUME NEW p \in B, NEW q \in B, p[1] < q[1] \/ (p[1] = q[1] /\ p[2] < q[2])
      PROVE  Before(grid, p) < Before(grid, q)
  <2>1. \A b \in B : (b[1] < p[1] \/ (b[1] = p[1] /\ b[2] < p[2])) =>
                       (b[1] < q[1] \/ (b[1] = q[1] /\ b[2] < q[2]))
    BY <1>4, <1>7
  <2>2. Smaller(p) \cup {p} \in SUBSET Smaller(q)
    BY <1>7, <2>1
  <2>3. IsFiniteSet(Smaller(q))
    BY <1>3, FS_Subset
  <2> HIDE DEF Smaller
  <2>4. Cardinality(Smaller(p) \cup {p}) <= Cardinality(Smaller(q))
    BY <2>2, <2>3, FS_Subset
  <2>5. Cardinality(Smaller(p) \cup {p}) = Before(grid, p) + 1
    BY <1>6
  <2>6. Before(grid, p) + 1 <= Before(grid, q)
    BY <1>5, <2>4, <2>5
  <2>7. QED
    BY <1>14, <2>6
<1>8. ASSUME NEW p \in B, NEW q \in B, Before(grid, p) = Before(grid, q) PROVE p = q
  <2>1. Before(grid, p) \in Int /\ Before(grid, q) \in Int
    BY <1>14
  <2>2. ~(p[1] < q[1] \/ (p[1] = q[1] /\ p[2] < q[2]))
    BY <1>7, <1>8, <2>1
  <2>3. ~(q[1] < p[1] \/ (q[1] = p[1] /\ q[2] < p[2]))
    BY <1>7, <1>8, <2>1
  <2>4. p[1] = q[1] /\ p[2] = q[2]
    BY <1>4, <2>2, <2>3
  <2>5. QED
    BY <1>4, <2>4
<1>9. Blobs(grid) = [k \in 1..Cardinality(B) |->
                       LET p == CHOOSE b \in B : Before(grid, b) = k - 1 IN grid[p[1]][p[2]]]
  BY DEF Blobs, B
<1>10. Len(Blobs(grid)) = Cardinality(B)
  BY <1>3, <1>9
<1>11. ASSUME NEW r \in 1..n, NEW c \in 1..m, IsBlob(grid[r][c])
       PROVE  Blobs(grid)[Before(grid, <<r, c>>) + 1] = grid[r][c]
  <2> DEFINE p == <<r, c>>
             k == Before(grid, p) + 1
             b == CHOOSE b \in B : Before(grid, b) = k - 1
  <2>1. p \in B
    BY <1>2, <1>11
  <2>2. k \in 1..Cardinality(B) /\ k - 1 = Before(grid, p)
    BY <1>3, <1>14, <2>1
  <2>3. b \in B /\ Before(grid, b) = k - 1
    BY <2>1, <2>2
  <2>4. b = p
    BY <1>8, <2>1, <2>2, <2>3
  <2>5. Blobs(grid)[k] = grid[b[1]][b[2]]
    BY <1>9, <2>2
  <2>6. Blobs(grid)[k] = grid[p[1]][p[2]]
    <3> HIDE DEF b, k
    <3>1. QED
      BY <2>4, <2>5
  <2>7. p[1] = r /\ p[2] = c
    OBVIOUS
  <2>8. QED
    BY <2>6, <2>7
<1>12. Cardinality(B) = 0 => \A r \in 1..n, c \in 1..m : ~IsBlob(grid[r][c])
  BY <1>2, <1>3, FS_EmptySet
<1>13. QED
  BY <1>3, <1>10, <1>11, <1>12

\* A grid of n rows with no marker in it.
IsGrid(grid, n, columns) ==
  /\ grid = [r \in 1..n |-> grid[r]]
  /\ \A r \in 1..n : grid[r] = [c \in 1..Len(columns) |-> grid[r][c]]
  /\ \A r \in 1..n, c \in 1..Len(columns) : "at" \notin DOMAIN grid[r][c]

\* Filled in again, the text is what it was made of.
LEMMA Rehydrated ==
  ASSUME NEW n \in Nat, NEW columns \in Seq(STRING), NEW grid, IsGrid(grid, n, columns),
         NEW r \in 1..n, NEW c \in 1..Len(columns)
  PROVE  /\ Hydrated(Marked(grid)[r][c], Blobs(grid)) = grid[r][c]
         /\ Len(Blobs(grid)) \in Nat
         /\ Len(Blobs(grid)) = 0 => Marked(grid)[r][c] = grid[r][c]
<1>1. /\ Len(columns) \in Nat /\ DOMAIN grid = 1..n /\ (\A i \in 1..n : DOMAIN grid[i] = 1..Len(columns))
      /\ \A i \in 1..n, j \in 1..Len(columns) : "at" \notin DOMAIN grid[i][j]
  BY DEF IsGrid
<1>2. /\ Len(Blobs(grid)) \in Nat
      /\ Len(Blobs(grid)) = 0 => \A i \in 1..n, j \in 1..Len(columns) : ~IsBlob(grid[i][j])
      /\ \A i \in 1..n, j \in 1..Len(columns) :
           IsBlob(grid[i][j]) => Blobs(grid)[Before(grid, <<i, j>>) + 1] = grid[i][j]
  <2> DEFINE m == Len(columns)
  <2>1. m \in Nat /\ DOMAIN grid = 1..n /\ \A i \in 1..n : DOMAIN grid[i] = 1..m
    BY <1>1
  <2>2. QED
    <3> HIDE DEF m
    <3>1. /\ Len(Blobs(grid)) \in Nat
          /\ Len(Blobs(grid)) = 0 => \A i \in 1..n, j \in 1..m : ~IsBlob(grid[i][j])
          /\ \A i \in 1..n, j \in 1..m :
               IsBlob(grid[i][j]) => Blobs(grid)[Before(grid, <<i, j>>) + 1] = grid[i][j]
      BY <2>1, BlobsFound
    <3>2. QED
      BY <3>1 DEF m
<1>3. Marked(grid)[r][c] = IF IsBlob(grid[r][c]) THEN [at |-> Before(grid, <<r, c>>)] ELSE grid[r][c]
  BY <1>1 DEF Marked
<1>4. CASE IsBlob(grid[r][c])
  <2>1. Hydrated([at |-> Before(grid, <<r, c>>)], Blobs(grid)) = Blobs(grid)[Before(grid, <<r, c>>) + 1]
    BY DEF Hydrated
  <2>2. QED
    BY <1>2, <1>3, <1>4, <2>1
<1>5. CASE ~IsBlob(grid[r][c])
  <2>1. Hydrated(grid[r][c], Blobs(grid)) = grid[r][c]
    BY <1>1 DEF Hydrated
  <2>2. QED
    BY <1>2, <1>3, <1>5, <2>1
<1>6. QED
  BY <1>4, <1>5

\* The last column of a name.
LastOf(columns, name) ==
  CHOOSE i \in DOMAIN columns : columns[i] = name /\ \A j \in DOMAIN columns : columns[j] = name => j <= i

LEMMA HasLast ==
  ASSUME NEW columns \in Seq(STRING), NEW name \in Range(columns)
  PROVE  LastOf(columns, name) \in 1..Len(columns)
<1> DEFINE m == Len(columns)
           S == {i \in 1..m : columns[i] = name}
           a == Ascending(S)[Cardinality(S)]
<1>1. m \in Nat /\ DOMAIN columns = 1..m
  OBVIOUS
<1>2. S \in SUBSET (1..m) /\ S # {} /\ S \subseteq Int
  BY <1>1 DEF Range
<1>3. \A i \in DOMAIN columns : i \in S <=> columns[i] = name
  BY <1>1
<1> HIDE DEF m, S
<1>4. IsFiniteSet(S) /\ Cardinality(S) \in Nat /\ Cardinality(S) # 0
  BY <1>1, <1>2, PlaceOf, FS_EmptySet
<1>5. Cardinality(S) \in 1..Cardinality(S)
  BY <1>4
<1>6. a \in S
  BY <1>1, <1>2, <1>5, AscendingAt
<1>7. ASSUME NEW i \in S PROVE i <= a
  <2> DEFINE k == Place(S, i) + 1
  <2>1. k \in 1..Cardinality(S) /\ Ascending(S)[k] = i
    BY <1>1, <1>2, AscendingAt
  <2> HIDE DEF k
  <2>2. k = Cardinality(S) \/ k < Cardinality(S)
    BY <1>4, <2>1
  <2>3. CASE k < Cardinality(S)
    <3>1. Ascending(S)[k] < a
      BY <1>1, <1>2, <1>5, <2>1, <2>3, Ascends
    <3> HIDE DEF a
    <3>2. QED
      BY <1>2, <1>6, <2>1, <3>1
  <2>4. CASE k = Cardinality(S)
    BY <1>2, <2>1, <2>4
  <2>5. QED
    BY <2>2, <2>3, <2>4
<1> HIDE DEF a
<1>8. a \in DOMAIN columns /\ columns[a] = name /\ \A j \in DOMAIN columns : columns[j] = name => j <= a
  BY <1>1, <1>2, <1>3, <1>6, <1>7
<1>9. LastOf(columns, name) \in DOMAIN columns
  BY <1>8 DEF LastOf
<1>10. QED
  BY <1>1, <1>9 DEF m

\* The text made of a grid, and what its rows are as objects.
TextOf(grid, columns) == [cells |-> Marked(grid), columns |-> columns, blobs |-> Blobs(grid)]

ObjectOf(row, columns) == [name \in Range(columns) |-> row[LastOf(columns, name)]]

ObjectsIn(grid, n, columns) == [r \in 1..n |-> ObjectOf(grid[r], columns)]

ArraysIn(grid, columns) == [columns |-> columns, rows |-> grid]

\* The text of a grid is read back as the grid.
LEMMA ReadBack ==
  ASSUME NEW columns \in Seq(STRING), NEW n \in Nat, NEW grid, IsGrid(grid, n, columns)
  PROVE  /\ ParseArrayResult(TextOf(grid, columns)) = ArraysIn(grid, columns)
         /\ ParseSelectResult(TextOf(grid, columns)) = ObjectsIn(grid, n, columns)
<1> DEFINE json   == TextOf(grid, columns)
           m      == Len(columns)
           blobs  == Blobs(grid)
           marked == Marked(grid)
<1>1. m \in Nat /\ DOMAIN columns = 1..m
  OBVIOUS
<1>2. /\ DOMAIN grid = 1..n /\ \A r \in 1..n : DOMAIN grid[r] = 1..m
      /\ grid = [r \in 1..n |-> grid[r]]
      /\ \A r \in 1..n : grid[r] = [c \in 1..m |-> grid[r][c]]
      /\ \A r \in 1..n, c \in 1..m : "at" \notin DOMAIN grid[r][c]
  BY DEF IsGrid
<1>3. DOMAIN marked = 1..n /\ \A r \in 1..n : DOMAIN marked[r] = 1..m
  BY <1>2 DEF Marked
<1>4. \A r \in 1..n, c \in 1..m : /\ Hydrated(marked[r][c], blobs) = grid[r][c]
                                 /\ Len(blobs) \in Nat /\ (Len(blobs) = 0 => marked[r][c] = grid[r][c])
  <2> TAKE r \in 1..n, c \in 1..m
  <2>1. QED
    BY Rehydrated
<1>5. json.cells = marked /\ json.columns = columns /\ json.blobs = blobs
  BY DEF TextOf
<1> HIDE DEF json, blobs, marked
<1>6. ParseArrayResult(json) = [columns |-> columns, rows |-> grid]
  <2>1. ParseArrayResult(json) =
          [columns |-> columns, rows |-> [r \in 1..n |-> [c \in DOMAIN marked[r] |-> Hydrated(marked[r][c], blobs)]]]
    BY <1>3, <1>5 DEF ParseArrayResult
  <2>2. \A r \in 1..n : [c \in DOMAIN marked[r] |-> Hydrated(marked[r][c], blobs)] = grid[r]
    <3> TAKE r \in 1..n
    <3>1. \A c \in 1..m : Hydrated(marked[r][c], blobs) = grid[r][c]
      BY <1>4
    <3>2. [c \in DOMAIN marked[r] |-> Hydrated(marked[r][c], blobs)] = [c \in 1..m |-> grid[r][c]]
      BY <1>3, <3>1
    <3>3. QED
      BY <1>2, <3>2
  <2>3. [r \in 1..n |-> [c \in DOMAIN marked[r] |-> Hydrated(marked[r][c], blobs)]] = [r \in 1..n |-> grid[r]]
    BY <2>2
  <2>4. QED
    BY <1>2, <2>1, <2>3
<1>7. \A name \in Range(columns) : LastOf(columns, name) \in 1..m
  BY HasLast
<1>8. ASSUME NEW r \in 1..n
      PROVE  (LET object == Object(json.columns, json.cells[r])
              IN  IF Len(json.blobs) > 0 THEN HydrateBlobs(object, json.blobs) ELSE object)
             = [name \in Range(columns) |-> grid[r][LastOf(columns, name)]]
  <2> DEFINE object == Object(columns, marked[r])
             wanted == [name \in Range(columns) |-> grid[r][LastOf(columns, name)]]
  <2>1. object = [name \in Range(columns) |-> marked[r][LastOf(columns, name)]]
    BY DEF Object, LastOf
  <2>2. CASE Len(blobs) > 0
    <3>1. HydrateBlobs(object, blobs) = [name \in Range(columns) |-> Hydrated(marked[r][LastOf(columns, name)], blobs)]
      BY <2>1 DEF HydrateBlobs
    <3>2. \A name \in Range(columns) :
            Hydrated(marked[r][LastOf(columns, name)], blobs) = grid[r][LastOf(columns, name)]
      BY <1>4, <1>7
    <3>3. HydrateBlobs(object, blobs) = wanted
      BY <3>1, <3>2
    <3> HIDE DEF object, wanted
    <3>4. QED
      BY <1>5, <2>2, <3>3 DEF object, wanted
  <2>3. CASE ~(Len(blobs) > 0)
    <3>1. \A name \in Range(columns) : marked[r][LastOf(columns, name)] = grid[r][LastOf(columns, name)]
      <4> TAKE name \in Range(columns)
      <4>1. Len(blobs) \in Nat /\ (Len(blobs) = 0 => marked[r][LastOf(columns, name)] = grid[r][LastOf(columns, name)])
        BY <1>4, <1>7
      <4>2. QED
        BY <2>3, <4>1
    <3>2. object = wanted
      BY <2>1, <3>1
    <3> HIDE DEF object, wanted
    <3>3. QED
      BY <1>5, <2>3, <3>2 DEF object, wanted
  <2>4. QED
    BY <2>2, <2>3
<1>9. ParseSelectResult(json) = [r \in 1..n |-> [name \in Range(columns) |-> grid[r][LastOf(columns, name)]]]
  <2> DEFINE Read(r) == LET object == Object(json.columns, json.cells[r])
                        IN  IF Len(json.blobs) > 0 THEN HydrateBlobs(object, json.blobs) ELSE object
             Want(r) == [name \in Range(columns) |-> grid[r][LastOf(columns, name)]]
  <2>1. ParseSelectResult(json) = [r \in 1..n |-> Read(r)]
    BY <1>3, <1>5 DEF ParseSelectResult
  <2>2. \A r \in 1..n : Read(r) = Want(r)
    BY <1>8
  <2> HIDE DEF Read, Want
  <2>3. ParseSelectResult(json) = [r \in 1..n |-> Want(r)]
    BY <2>1, <2>2
  <2>4. QED
    BY <2>3 DEF Want
<1>10. QED
  BY <1>6, <1>9 DEF json, ObjectOf, ObjectsIn, ArraysIn

\* The rows a query wants, as objects and as arrays.
ObjectsOf(columns, rows) ==
  [r \in 1..Len(rows) |-> [name \in Range(columns) |-> rows[r][columns[LastOf(columns, name)]]]]

ArraysOf(columns, rows) == [r \in 1..Len(rows) |-> [c \in 1..Len(columns) |-> rows[r][columns[c]]]]

LEMMA WantedOf ==
  ASSUME NEW columns, NEW rows
  PROVE  /\ Wanted("select", columns, rows) = [rows |-> ObjectsOf(columns, rows)]
         /\ Wanted("get", columns, rows) =
              IF rows = <<>> THEN NoRow ELSE [row |-> ObjectsOf(columns, rows)[1]]
         /\ Wanted("selectArray", columns, rows) = [columns |-> columns, rows |-> ArraysOf(columns, rows)]
         /\ Wanted("getArray", columns, rows) =
              [columns |-> columns, rows |-> IF rows = <<>> THEN rows ELSE <<ArraysOf(columns, rows)[1]>>]
  BY DEF Wanted, ObjectsOf, ArraysOf, LastOf

\* A query whose cells are no markers of blobs.
IsQuery(q, columns, n, rows) ==
  /\ rows = [r \in 1..n |-> rows[r]]
  /\ \A r \in 1..n, c \in 1..Len(columns) : "at" \notin DOMAIN rows[r][columns[c]]
  /\ q.columns = columns /\ q.rows = rows /\ q.fails \in BOOLEAN

\* A query whose cells are no markers is answered with its rows, whole or cut to the first.
LEMMA AnswersOf ==
  ASSUME NEW columns \in Seq(STRING), NEW n \in Nat, NEW rows, NEW q, IsQuery(q, columns, n, rows)
  PROVE  /\ ParseSelectResult(ResultAsJson(q, FALSE)) = ObjectsOf(columns, rows)
         /\ ParseSelectResult(ResultAsJson(q, TRUE)) = Cut(ObjectsOf(columns, rows))
         /\ ParseArrayResult(ResultAsJson(q, FALSE)) = ArraysIn(ArraysOf(columns, rows), columns)
         /\ ParseArrayResult(ResultAsJson(q, TRUE)) = ArraysIn(Cut(ArraysOf(columns, rows)), columns)
         /\ Len(ObjectsOf(columns, rows)) = n /\ Len(ArraysOf(columns, rows)) = n /\ Len(rows) = n
<1> DEFINE m == Len(columns)
           O == ObjectsOf(columns, rows)
           A == ArraysOf(columns, rows)
           Json(grid) == TextOf(grid, columns)
           Row(r) == ObjectOf(A[r], columns)
<1>1. m \in Nat /\ Len(rows) = n /\ DOMAIN rows = 1..n
  BY DEF IsQuery
<1>20. \A r \in 1..n, c \in 1..m : "at" \notin DOMAIN rows[r][columns[c]]
  BY DEF IsQuery
<1>21. q.columns = columns /\ q.rows = rows
  BY DEF IsQuery
<1>2. Grid(q) = A
  BY <1>21 DEF Grid, ArraysOf
<1>3. /\ DOMAIN A = 1..n /\ Len(A) = n /\ A = [r \in 1..n |-> A[r]]
      /\ \A r \in 1..n : A[r] = [c \in 1..m |-> A[r][c]]
      /\ \A r \in 1..n, c \in 1..m : A[r][c] = rows[r][columns[c]]
  BY <1>1 DEF ArraysOf
<1>4. \A name \in Range(columns) : LastOf(columns, name) \in 1..m
  BY HasLast
<1>5. O = [r \in 1..n |-> Row(r)] /\ Len(O) = n
  <2>1. \A r \in 1..n : [name \in Range(columns) |-> rows[r][columns[LastOf(columns, name)]]] = Row(r)
    BY <1>3, <1>4 DEF ObjectOf
  <2> HIDE DEF Row
  <2>2. QED
    BY <1>1, <2>1 DEF ObjectsOf
<1>6. ResultAsJson(q, FALSE) = Json(A) /\ ResultAsJson(q, TRUE) = Json(Cut(A))
  BY <1>2, <1>21 DEF ResultAsJson, TextOf
<1>7. \A r \in 1..n, c \in 1..m : "at" \notin DOMAIN A[r][c]
  BY <1>3, <1>20
<1> HIDE DEF A, O
<1>8. ParseSelectResult(Json(A)) = O /\ ParseArrayResult(Json(A)) = [columns |-> columns, rows |-> A]
  <2>1. IsGrid(A, n, columns)
    BY <1>3, <1>7 DEF IsGrid
  <2>2. ParseSelectResult(Json(A)) = ObjectsIn(A, n, columns) /\ ParseArrayResult(Json(A)) = ArraysIn(A, columns)
    BY <2>1, ReadBack
  <2>3. QED
    BY <1>5, <2>2 DEF ObjectsIn, ArraysIn
<1>9. ParseSelectResult(Json(Cut(A))) = Cut(O) /\ ParseArrayResult(Json(Cut(A))) = [columns |-> columns, rows |-> Cut(A)]
  <2>1. CASE n = 0
    <3>1. A = <<>> /\ O = <<>>
      BY <1>3, <1>5, <2>1
    <3>2. Cut(A) = A /\ Cut(O) = O
      BY <3>1 DEF Cut
    <3> HIDE DEF Json
    <3>3. QED
      BY <1>8, <3>2
  <2>2. CASE n # 0
    <3> DEFINE one == <<A[1]>>
    <3>1. n >= 1 /\ A # <<>> /\ O # <<>> /\ 1 \in 1..n
      BY <1>3, <1>5, <2>2
    <3>2. Cut(A) = one /\ Cut(O) = <<O[1]>> /\ O[1] = Row(1)
      BY <1>5, <3>1 DEF Cut
    <3>3. /\ DOMAIN one = 1..1 /\ one = [r \in 1..1 |-> one[r]] /\ one[1] = A[1]
          /\ \A r \in 1..1 : one[r] = A[1]
      OBVIOUS
    <3>4. /\ \A r \in 1..1 : one[r] = [c \in 1..m |-> one[r][c]]
          /\ \A r \in 1..1, c \in 1..m : "at" \notin DOMAIN one[r][c]
      BY <1>3, <1>7, <3>1, <3>3
    <3> HIDE DEF Row, one
    <3>5. IsGrid(one, 1, columns)
      BY <3>3, <3>4 DEF IsGrid
    <3>6. ParseArrayResult(Json(one)) = ArraysIn(one, columns) /\ ParseSelectResult(Json(one)) = ObjectsIn(one, 1, columns)
      BY <3>5, ReadBack
    <3>7. [r \in 1..1 |-> ObjectOf(one[r], columns)] = <<Row(1)>>
      <4>1. \A r \in 1..1 : ObjectOf(one[r], columns) = Row(1)
        BY <3>3 DEF Row
      <4> HIDE DEF Row
      <4>2. QED
        BY <4>1
    <3>8. QED
      BY <3>2, <3>6, <3>7 DEF ObjectsIn, ArraysIn
  <2>3. QED
    BY <2>1, <2>2
<1>10. QED
  BY <1>1, <1>3, <1>5, <1>6, <1>8, <1>9 DEF A, O, ArraysIn

\* What the native layers answer.
LEMMA ReadsOf ==
  ASSUME NEW columns \in Seq(STRING), NEW n \in Nat, NEW rows, NEW q, IsQuery(q, columns, n, rows)
  PROVE  /\ q.fails => /\ NativeRead(1, q) = FailedRead /\ NativeRead(2, q) = FailedRead
                       /\ IOSSelect(q) = FailedRead /\ IOSSelectArray(q) = FailedRead
                       /\ \A m \in Methods : IOSRead(m, q) = FailedRead
         /\ ~q.fails => /\ NativeRead(1, q) = Wanted("select", columns, rows)
                        /\ NativeRead(2, q) = Wanted("selectArray", columns, rows)
                        /\ NativeRead(3, q) = Wanted("get", columns, rows)
                        /\ NativeRead(4, q) = Wanted("getArray", columns, rows)
                        /\ IOSSelect(q) = Wanted("select", columns, rows)
                        /\ IOSSelectArray(q) = Wanted("selectArray", columns, rows)
                        /\ \A m \in Methods : IOSRead(m, q) = Wanted(m, columns, rows)
                        /\ FirstRow(ObjectsOf(columns, rows)) = Wanted("get", columns, rows)
                        /\ FirstOnly(Wanted("selectArray", columns, rows)) = Wanted("getArray", columns, rows)
<1> DEFINE O == ObjectsOf(columns, rows)
           A == ArraysOf(columns, rows)
<1>1. CASE q.fails
  <2>1. NativeRead(1, q) = FailedRead /\ NativeRead(2, q) = FailedRead
    BY <1>1 DEF NativeRead
  <2>2. IOSSelect(q) = FailedRead /\ IOSSelectArray(q) = FailedRead /\ \A m \in Methods : IOSRead(m, q) = FailedRead
    BY <1>1 DEF IOSSelect, IOSSelectArray, IOSRead
  <2>3. QED
    BY <1>1, <2>1, <2>2
<1>2. CASE ~q.fails
  <2>1. /\ ParseSelectResult(ResultAsJson(q, FALSE)) = O
        /\ ParseSelectResult(ResultAsJson(q, TRUE)) = Cut(O)
        /\ ParseArrayResult(ResultAsJson(q, FALSE)) = [columns |-> columns, rows |-> A]
        /\ ParseArrayResult(ResultAsJson(q, TRUE)) = [columns |-> columns, rows |-> Cut(A)]
        /\ Len(O) = n /\ Len(A) = n /\ Len(rows) = n
    BY AnswersOf DEF ArraysIn
  <2>2. DOMAIN rows = 1..n /\ O = [r \in 1..n |-> O[r]] /\ A = [r \in 1..n |-> A[r]]
    BY <2>1 DEF IsQuery, ObjectsOf, ArraysOf
  <2>3. /\ Wanted("select", columns, rows) = [rows |-> O]
        /\ Wanted("get", columns, rows) = IF rows = <<>> THEN NoRow ELSE [row |-> O[1]]
        /\ Wanted("selectArray", columns, rows) = [columns |-> columns, rows |-> A]
        /\ Wanted("getArray", columns, rows) = [columns |-> columns, rows |-> IF rows = <<>> THEN rows ELSE <<A[1]>>]
    BY WantedOf
  <2> HIDE DEF O, A
  <2>4. n = 0 => rows = <<>> /\ O = <<>> /\ A = <<>>
    BY <2>2
  <2>5. n # 0 => rows # <<>> /\ O # <<>> /\ A # <<>>
    BY <2>1
  <2>6. Wanted("getArray", columns, rows) = [columns |-> columns, rows |-> Cut(A)]
    <3>1. (IF rows = <<>> THEN rows ELSE <<A[1]>>) = Cut(A)
      BY <2>4, <2>5 DEF Cut
    <3>2. QED
      BY <2>3, <3>1
  <2>7. FirstRow(O) = Wanted("get", columns, rows)
    <3>1. CASE n = 0
      BY <2>1, <2>3, <2>4, <3>1 DEF FirstRow
    <3>2. CASE n # 0
      <4>1. Len(O) > 0
        BY <2>1, <3>2
      <4>2. QED
        BY <2>3, <2>5, <3>2, <4>1 DEF FirstRow
    <3>3. QED
      BY <3>1, <3>2
  <2>8. FirstRow(Cut(O)) = Wanted("get", columns, rows)
    <3>1. CASE n = 0
      BY <2>4, <2>7, <3>1 DEF Cut
    <3>2. CASE n # 0
      <4>1. Cut(O) = <<O[1]>>
        BY <2>5, <3>2 DEF Cut
      <4>2. FirstRow(Cut(O)) = [row |-> O[1]]
        BY <4>1 DEF FirstRow
      <4>3. QED
        BY <2>3, <2>5, <3>2, <4>2
    <3>3. QED
      BY <3>1, <3>2
  <2>15. \A mode \in 1..4 : NativeRead(mode, q) =
           LET json == ResultAsJson(q, mode \in {3, 4})
           IN  CASE mode = 1 -> [rows |-> ParseSelectResult(json)]
                 [] mode = 2 -> ParseArrayResult(json)
                 [] mode = 3 -> FirstRow(ParseSelectResult(json))
                 [] mode = 4 -> ParseArrayResult(json)
    BY <1>2 DEF NativeRead
  <2>16. (3 \in {3, 4}) = TRUE /\ (4 \in {3, 4}) = TRUE /\ (1 \in {3, 4}) = FALSE /\ (2 \in {3, 4}) = FALSE
    OBVIOUS
  <2>9. /\ NativeRead(1, q) = [rows |-> ParseSelectResult(ResultAsJson(q, FALSE))]
        /\ NativeRead(2, q) = ParseArrayResult(ResultAsJson(q, FALSE))
        /\ NativeRead(3, q) = FirstRow(ParseSelectResult(ResultAsJson(q, TRUE)))
        /\ NativeRead(4, q) = ParseArrayResult(ResultAsJson(q, TRUE))
    <3>1. NativeRead(1, q) = [rows |-> ParseSelectResult(ResultAsJson(q, 1 \in {3, 4}))]
      BY <2>15
    <3>2. NativeRead(2, q) = ParseArrayResult(ResultAsJson(q, 2 \in {3, 4}))
      BY <2>15
    <3>3. NativeRead(3, q) = FirstRow(ParseSelectResult(ResultAsJson(q, 3 \in {3, 4})))
      BY <2>15
    <3>4. NativeRead(4, q) = ParseArrayResult(ResultAsJson(q, 4 \in {3, 4}))
      BY <2>15
    <3>5. QED
      BY <2>16, <3>1, <3>2, <3>3, <3>4
  <2>10. /\ IOSSelect(q) = [rows |-> ParseSelectResult(ResultAsJson(q, FALSE))]
         /\ IOSSelectArray(q) = ParseArrayResult(ResultAsJson(q, FALSE))
    BY <1>2 DEF IOSSelect, IOSSelectArray
  <2>11. FirstOnly([columns |-> columns, rows |-> A]) = [columns |-> columns, rows |-> Cut(A)]
    BY DEF FirstOnly
  <2>12. IOSSelect(q) = Wanted("select", columns, rows) /\ IOSSelectArray(q) = Wanted("selectArray", columns, rows)
    BY <2>1, <2>3, <2>10
  <2>13. ASSUME NEW m \in Methods PROVE IOSRead(m, q) = Wanted(m, columns, rows)
    <3>1. CASE m = "select"
      BY <1>2, <2>12, <3>1 DEF IOSRead
    <3>2. CASE m = "selectArray"
      BY <1>2, <2>12, <3>2 DEF IOSRead
    <3>3. CASE m = "get"
      <4>1. IOSRead("get", q) = FirstRow(IOSSelect(q).rows)
        BY <1>2 DEF IOSRead
      <4>2. IOSSelect(q).rows = O
        BY <2>3, <2>12
      <4>3. QED
        BY <2>7, <3>3, <4>1, <4>2
    <3>4. CASE m = "getArray"
      <4>1. IOSRead("getArray", q) = FirstOnly(IOSSelectArray(q))
        BY <1>2 DEF IOSRead
      <4>2. QED
        BY <2>3, <2>6, <2>11, <2>12, <3>4, <4>1
    <3>5. QED
      BY <3>1, <3>2, <3>3, <3>4 DEF Methods
  <2>14. QED
    BY <1>2, <2>1, <2>3, <2>6, <2>7, <2>8, <2>9, <2>11, <2>12, <2>13 DEF O
<1>3. QED
  BY <1>1, <1>2 DEF IsQuery

\* Through every entry point of both platforms.
LEMMA AnsweredWhole ==
  ASSUME NEW columns \in Seq(STRING), NEW n \in Nat, NEW rows, NEW q, IsQuery(q, columns, n, rows),
         platform \in {"android", "ios"}, NEW entry \in Entries, NEW m \in Methods,
         ~(entry = "lowLevel" /\ m \in {"get", "getArray"}), ~(q.fails /\ Swallows(entry, m))
  PROVE  Answered(entry, m, q) = IF q.fails THEN FailedRead ELSE Wanted(m, columns, rows)
<1> DEFINE W(method) == Wanted(method, columns, rows)
           X == IF q.fails THEN FailedRead ELSE W(m)
<1>1. /\ q.fails \in BOOLEAN
      /\ m \in {"select", "selectArray", "get", "getArray"}
  BY DEF IsQuery, Methods
<1>2. /\ q.fails => /\ NativeRead(1, q) = FailedRead /\ NativeRead(2, q) = FailedRead
                    /\ IOSSelect(q) = FailedRead /\ IOSSelectArray(q) = FailedRead
                    /\ IOSRead(m, q) = FailedRead
      /\ ~q.fails => /\ NativeRead(1, q) = W("select") /\ NativeRead(2, q) = W("selectArray")
                     /\ NativeRead(3, q) = W("get") /\ NativeRead(4, q) = W("getArray")
                     /\ IOSSelect(q) = W("select") /\ IOSSelectArray(q) = W("selectArray")
                     /\ IOSRead(m, q) = W(m)
                     /\ FirstRow(ObjectsOf(columns, rows)) = W("get")
                     /\ FirstOnly(W("selectArray")) = W("getArray")
  BY ReadsOf
<1>3. W("select").rows = ObjectsOf(columns, rows) /\ W("select") # FailedRead /\ W("selectArray") # FailedRead
  <2>1. W("select") = [rows |-> ObjectsOf(columns, rows)]
        /\ W("selectArray") = [columns |-> columns, rows |-> ArraysOf(columns, rows)]
    BY WantedOf
  <2>2. "rows" \in DOMAIN W("select") /\ "rows" \in DOMAIN W("selectArray") /\ "rows" \notin DOMAIN FailedRead
    BY <2>1 DEF FailedRead
  <2>3. QED
    BY <2>1, <2>2
<1> HIDE DEF W
<1>4. /\ PreparedModes["select"] = 1 /\ PreparedModes["selectArray"] = 2
      /\ PreparedModes["get"] = 3 /\ PreparedModes["getArray"] = 4
  BY DEF PreparedModes
<1>5. q.fails /\ platform = "android" /\ entry \in {"prepared", "database", "databaseSync"} => m \in {"select", "selectArray"}
  BY <1>1 DEF Swallows
<1>6. ASSUME platform = "android", entry \in {"prepared", "database", "databaseSync"}
      PROVE  NativeRead(PreparedModes[m], q) = X
  BY <1>1, <1>2, <1>4, <1>5, <1>6
<1>7. AndroidReadTx(m, q) = X
  <2>1. CASE q.fails
    BY <1>1, <1>2, <2>1 DEF AndroidReadTx
  <2>2. CASE ~q.fails
    <3>1. CASE m = "select"
      BY <1>2, <1>3, <2>2, <3>1 DEF AndroidReadTx
    <3>2. CASE m = "selectArray"
      BY <1>2, <1>3, <2>2, <3>2 DEF AndroidReadTx
    <3>3. CASE m = "get"
      BY <1>2, <1>3, <2>2, <3>3 DEF AndroidReadTx
    <3>4. CASE m = "getArray"
      BY <1>2, <1>3, <2>2, <3>4 DEF AndroidReadTx
    <3>5. QED
      BY <1>1, <3>1, <3>2, <3>3, <3>4
  <2>3. QED
    BY <2>1, <2>2
<1>8. ASSUME m \in {"select", "selectArray"} PROVE AndroidLowLevel(m, q) = X /\ IOSLowLevel(m, q) = X
  BY <1>1, <1>2, <1>8 DEF AndroidLowLevel, IOSLowLevel
<1>9. IOSRead(m, q) = X
  BY <1>1, <1>2
<1>10. entry = "lowLevel" => m \in {"select", "selectArray"}
  BY <1>1
<1> HIDE DEF X
<1>11. ASSUME platform = "android" PROVE Answered(entry, m, q) = X
  <2>1. entry \in {"prepared", "readTx", "syncTx", "database", "databaseSync", "lowLevel"}
    BY <1>11 DEF Entries
  <2>2. CASE entry = "prepared"
    <3>1. Answered(entry, m, q) = AndroidPrepared(m, q)
      BY <1>11, <2>2 DEF Answered
    <3>2. QED
      BY <1>6, <1>11, <2>2, <3>1 DEF AndroidPrepared
  <2>3. CASE entry = "readTx"
    <3>1. Answered(entry, m, q) = AndroidReadTx(m, q)
      BY <1>11, <2>3 DEF Answered
    <3>2. QED
      BY <1>7, <3>1
  <2>4. CASE entry = "syncTx"
    <3>1. Answered(entry, m, q) = AndroidSyncTx(m, q)
      BY <1>11, <2>4 DEF Answered
    <3>2. QED
      BY <1>7, <3>1 DEF AndroidSyncTx
  <2>5. CASE entry = "database"
    <3>1. Answered(entry, m, q) = AndroidDatabase(m, q)
      BY <1>11, <2>5 DEF Answered
    <3>2. QED
      BY <1>6, <1>11, <2>5, <3>1 DEF AndroidDatabase
  <2>6. CASE entry = "databaseSync"
    <3>1. Answered(entry, m, q) = AndroidDatabaseSync(m, q)
      BY <1>11, <2>6 DEF Answered
    <3>2. QED
      BY <1>6, <1>11, <2>6, <3>1 DEF AndroidDatabaseSync
  <2>7. CASE entry = "lowLevel"
    <3>1. Answered(entry, m, q) = AndroidLowLevel(m, q)
      BY <1>11, <2>7 DEF Answered
    <3>2. QED
      BY <1>8, <1>10, <2>7, <3>1
  <2>8. QED
    BY <2>1, <2>2, <2>3, <2>4, <2>5, <2>6, <2>7
<1>12. ASSUME platform = "ios" PROVE Answered(entry, m, q) = X
  <2>1. entry \in {"prepared", "readTx", "writeTx", "syncTx", "database", "databaseSync", "lowLevel"}
    BY <1>12 DEF Entries
  <2>2. CASE entry = "prepared"
    <3>1. Answered(entry, m, q) = IOSPrepared(m, q)
      BY <1>12, <2>2 DEF Answered
    <3>2. QED
      BY <1>9, <3>1 DEF IOSPrepared
  <2>3. CASE entry = "readTx"
    <3>1. Answered(entry, m, q) = IOSReadTx(m, q)
      BY <1>12, <2>3 DEF Answered
    <3>2. QED
      BY <1>9, <3>1 DEF IOSReadTx
  <2>4. CASE entry = "writeTx"
    <3>1. Answered(entry, m, q) = IOSWriteTx(m, q)
      BY <1>12, <2>4 DEF Answered
    <3>2. QED
      BY <1>9, <3>1 DEF IOSWriteTx
  <2>5. CASE entry = "syncTx"
    <3>1. Answered(entry, m, q) = IOSSyncTx(m, q)
      BY <1>12, <2>5 DEF Answered
    <3>2. QED
      BY <1>9, <3>1 DEF IOSSyncTx
  <2>6. CASE entry = "database"
    <3>1. Answered(entry, m, q) = IOSDatabase(m, q)
      BY <1>12, <2>6 DEF Answered
    <3>2. QED
      BY <1>9, <3>1 DEF IOSDatabase
  <2>7. CASE entry = "databaseSync"
    <3>1. Answered(entry, m, q) = IOSDatabaseSync(m, q)
      BY <1>12, <2>7 DEF Answered
    <3>2. QED
      BY <1>9, <3>1 DEF IOSDatabaseSync
  <2>8. CASE entry = "lowLevel"
    <3>1. Answered(entry, m, q) = IOSLowLevel(m, q)
      BY <1>12, <2>8 DEF Answered
    <3>2. QED
      BY <1>8, <1>10, <2>8, <3>1
  <2>9. QED
    BY <2>1, <2>2, <2>3, <2>4, <2>5, <2>6, <2>7, <2>8
<1>14. Answered(entry, m, q) = X
  BY <1>11, <1>12
<1>13. QED
  BY <1>14 DEF X, W

\* What the driver reads its rows through.
LEMMA DriversReads ==
  ASSUME NEW columns \in Seq(STRING), NEW n \in Nat, NEW rows, NEW q, IsQuery(q, columns, n, rows),
         platform \in {"android", "ios"}
  PROVE  /\ q.fails => DrizzleAll(DriverRead(q), TRUE) = FailedRead
         /\ ~q.fails =>
              /\ DrizzleAll(DriverRead(q), FALSE) = Wanted("select", columns, rows)
              /\ DrizzleValues(DriverRead(q)).rows = Wanted("selectArray", columns, rows).rows
              /\ DrizzleGet(DriverRead(q), FALSE) = Wanted("get", columns, rows)
              /\ DrizzleGet(DriverRead(q), TRUE) = FirstRow(Wanted("selectArray", columns, rows).rows)
<1> DEFINE read == DriverRead(q)
           S == Wanted("select", columns, rows)
           A == Wanted("selectArray", columns, rows)
<1>1. DOMAIN read = {"select", "selectArray"} /\ \A m \in {"select", "selectArray"} :
        read[m] = IF platform = "android" THEN AndroidDatabase(m, q) ELSE IOSDatabase(m, q)
  BY DEF DriverRead
<1>2. /\ AndroidDatabase("select", q) = NativeRead(1, q)
      /\ AndroidDatabase("selectArray", q) = NativeRead(2, q)
      /\ IOSDatabase("select", q) = IOSRead("select", q)
      /\ IOSDatabase("selectArray", q) = IOSRead("selectArray", q)
  BY DEF AndroidDatabase, PreparedModes, IOSDatabase
<1>3. "select" \in Methods /\ "selectArray" \in Methods
  BY DEF Methods
<1>4. q.fails => read["select"] = FailedRead /\ read["selectArray"] = FailedRead
  BY <1>1, <1>2, <1>3, ReadsOf
<1>5. ~q.fails => read["select"] = S /\ read["selectArray"] = A
  BY <1>1, <1>2, <1>3, ReadsOf
<1>6. /\ S = [rows |-> ObjectsOf(columns, rows)] /\ A = [columns |-> columns, rows |-> ArraysOf(columns, rows)]
  BY WantedOf
<1>7. S # FailedRead /\ A # FailedRead /\ S.rows = ObjectsOf(columns, rows) /\ S = [rows |-> S.rows]
  <2>1. "rows" \in DOMAIN S /\ "rows" \in DOMAIN A /\ "rows" \notin DOMAIN FailedRead
    BY <1>6 DEF FailedRead
  <2>2. QED
    BY <1>6, <2>1
<1>8. ~q.fails => FirstRow(S.rows) = Wanted("get", columns, rows)
  BY <1>7, ReadsOf
<1> HIDE DEF read, S, A
<1>9. q.fails => DrizzleAll(read, TRUE) = FailedRead
  BY <1>4 DEF DrizzleAll
<1>10. ~q.fails => /\ DrizzleAll(read, FALSE) = S /\ DrizzleValues(read) = [rows |-> A.rows]
                   /\ DrizzleGet(read, FALSE) = FirstRow(S.rows) /\ DrizzleGet(read, TRUE) = FirstRow(A.rows)
  BY <1>5, <1>7 DEF DrizzleAll, DrizzleValues, DrizzleGet
<1>11. ASSUME ~q.fails PROVE DrizzleValues(read).rows = A.rows
  <2>1. DrizzleValues(read) = [rows |-> A.rows]
    BY <1>10, <1>11
  <2> HIDE DEF read, A
  <2>2. QED
    BY <2>1
<1>12. QED
  BY <1>8, <1>9, <1>10, <1>11 DEF read, S, A

LEMMA RowsWhole ==
  ASSUME platform \in {"android", "ios"}, table \in Seq(Params)
  PROVE  RowsAreWhole
<1> DEFINE n == Len(table)
           rows == MeantRows
<1>1. n \in Nat /\ rows = [i \in 1..n |-> rows[i]]
  BY DEF MeantRows
<1>2. \A i \in 1..n, c \in Range(Columns) : "at" \notin DOMAIN rows[i][c]
  <2> TAKE i \in 1..n, c \in Range(Columns)
  <2>1. rows[i][c] = Meant(BindParams(table[i], Columns)[c])
    BY DEF MeantRows
  <2> HIDE DEF rows
  <2>2. QED
    BY <2>1, Readings
<1> HIDE DEF n, rows
<1>3. ASSUME NEW columns \in ColumnLists, NEW fails \in BOOLEAN
      PROVE  LET q == [columns |-> columns, rows |-> rows, fails |-> fails]
                 select == Wanted("select", columns, rows)
                 arrays == Wanted("selectArray", columns, rows)
             IN  /\ \A entry \in Entries, m \in Methods :
                      \/ entry = "lowLevel" /\ m \in {"get", "getArray"}
                      \/ fails /\ Swallows(entry, m)
                      \/ Answered(entry, m, q) = IF fails THEN FailedRead ELSE Wanted(m, columns, rows)
                 /\ ~fails =>
                      /\ DrizzleAll(DriverRead(q), FALSE) = select
                      /\ DrizzleValues(DriverRead(q)).rows = arrays.rows
                      /\ DrizzleGet(DriverRead(q), FALSE) = Wanted("get", columns, rows)
                      /\ DrizzleGet(DriverRead(q), TRUE) = FirstRow(arrays.rows)
                 /\ fails => DrizzleAll(DriverRead(q), TRUE) = FailedRead
  <2> DEFINE q == [columns |-> columns, rows |-> rows, fails |-> fails]
  <2>1. columns \in Seq(Range(Columns)) /\ Range(Columns) \subseteq STRING
    BY ColumnsAssumption DEF Range
  <2>2. columns \in Seq(STRING)
    BY <2>1
  <2>3. \A r \in 1..n, c \in 1..Len(columns) : "at" \notin DOMAIN rows[r][columns[c]]
    <3>1. \A c \in 1..Len(columns) : columns[c] \in Range(Columns)
      BY <2>1
    <3>2. QED
      BY <1>2, <3>1
  <2>4. q.columns = columns /\ q.rows = rows /\ q.fails = fails
    OBVIOUS
  <2> HIDE DEF q
  <2>5. IsQuery(q, columns, n, rows)
    BY <1>1, <2>3, <2>4 DEF IsQuery
  <2>6. ASSUME NEW entry \in Entries, NEW m \in Methods,
               ~(entry = "lowLevel" /\ m \in {"get", "getArray"}), ~(fails /\ Swallows(entry, m))
        PROVE  Answered(entry, m, q) = IF fails THEN FailedRead ELSE Wanted(m, columns, rows)
    BY <1>1, <2>2, <2>4, <2>5, <2>6, AnsweredWhole
  <2>7. /\ fails => DrizzleAll(DriverRead(q), TRUE) = FailedRead
        /\ ~fails =>
              /\ DrizzleAll(DriverRead(q), FALSE) = Wanted("select", columns, rows)
              /\ DrizzleValues(DriverRead(q)).rows = Wanted("selectArray", columns, rows).rows
              /\ DrizzleGet(DriverRead(q), FALSE) = Wanted("get", columns, rows)
              /\ DrizzleGet(DriverRead(q), TRUE) = FirstRow(Wanted("selectArray", columns, rows).rows)
    <3>1. /\ q.fails => DrizzleAll(DriverRead(q), TRUE) = FailedRead
          /\ ~q.fails =>
                /\ DrizzleAll(DriverRead(q), FALSE) = Wanted("select", columns, rows)
                /\ DrizzleValues(DriverRead(q)).rows = Wanted("selectArray", columns, rows).rows
                /\ DrizzleGet(DriverRead(q), FALSE) = Wanted("get", columns, rows)
                /\ DrizzleGet(DriverRead(q), TRUE) = FirstRow(Wanted("selectArray", columns, rows).rows)
      BY <1>1, <2>2, <2>5, DriversReads
    <3>2. QED
      BY <2>4, <3>1
  <2>8. QED
    BY <2>6, <2>7 DEF q
<1>4. Written = rows
  BY WrittenIsMeant DEF rows
<1>5. QED
  BY <1>3, <1>4 DEF RowsAreWhole, rows

-----------------------------------------------------------------------------
(* SqliteSession: opening.                                                *)

\* What is selected of what was selected, and of a sequence with d elements before it.
PickedOf(S, T) == {Ascending(S)[t] : t \in T}

Behind(S, d) == {i + d : i \in S}

LEMMA AscendingTwice ==
  ASSUME NEW n \in Nat, NEW S \in SUBSET (1..n), NEW T \in SUBSET (1..Cardinality(S)),
         NEW X, X = PickedOf(S, T)
  PROVE  /\ X \in SUBSET (1..n) /\ X \subseteq S /\ Cardinality(X) = Cardinality(T)
         /\ \A k \in 1..Cardinality(T) : Ascending(X)[k] = Ascending(S)[Ascending(T)[k]]
<1> USE DEF PickedOf
<1> DEFINE m == Cardinality(T)
           f == [k \in 1..m |-> Ascending(S)[Ascending(T)[k]]]
<1>1. Cardinality(S) \in Nat /\ \A k \in 1..Cardinality(S) : Ascending(S)[k] \in S
  BY AscendingAt
<1>2. X \in SUBSET (1..n) /\ X \subseteq S
  BY <1>1
<1>3. /\ m \in Nat /\ \A k \in 1..m : Ascending(T)[k] \in T
      /\ \A t \in T : Place(T, t) + 1 \in 1..m /\ Ascending(T)[Place(T, t) + 1] = t
  BY <1>1, AscendingAt
<1>4. f \in [1..m -> X]
  BY <1>3
<1>5. ASSUME NEW k \in 1..m, NEW l \in 1..m, k < l PROVE f[k] < f[l]
  <2>1. Ascending(T)[k] < Ascending(T)[l]
    BY <1>1, <1>5, Ascends
  <2>2. Ascending(T)[k] \in 1..Cardinality(S) /\ Ascending(T)[l] \in 1..Cardinality(S)
    BY <1>3
  <2>3. Ascending(S)[Ascending(T)[k]] < Ascending(S)[Ascending(T)[l]]
    BY <2>1, <2>2, Ascends
  <2>4. QED
    BY <2>3
<1>6. ASSUME NEW i \in X PROVE \E k \in 1..m : f[k] = i
  <2>1. PICK t \in T : i = Ascending(S)[t]
    OBVIOUS
  <2>2. Place(T, t) + 1 \in 1..m /\ Ascending(T)[Place(T, t) + 1] = t
    BY <1>3
  <2> DEFINE k == Place(T, t) + 1
  <2> HIDE DEF k
  <2>3. k \in 1..m /\ Ascending(T)[k] = t
    BY <2>2 DEF k
  <2>4. f[k] = i
    BY <2>1, <2>3
  <2>5. QED
    BY <2>3, <2>4
<1> HIDE DEF f
<1>7. m = Cardinality(X) /\ f = Ascending(X)
  <2> HIDE DEF m
  <2>1. QED
    BY <1>2, <1>3, <1>4, <1>5, <1>6, AscendingOnly
<1>8. QED
  BY <1>2, <1>7 DEF f

LEMMA AscendingBehind ==
  ASSUME NEW n \in Nat, NEW S \in SUBSET (1..n), NEW d \in Nat, NEW X, X = Behind(S, d)
  PROVE  /\ Cardinality(X) = Cardinality(S)
         /\ \A k \in 1..Cardinality(S) : Ascending(X)[k] = Ascending(S)[k] + d
<1> USE DEF Behind
<1> DEFINE m == Cardinality(S)
           f == [k \in 1..m |-> Ascending(S)[k] + d]
<1>1. /\ m \in Nat /\ \A k \in 1..m : Ascending(S)[k] \in S
      /\ \A i \in S : Place(S, i) + 1 \in 1..m /\ Ascending(S)[Place(S, i) + 1] = i
  BY AscendingAt
<1>2. X \in SUBSET (1..(n + d)) /\ n + d \in Nat
  OBVIOUS
<1>3. f \in [1..m -> X]
  BY <1>1
<1>4. ASSUME NEW k \in 1..m, NEW l \in 1..m, k < l PROVE f[k] < f[l]
  <2>1. Ascending(S)[k] < Ascending(S)[l]
    BY <1>4, Ascends
  <2>2. Ascending(S)[k] \in Int /\ Ascending(S)[l] \in Int
    <3>1. S \subseteq Int
      OBVIOUS
    <3>2. QED
      BY <1>1, <3>1
  <2>3. QED
    BY <2>1, <2>2
<1>5. ASSUME NEW i \in X PROVE \E k \in 1..m : f[k] = i
  <2>1. PICK t \in S : i = t + d
    OBVIOUS
  <2> DEFINE k == Place(S, t) + 1
  <2>2. k \in 1..m /\ Ascending(S)[k] = t
    BY <1>1
  <2> HIDE DEF k
  <2>3. f[k] = i
    BY <2>1, <2>2
  <2>4. QED
    BY <2>2, <2>3
<1> HIDE DEF f
<1>6. m = Cardinality(X) /\ f = Ascending(X)
  <2> HIDE DEF m
  <2> DEFINE p == n + d
  <2>1. X \in SUBSET (1..p) /\ p \in Nat
    BY <1>2
  <2> HIDE DEF p
  <2>2. QED
    BY <2>1, <1>1, <1>3, <1>4, <1>5, AscendingOnly
<1>7. QED
  BY <1>6 DEF f

\* One sequence after another.
Joins(p, a, b, S) ==
  /\ p \in Seq(S) /\ Len(a) \in Nat /\ Len(b) \in Nat /\ Len(p) = Len(a) + Len(b)
  /\ DOMAIN p = 1..Len(p)
  /\ \A k \in 1..Len(a) : p[k] = a[k]
  /\ \A k \in 1..Len(b) : p[Len(a) + k] = b[k]

LEMMA Joined ==
  ASSUME NEW S, NEW a \in Seq(S), NEW b \in Seq(S)
  PROVE  Joins(a \o b, a, b, S)
  BY DEF Joins

\* How many entries are put before those of the caller.
Offset(o) == IF "openSequence" \in o.given THEN 0 ELSE 1

LEMMA SourceOf ==
  ASSUME NEW o \in OptionTypes
  PROVE  /\ Source(o) \in Seq(EntryTypes) /\ o.sequence \in Seq(EntryTypes)
         /\ Len(Source(o)) = Len(o.sequence) + 2 * Offset(o)
         /\ \A i \in 1..Len(o.sequence) : Source(o)[i + Offset(o)] = o.sequence[i]
         /\ "openSequence" \notin o.given =>
              Source(o)[1] = KeyEntry /\ Source(o)[Len(o.sequence) + 2] = WalEntry
<1>1. o.sequence \in Seq(EntryTypes)
  BY DEF OptionTypes
<1>2. KeyEntry \in EntryTypes /\ WalEntry \in EntryTypes
  <2>1. KeyEntry \in [form : {"key", "wal", "text", "object", "junk"}, sql : Statements \cup {Empty},
                       on : {"undefined", "all", "writer", "readers", "typo"}]
    BY DEF KeyEntry
  <2>2. WalEntry \in [form : {"key", "wal", "text", "object", "junk"}, sql : Statements \cup {Empty},
                       on : {"undefined", "all", "writer", "readers", "typo"}]
    BY DEF WalEntry
  <2>3. KeyEntry.form # "object" /\ WalEntry.form # "object" /\ KeyEntry.on = "undefined" /\ WalEntry.on = "undefined"
    BY DEF KeyEntry, WalEntry
  <2>4. QED
    BY <2>1, <2>2, <2>3 DEF EntryTypes
<1>3. CASE "openSequence" \in o.given
  <2>1. Source(o) = o.sequence /\ Offset(o) = 0
    BY <1>3 DEF Source, Offset
  <2>2. QED
    BY <1>1, <1>3, <2>1
<1>4. CASE "openSequence" \notin o.given
  <2> DEFINE q == o.sequence
             s == (<<KeyEntry>> \o q) \o <<WalEntry>>
  <2>1. Source(o) = s /\ Offset(o) = 1
    BY <1>4 DEF Source, Offset
  <2> HIDE DEF q
  <2>2. q \in Seq(EntryTypes) /\ Len(q) \in Nat
    BY <1>1 DEF q
  <2> DEFINE a == <<KeyEntry>>
             b == a \o q
  <2>3. a \in Seq(EntryTypes) /\ Len(a) = 1 /\ a[1] = KeyEntry
    BY <1>2
  <2> HIDE DEF a
  <2>4. b \in Seq(EntryTypes) /\ Len(b) = Len(q) + 1 /\ b[1] = KeyEntry /\ \A i \in 1..Len(q) : b[i + 1] = q[i]
    <3>1. /\ b \in Seq(EntryTypes) /\ Len(b) = Len(a) + Len(q)
          /\ \A k \in 1..Len(a) : b[k] = a[k]
          /\ \A k \in 1..Len(q) : b[Len(a) + k] = q[k]
      <4>1. Joins(a \o q, a, q, EntryTypes)
        BY <2>2, <2>3, Joined
      <4>2. QED
        BY <4>1 DEF Joins
    <3> HIDE DEF b
    <3>2. \A i \in 1..Len(q) : b[i + 1] = q[i]
      BY <2>2, <2>3, <3>1
    <3>3. QED
      BY <2>2, <2>3, <3>1, <3>2
  <2> DEFINE c == <<WalEntry>>
  <2>5. c \in Seq(EntryTypes) /\ Len(c) = 1 /\ c[1] = WalEntry
    BY <1>2
  <2>6. s = b \o c
    BY DEF a
  <2> HIDE DEF b, c, s
  <2>7. /\ s \in Seq(EntryTypes) /\ Len(s) = Len(q) + 2 /\ s[Len(q) + 2] = WalEntry
        /\ \A j \in 1..(Len(q) + 1) : s[j] = b[j]
    <3> DEFINE bc == b \o c
    <3>1. /\ bc \in Seq(EntryTypes) /\ Len(bc) = Len(b) + Len(c)
          /\ \A k \in 1..Len(b) : bc[k] = b[k]
          /\ \A k \in 1..Len(c) : bc[Len(b) + k] = c[k]
      <4>1. Joins(b \o c, b, c, EntryTypes)
        BY <2>4, <2>5, Joined
      <4>2. QED
        BY <4>1 DEF Joins
    <3>2. s = bc
      BY <2>6
    <3> HIDE DEF bc
    <3>3. bc[Len(q) + 2] = WalEntry
      <4>1. 1 \in 1..Len(c) /\ Len(b) + 1 = Len(q) + 2
        BY <2>2, <2>4, <2>5
      <4>2. bc[Len(b) + 1] = c[1]
        BY <3>1, <4>1
      <4>3. QED
        BY <2>5, <4>1, <4>2
    <3>4. QED
      BY <2>2, <2>4, <2>5, <3>1, <3>2, <3>3
  <2>8. s[1] = KeyEntry /\ \A i \in 1..Len(q) : s[i + 1] = q[i]
    BY <2>2, <2>4, <2>7
  <2>9. QED
    BY <1>1, <1>4, <2>1, <2>7, <2>8 DEF q
<1>5. QED
  BY <1>3, <1>4

\* The places of the entries that become steps, and of the steps a connection runs.
KeptPlaces(o) == {i \in 1..Len(Source(o)) : Kept(Source(o)[i])}

RunPlaces(role, o) == {k \in 1..Len(Steps(o)) : Runs(Steps(o)[k], role, o)}

LEMMA StepsOf ==
  ASSUME NEW o \in OptionTypes
  PROVE  /\ Len(Source(o)) \in Nat /\ KeptPlaces(o) \in SUBSET (1..Len(Source(o)))
         /\ Len(Steps(o)) = Cardinality(KeptPlaces(o)) /\ Len(Steps(o)) \in Nat
         /\ \A k \in 1..Len(Steps(o)) :
              /\ Ascending(KeptPlaces(o))[k] \in KeptPlaces(o)
              /\ Steps(o)[k] = StepOf(Source(o)[Ascending(KeptPlaces(o))[k]])
         /\ \A k \in 1..Len(Steps(o)) : Steps(o)[k].kind \in {"key", "wal", "sql"}
<1> DEFINE K == KeptPlaces(o)
           kept == Selection(Source(o), Kept)
<1>1. Source(o) \in Seq(EntryTypes) /\ DOMAIN Source(o) = 1..Len(Source(o))
  BY SourceOf
<1>2. K = {i \in DOMAIN Source(o) : Kept(Source(o)[i])}
  BY <1>1 DEF KeptPlaces
<1>3. kept = [k \in DOMAIN Ascending(K) |-> Source(o)[Ascending(K)[k]]]
  BY <1>2 DEF Selection
<1>4. Len(Source(o)) \in Nat /\ K \in SUBSET (1..Len(Source(o)))
  BY <1>1 DEF KeptPlaces
<1> HIDE DEF K
<1>5. /\ Cardinality(K) \in Nat /\ DOMAIN Ascending(K) = 1..Cardinality(K)
      /\ \A k \in 1..Cardinality(K) : Ascending(K)[k] \in K
  BY <1>4, AscendingAt
<1>6. Len(kept) = Cardinality(K) /\ \A k \in 1..Cardinality(K) : kept[k] = Source(o)[Ascending(K)[k]]
  BY <1>3, <1>5
<1>7. Steps(o) = [k \in 1..Len(kept) |-> StepOf(kept[k])]
  BY DEF Steps
<1> HIDE DEF kept
<1>8. Len(Steps(o)) = Cardinality(K) /\ \A k \in 1..Cardinality(K) : Steps(o)[k] = StepOf(Source(o)[Ascending(K)[k]])
  BY <1>5, <1>6, <1>7
<1>9. \A e : StepOf(e).kind \in {"key", "wal", "sql"}
  BY DEF StepOf
<1>10. QED
  BY <1>4, <1>5, <1>8, <1>9 DEF K

LEMMA PerformedOf ==
  ASSUME NEW o \in OptionTypes, NEW role
  PROVE  LET R == RunPlaces(role, o) IN
         /\ R \in SUBSET (1..Len(Steps(o))) /\ Cardinality(R) \in Nat
         /\ Len(Performed(role, o)) \in Nat /\ Cardinality(R) <= Len(Performed(role, o))
         /\ DOMAIN Performed(role, o) = 1..Len(Performed(role, o))
         /\ \A k \in 1..Cardinality(R) :
              Ascending(R)[k] \in R /\ Performed(role, o)[k] = Steps(o)[Ascending(R)[k]]
         /\ \A k \in 1..Len(Performed(role, o)) :
              k > Cardinality(R) => Performed(role, o)[k].kind = "query_only"
<1> DEFINE R == RunPlaces(role, o)
           ran == Selection(Steps(o), LAMBDA s : Runs(s, role, o))
           tail == IF role = "readers" /\ ~o.readOnly THEN <<QueryOnly>> ELSE <<>>
<1>1. Len(Steps(o)) \in Nat /\ DOMAIN Steps(o) = 1..Len(Steps(o))
  BY StepsOf DEF Steps
<1>2. R = {k \in DOMAIN Steps(o) : Runs(Steps(o)[k], role, o)}
  BY <1>1 DEF RunPlaces
<1>3. ran = [k \in DOMAIN Ascending(R) |-> Steps(o)[Ascending(R)[k]]]
  BY <1>2 DEF Selection
<1>4. R \in SUBSET (1..Len(Steps(o)))
  BY DEF RunPlaces
<1>5. Performed(role, o) = ran \o tail
  BY DEF Performed
<1> HIDE DEF R
<1>6. /\ Cardinality(R) \in Nat /\ DOMAIN Ascending(R) = 1..Cardinality(R)
      /\ \A k \in 1..Cardinality(R) : Ascending(R)[k] \in R
  BY <1>1, <1>4, AscendingAt
<1> DEFINE T == {Steps(o)[k] : k \in R} \cup {QueryOnly}
<1>7. /\ ran \in Seq(T) /\ Len(ran) = Cardinality(R)
      /\ \A k \in 1..Cardinality(R) : ran[k] = Steps(o)[Ascending(R)[k]]
  <2>1. ran = [k \in 1..Cardinality(R) |-> Steps(o)[Ascending(R)[k]]]
    BY <1>3, <1>6
  <2>2. \A k \in 1..Cardinality(R) : Steps(o)[Ascending(R)[k]] \in T
    BY <1>6
  <2> HIDE DEF T, ran
  <2>3. ran \in [1..Cardinality(R) -> T]
    BY <2>1, <2>2
  <2>4. QED
    BY <1>6, <2>1, <2>3
<1>8. tail \in Seq(T) /\ \A k \in 1..Len(tail) : tail[k].kind = "query_only"
  <2>1. QueryOnly.kind = "query_only"
    BY DEF QueryOnly
  <2>2. tail = <<>> \/ tail = <<QueryOnly>>
    OBVIOUS
  <2>3. CASE tail = <<>>
    BY <2>3
  <2>4. CASE tail = <<QueryOnly>>
    <3> DEFINE one == <<QueryOnly>>
    <3>1. one \in Seq(T) /\ Len(one) = 1 /\ one[1] = QueryOnly
      OBVIOUS
    <3>2. tail = one
      BY <2>4
    <3> HIDE DEF one, tail
    <3>3. tail[1].kind = "query_only" /\ Len(tail) = 1 /\ tail \in Seq(T)
      BY <2>1, <3>1, <3>2
    <3>4. \A k \in 1..1 : k = 1
      OBVIOUS
    <3>5. \A k \in 1..Len(tail) : k = 1
      BY <3>3, <3>4
    <3>6. QED
      BY <3>3, <3>5
  <2>5. QED
    BY <2>2, <2>3, <2>4
<1> HIDE DEF ran, tail, T
<1> DEFINE p == ran \o tail
<1>9. /\ Len(p) = Len(ran) + Len(tail) /\ Len(tail) \in Nat
      /\ DOMAIN p = 1..Len(p)
      /\ \A k \in 1..Len(ran) : p[k] = ran[k]
      /\ \A k \in 1..Len(p) : k > Len(ran) => p[k] = tail[k - Len(ran)] /\ k - Len(ran) \in 1..Len(tail)
  <2>1. /\ p \in Seq(T) /\ Len(tail) \in Nat /\ Len(ran) \in Nat /\ Len(p) = Len(ran) + Len(tail)
        /\ DOMAIN p = 1..Len(p)
        /\ \A k \in 1..Len(ran) : p[k] = ran[k]
        /\ \A k \in 1..Len(tail) : p[Len(ran) + k] = tail[k]
    <3>1. Joins(ran \o tail, ran, tail, T)
      BY <1>7, <1>8, Joined
    <3>2. QED
      BY <3>1 DEF Joins
  <2> HIDE DEF p
  <2>2. ASSUME NEW k \in 1..Len(p), k > Len(ran)
        PROVE  p[k] = tail[k - Len(ran)] /\ k - Len(ran) \in 1..Len(tail)
    <3> DEFINE l == k - Len(ran)
    <3>1. l \in 1..Len(tail) /\ Len(ran) + l = k
      BY <2>1, <2>2
    <3> HIDE DEF l
    <3>2. p[Len(ran) + l] = tail[l]
      BY <2>1, <3>1
    <3>3. QED
      BY <3>1, <3>2 DEF l
  <2>3. QED
    BY <2>1, <2>2
<1> HIDE DEF p
<1>10. /\ Len(p) \in Nat /\ Cardinality(R) <= Len(p) /\ DOMAIN p = 1..Len(p)
       /\ \A k \in 1..Cardinality(R) : Ascending(R)[k] \in R /\ p[k] = Steps(o)[Ascending(R)[k]]
       /\ \A k \in 1..Len(p) : k > Cardinality(R) => p[k].kind = "query_only"
  BY <1>6, <1>7, <1>8, <1>9
<1>11. QED
  BY <1>4, <1>5, <1>6, <1>10 DEF R, p

\* A set with at most one place in it.
LEMMA OnePlace ==
  ASSUME NEW n \in Nat, NEW S \in SUBSET (1..n), ~(Cardinality(S) > 1), NEW i \in S
  PROVE  S = {i}
<1>1. /\ Cardinality(S) \in Nat
      /\ \A j \in S : Place(S, j) + 1 \in 1..Cardinality(S) /\ Ascending(S)[Place(S, j) + 1] = j
  BY AscendingAt
<1>2. ASSUME NEW j \in S PROVE j = Ascending(S)[1]
  <2> DEFINE p == Place(S, j) + 1
  <2>1. p \in 1..Cardinality(S) /\ Ascending(S)[p] = j
    BY <1>1
  <2> HIDE DEF p
  <2>2. p = 1
    BY <1>1, <2>1
  <2>3. QED
    BY <2>1, <2>2
<1>3. QED
  BY <1>2

\* What a connection runs of one kind, and the step each of it was.
LEMMA RunOf ==
  ASSUME NEW o \in OptionTypes, NEW role, NEW kind \in {"key", "wal", "sql"}
  PROVE  LET R == RunPlaces(role, o) IN
         /\ At(Performed(role, o), kind) \in SUBSET (1..Cardinality(R))
         /\ Len(Performed(role, o)) \in Nat /\ Cardinality(R) \in Nat /\ Cardinality(R) <= Len(Performed(role, o))
         /\ \A k \in At(Performed(role, o), kind) :
              /\ Ascending(R)[k] \in At(Steps(o), kind) /\ Runs(Steps(o)[Ascending(R)[k]], role, o)
              /\ Performed(role, o)[k] = Steps(o)[Ascending(R)[k]]
         /\ \A x \in At(Steps(o), kind) : Runs(Steps(o)[x], role, o) =>
              /\ x \in R /\ Place(R, x) + 1 \in At(Performed(role, o), kind)
              /\ Ascending(R)[Place(R, x) + 1] = x
<1> DEFINE R == RunPlaces(role, o)
           p == Performed(role, o)
           steps == Steps(o)
           Q == At(p, kind)
<1>1. /\ R \in SUBSET (1..Len(steps)) /\ Cardinality(R) \in Nat
      /\ Len(p) \in Nat /\ Cardinality(R) <= Len(p) /\ DOMAIN p = 1..Len(p)
      /\ \A k \in 1..Cardinality(R) : Ascending(R)[k] \in R /\ p[k] = steps[Ascending(R)[k]]
      /\ \A k \in 1..Len(p) : k > Cardinality(R) => p[k].kind = "query_only"
  BY PerformedOf
<1>2. Len(steps) \in Nat
  BY StepsOf
<1>3. /\ \A x \in R : x \in 1..Len(steps) /\ Runs(steps[x], role, o)
      /\ \A x \in 1..Len(steps) : Runs(steps[x], role, o) => x \in R
  BY DEF RunPlaces
<1>4. At(steps, kind) = {x \in 1..Len(steps) : steps[x].kind = kind}
  BY DEF At
<1>5. Q = {k \in 1..Len(p) : p[k].kind = kind}
  BY DEF At
<1> HIDE DEF R, p, steps, Q
<1>6. \A x \in R : Place(R, x) + 1 \in 1..Cardinality(R) /\ Ascending(R)[Place(R, x) + 1] = x
  BY <1>1, <1>2, AscendingAt
<1>7. Q \in SUBSET (1..Cardinality(R))
  <2>1. ASSUME NEW k \in Q PROVE k \in 1..Cardinality(R)
    <3>1. k \in 1..Len(p) /\ p[k].kind = kind /\ kind # "query_only"
      BY <1>5
    <3>2. ~(k > Cardinality(R))
      BY <1>1, <3>1
    <3>3. QED
      BY <1>1, <3>1, <3>2
  <2>2. QED
    BY <2>1
<1>8. ASSUME NEW k \in Q
      PROVE  /\ Ascending(R)[k] \in At(steps, kind) /\ Runs(steps[Ascending(R)[k]], role, o)
             /\ p[k] = steps[Ascending(R)[k]]
  <2> DEFINE a == Ascending(R)[k]
  <2>1. a \in R /\ p[k] = steps[a] /\ p[k].kind = kind
    BY <1>1, <1>5, <1>7
  <2> HIDE DEF a
  <2>2. a \in At(steps, kind) /\ Runs(steps[a], role, o) /\ p[k] = steps[a]
    BY <1>3, <1>4, <2>1
  <2>3. QED
    BY <2>2 DEF a
<1>9. ASSUME NEW x \in At(steps, kind), Runs(steps[x], role, o)
      PROVE  /\ x \in R /\ Place(R, x) + 1 \in Q
             /\ Ascending(R)[Place(R, x) + 1] = x
  <2> DEFINE k == Place(R, x) + 1
  <2>1. x \in R
    BY <1>3, <1>4, <1>9
  <2>2. k \in 1..Cardinality(R) /\ Ascending(R)[k] = x
    BY <1>6, <2>1
  <2> HIDE DEF k
  <2>3. p[k] = steps[x] /\ p[k].kind = kind /\ k \in 1..Len(p)
    BY <1>1, <1>4, <1>9, <2>2
  <2>4. k \in Q
    BY <1>5, <2>3
  <2>5. QED
    BY <2>1, <2>2, <2>4 DEF k
<1>10. QED
  BY <1>1, <1>7, <1>8, <1>9 DEF R, p, steps, Q

\* The key is used in the form asked for, once and in time.
LEMMA KeySound ==
  ASSUME NEW o \in OptionTypes, Accepted(o), NEW role \in {"writer", "readers"}
  PROVE  KeyIsSound(role, o)
<1> SUFFICES ASSUME o.encryptionKey # Empty PROVE KeyIsSound(role, o)
  BY DEF KeyIsSound
<1> DEFINE R == RunPlaces(role, o)
           p == Performed(role, o)
           steps == Steps(o)
           K == KeptPlaces(o)
           keys == At(p, "key")
<1>1. o.encryptionKey \in {"words", "hex", "literal"} /\ o.encryptionKeyFormat \in {"passphrase", "raw"}
  BY DEF OptionTypes
<1>2. Derivation(ResolveEncryptionKey(o)) = o.encryptionKeyFormat /\ ResolveEncryptionKey(o) # Empty
  <2>1. Empty # "literal"
    BY Zenon DEF Empty
  <2>2. QED
    BY <1>1, <2>1 DEF Accepted, KeyMisuse, ResolveEncryptionKey, Derivation
<1>3. /\ ~(Cardinality(At(steps, "key")) > 1) /\ At(steps, "key") # {}
      /\ \A w \in At(steps, "wal"), k \in At(steps, "key") : ~(w < k)
  BY DEF Accepted, Misuse
<1>4. Len(steps) \in Nat /\ Len(Source(o)) \in Nat
  BY StepsOf
<1>5. At(steps, "key") \in SUBSET (1..Len(steps)) /\ At(steps, "wal") \in SUBSET (1..Len(steps))
      /\ (\A i \in At(steps, "key") : steps[i].kind = "key") /\ \A i \in At(steps, "wal") : steps[i].kind = "wal"
  BY DEF At
<1> HIDE DEF steps
<1>6. PICK x : x \in 1..Len(steps) /\ At(steps, "key") = {x}
  <2> DEFINE n == Len(steps)
             S == At(steps, "key")
  <2>1. n \in Nat /\ S \in SUBSET (1..n) /\ ~(Cardinality(S) > 1) /\ S # {}
    BY <1>3, <1>4, <1>5
  <2> HIDE DEF n, S
  <2>2. PICK i : i \in S
    BY <2>1
  <2>3. S = {i} /\ i \in 1..n
    BY <2>1, <2>2, OnePlace
  <2>4. QED
    BY <2>3 DEF n, S
<1>7. x \in 1..Len(steps) /\ steps[x].kind = "key" /\ steps[x].scope = "all"
  <2> DEFINE e == Source(o)[Ascending(KeptPlaces(o))[x]]
  <2>1. x \in 1..Len(steps) /\ steps[x].kind = "key"
    BY <1>5, <1>6
  <2>2. Ascending(KeptPlaces(o))[x] \in KeptPlaces(o) /\ steps[x] = StepOf(e)
    BY <2>1, StepsOf DEF steps
  <2>3. e \in EntryTypes
    BY <2>2, SourceOf DEF KeptPlaces
  <2> HIDE DEF e
  <2>4. e.form = "key"
    BY <2>1, <2>2 DEF StepOf
  <2>5. e.on = "undefined"
    BY <2>3, <2>4 DEF EntryTypes
  <2>6. QED
    BY <2>1, <2>2, <2>4, <2>5 DEF StepOf, ScopeCode
<1>8. Runs(steps[x], role, o)
  BY <1>2, <1>7 DEF Runs
<1> DEFINE k == Place(R, x) + 1
<1>9. /\ R \in SUBSET (1..Len(steps)) /\ Cardinality(R) \in Nat /\ Cardinality(R) <= Len(p) /\ Len(p) \in Nat
  BY PerformedOf DEF steps
<1>10. /\ keys \in SUBSET (1..Cardinality(R))
       /\ \A l \in keys : Ascending(R)[l] \in At(steps, "key")
       /\ x \in R /\ k \in keys /\ Ascending(R)[k] = x
  BY <1>6, <1>8, RunOf DEF steps
<1>11. /\ At(p, "wal") \in SUBSET (1..Cardinality(R))
       /\ \A w \in At(p, "wal") : Ascending(R)[w] \in At(steps, "wal")
  BY RunOf DEF steps
<1>12. "openSequence" \notin o.given => k = 1
  <2> SUFFICES ASSUME "openSequence" \notin o.given PROVE k = 1
    OBVIOUS
  <2>1. Source(o)[1] = KeyEntry /\ 1 \in 1..Len(Source(o))
    <3>1. /\ Len(Source(o)) = Len(o.sequence) + 2 /\ Source(o)[1] = KeyEntry
      <4>1. Offset(o) = 1
        BY DEF Offset
      <4>2. Len(Source(o)) = Len(o.sequence) + 2 * Offset(o) /\ Source(o)[1] = KeyEntry
        BY SourceOf
      <4>3. Len(o.sequence) \in Nat
        BY SourceOf
      <4>4. QED
        BY <4>1, <4>2, <4>3
    <3>2. Len(o.sequence) \in Nat
      BY SourceOf
    <3>3. QED
      BY <3>1, <3>2
  <2>2. K \in SUBSET (1..Len(Source(o))) /\ 1 \in K
    BY <2>1 DEF Kept, KeyEntry, KeptPlaces
  <2> HIDE DEF K
  <2>3. Place(K, 1) + 1 \in 1..Cardinality(K) /\ Ascending(K)[Place(K, 1) + 1] = 1
    BY <1>4, <2>2, AscendingAt
  <2>4. Place(K, 1) = 0
    <3>1. {j \in K : j < 1} = {}
      BY <2>2
    <3>2. QED
      BY <3>1, FS_EmptySet DEF Place
  <2>5. 1 \in 1..Len(steps) /\ steps[1] = StepOf(KeyEntry)
    <3>1. 1 \in 1..Cardinality(K) /\ Ascending(K)[1] = 1
      BY <2>3, <2>4
    <3>2. 1 \in 1..Len(steps) /\ steps[1] = StepOf(Source(o)[Ascending(K)[1]])
      BY <3>1, StepsOf DEF K, steps
    <3>3. QED
      BY <2>1, <3>1, <3>2
  <2>6. 1 \in At(steps, "key")
    BY <2>5 DEF At, StepOf, KeyEntry
  <2>7. x = 1
    BY <1>6, <2>6
  <2>8. {j \in R : j < 1} = {}
    BY <1>9
  <2>9. Place(R, x) = 0
    BY <2>7, <2>8, FS_EmptySet DEF Place
  <2>10. QED
    BY <2>9
<1> HIDE DEF R, p, k, keys
<1>13. keys = {k}
  <2>1. ASSUME NEW l \in keys PROVE l = k
    <3>1. Ascending(R)[l] = x
      BY <1>6, <1>10
    <3>2. l \in 1..Cardinality(R) /\ Place(R, Ascending(R)[l]) = l - 1
      BY <1>4, <1>9, <1>10, AscendingAt
    <3>3. QED
      BY <3>1, <3>2 DEF k
  <2>2. QED
    BY <1>10, <2>1
<1>14. ASSUME NEW w \in At(p, "wal") PROVE k < w
  <2> DEFINE b == Ascending(R)[w]
  <2>1. b \in At(steps, "wal") /\ w \in 1..Cardinality(R)
    BY <1>11
  <2>2. ~(b < x) /\ b # x
    <3>1. steps[b].kind = "wal"
      BY <1>5, <2>1
    <3>2. QED
      BY <1>3, <1>6, <1>7, <2>1, <3>1
  <2>3. k \in 1..Cardinality(R) /\ w # k
    BY <1>10, <2>2
  <2>4. w < k => b < x
    BY <1>4, <1>9, <1>10, <2>1, <2>3, Ascends
  <2>5. QED
    BY <1>9, <2>1, <2>2, <2>3, <2>4
<1>15. k \in 1..Len(p)
  BY <1>9, <1>10
<1>16. QED
  BY <1>2, <1>12, <1>13, <1>14, <1>15 DEF KeyIsSound, keys, p

\* What is selected of a sequence by the places of what passes.
LEMMA SelectionAt ==
  ASSUME NEW s, NEW S, DOMAIN Ascending(S) = 1..Cardinality(S), NEW t,
         t = [k \in DOMAIN Ascending(S) |-> s[Ascending(S)[k]]], Cardinality(S) \in Nat
  PROVE  Len(t) = Cardinality(S) /\ \A k \in 1..Cardinality(S) : t[k] = s[Ascending(S)[k]]
  OBVIOUS

\* The steps that carry the statements meant for a connection are those of its entries.
LEMMA MeantSteps ==
  ASSUME NEW o \in OptionTypes, Accepted(o), NEW role \in {"writer", "readers"}, NEW i \in 1..Len(Source(o))
  PROVE  (Kept(Source(o)[i]) /\ StepOf(Source(o)[i]).kind = "sql" /\ Runs(StepOf(Source(o)[i]), role, o))
         <=> MeantFor(role, Source(o)[i])
<1> DEFINE e == Source(o)[i]
<1>1. e \in EntryTypes
  BY SourceOf
<1>2. e.form # "junk" /\ ~(e.form = "object" /\ e.on = "typo")
  BY DEF Accepted, Misuse
<1> HIDE DEF e
<1>3. /\ e.form \in {"key", "wal", "text", "object", "junk"}
      /\ e.on \in {"undefined", "all", "writer", "readers", "typo"}
      /\ e.form # "object" => e.on = "undefined"
  BY <1>1 DEF EntryTypes
<1>4. /\ StepOf(e).kind = (IF e.form \in {"key", "wal"} THEN e.form ELSE "sql")
      /\ StepOf(e).scope = ScopeCode(e)
  BY DEF StepOf
<1> DEFINE Same == (Kept(e) /\ StepOf(e).kind = "sql" /\ Runs(StepOf(e), role, o)) <=> MeantFor(role, e)
<1>5. ASSUME e.form \in {"key", "wal"} PROVE Same
  BY <1>4, <1>5 DEF MeantFor
<1>6. ASSUME e.form \in {"text", "object"} PROVE Same
  <2>1. Kept(e) <=> e.sql # Empty
    BY <1>6 DEF Kept
  <2>2. StepOf(e).kind = "sql"
    BY <1>4, <1>6
  <2>3. ScopeCode(e) \in {"all", role} <=> e.on \in {"undefined", "all", role}
    BY <1>2, <1>3, <1>6 DEF ScopeCode
  <2>4. Runs(StepOf(e), role, o) <=> ScopeCode(e) \in {"all", role}
    BY <1>4, <2>2 DEF Runs
  <2>5. QED
    BY <1>6, <2>1, <2>2, <2>3, <2>4 DEF MeantFor
<1>7. QED
  BY <1>2, <1>3, <1>5, <1>6 DEF e

\* The statements a connection runs are those meant for it, in their order.
LEMMA StatementsRun ==
  ASSUME NEW o \in OptionTypes, Accepted(o), NEW role \in {"writer", "readers"}
  PROVE  StatementsAreRun(role, o)
<1> DEFINE q == o.sequence
           d == Offset(o)
           source == Source(o)
           steps == Steps(o)
           run == Performed(role, o)
           K == KeptPlaces(o)
           R == RunPlaces(role, o)
           G == At(run, "sql")
           M == {i \in 1..Len(q) : MeantFor(role, q[i])}
           X == PickedOf(R, G)
           Y == PickedOf(K, X)
           given == Selection(run, LAMBDA s : s.kind = "sql")
           meant == Selection(q, LAMBDA e : MeantFor(role, e))
<1>1. /\ source \in Seq(EntryTypes) /\ q \in Seq(EntryTypes) /\ Len(source) = Len(q) + 2 * d
      /\ \A i \in 1..Len(q) : source[i + d] = q[i]
      /\ d = 1 => source[1] = KeyEntry /\ source[Len(q) + 2] = WalEntry
  <2>1. d = 1 => "openSequence" \notin o.given
    BY DEF Offset
  <2>2. QED
    BY <2>1, SourceOf
<1>2. d \in {0, 1} /\ Len(q) \in Nat /\ Len(source) \in Nat /\ DOMAIN q = 1..Len(q)
  <2>1. d \in {0, 1}
    BY DEF Offset
  <2>2. source \in Seq(EntryTypes) /\ q \in Seq(EntryTypes)
    BY <1>1
  <2> HIDE DEF d, q, source
  <2>3. QED
    BY <2>1, <2>2
<1>3. /\ K \in SUBSET (1..Len(source)) /\ Len(steps) = Cardinality(K) /\ Len(steps) \in Nat
      /\ \A k \in 1..Len(steps) : Ascending(K)[k] \in K /\ steps[k] = StepOf(source[Ascending(K)[k]])
  BY StepsOf
<1>4. /\ R \in SUBSET (1..Len(steps)) /\ Cardinality(R) \in Nat /\ DOMAIN run = 1..Len(run)
  BY PerformedOf
<1>5. /\ G \in SUBSET (1..Cardinality(R))
      /\ \A g \in G : /\ Ascending(R)[g] \in At(steps, "sql") /\ Runs(steps[Ascending(R)[g]], role, o)
                      /\ run[g] = steps[Ascending(R)[g]]
      /\ \A x \in At(steps, "sql") : Runs(steps[x], role, o) =>
           Place(R, x) + 1 \in G /\ Ascending(R)[Place(R, x) + 1] = x
  BY RunOf
<1>6. At(steps, "sql") = {x \in 1..Len(steps) : steps[x].kind = "sql"}
  BY DEF At
<1>7. G = {g \in DOMAIN run : run[g].kind = "sql"}
  BY <1>4 DEF At
<1>8. given = [k \in DOMAIN Ascending(G) |-> run[Ascending(G)[k]]]
  BY <1>7 DEF Selection
<1>9. M = {i \in DOMAIN q : MeantFor(role, q[i])}
  BY <1>2
<1>10. meant = [k \in DOMAIN Ascending(M) |-> q[Ascending(M)[k]]]
  BY <1>9 DEF Selection
<1>11. \A i \in 1..Len(source) : i \in K <=> Kept(source[i])
  BY DEF KeptPlaces
<1>12. \A i \in 1..Len(source) :
         (Kept(source[i]) /\ StepOf(source[i]).kind = "sql" /\ Runs(StepOf(source[i]), role, o))
         <=> MeantFor(role, source[i])
  BY MeantSteps
<1>13. ~MeantFor(role, KeyEntry) /\ ~MeantFor(role, WalEntry)
  BY DEF MeantFor, KeyEntry, WalEntry
<1> HIDE DEF q, d, source, steps, run, K, R, G, given, meant
<1>14. \A x \in 1..Len(steps) : x \in X <=> steps[x].kind = "sql" /\ Runs(steps[x], role, o)
  <2> TAKE x \in 1..Len(steps)
  <2>1. ASSUME x \in X PROVE steps[x].kind = "sql" /\ Runs(steps[x], role, o)
    BY <1>5, <1>6, <2>1 DEF PickedOf
  <2>2. ASSUME steps[x].kind = "sql", Runs(steps[x], role, o) PROVE x \in X
    <3> DEFINE g == Place(R, x) + 1
    <3>1. g \in G /\ Ascending(R)[g] = x
      BY <1>5, <1>6, <2>2
    <3> HIDE DEF g
    <3>2. QED
      BY <3>1 DEF PickedOf
  <2>3. QED
    BY <2>1, <2>2
<1>15. /\ Cardinality(X) = Cardinality(G) /\ X \in SUBSET (1..Len(steps))
       /\ \A k \in 1..Cardinality(G) : Ascending(X)[k] = Ascending(R)[Ascending(G)[k]]
  <2> HIDE DEF X
  <2> DEFINE n == Len(steps)
  <2>1. n \in Nat /\ R \in SUBSET (1..n) /\ G \in SUBSET (1..Cardinality(R)) /\ X = PickedOf(R, G)
    BY <1>3, <1>4, <1>5 DEF X
  <2> HIDE DEF n
  <2>2. /\ Cardinality(X) = Cardinality(G) /\ X \in SUBSET (1..n)
        /\ \A k \in 1..Cardinality(G) : Ascending(X)[k] = Ascending(R)[Ascending(G)[k]]
    BY <2>1, AscendingTwice
  <2>3. QED
    BY <2>2 DEF n
<1> HIDE DEF X
<1>16. /\ Cardinality(Y) = Cardinality(X) /\ Y \in SUBSET (1..Len(source)) /\ Y \subseteq K
       /\ \A k \in 1..Cardinality(X) : Ascending(Y)[k] = Ascending(K)[Ascending(X)[k]]
  <2> HIDE DEF Y
  <2> DEFINE n == Len(source)
  <2>1. n \in Nat /\ K \in SUBSET (1..n) /\ X \in SUBSET (1..Cardinality(K)) /\ Y = PickedOf(K, X)
    BY <1>2, <1>3, <1>15 DEF Y
  <2> HIDE DEF n
  <2>2. /\ Cardinality(Y) = Cardinality(X) /\ Y \in SUBSET (1..n) /\ Y \subseteq K
        /\ \A k \in 1..Cardinality(X) : Ascending(Y)[k] = Ascending(K)[Ascending(X)[k]]
    BY <2>1, AscendingTwice
  <2>3. QED
    BY <2>2 DEF n
<1>17. \A i \in 1..Len(source) : i \in Y <=> MeantFor(role, source[i])
  <2> TAKE i \in 1..Len(source)
  <2>1. ASSUME i \in Y PROVE MeantFor(role, source[i])
    <3>1. PICK x \in X : i = Ascending(K)[x]
      BY <2>1 DEF PickedOf
    <3>2. x \in 1..Len(steps) /\ steps[x].kind = "sql" /\ Runs(steps[x], role, o) /\ steps[x] = StepOf(source[i])
          /\ i \in K
      BY <1>3, <1>14, <1>15, <3>1
    <3>3. QED
      BY <1>11, <1>12, <3>2
  <2>2. ASSUME MeantFor(role, source[i]) PROVE i \in Y
    <3>1. i \in K /\ StepOf(source[i]).kind = "sql" /\ Runs(StepOf(source[i]), role, o)
      BY <1>11, <1>12, <2>2
    <3> DEFINE x == Place(K, i) + 1
    <3>2. x \in 1..Len(steps) /\ Ascending(K)[x] = i
      BY <1>2, <1>3, <3>1, AscendingAt
    <3> HIDE DEF x
    <3>3. steps[x] = StepOf(source[i])
      BY <1>3, <3>2
    <3>4. x \in X
      BY <1>14, <3>1, <3>2, <3>3
    <3>5. QED
      BY <3>2, <3>4 DEF PickedOf
  <2>3. QED
    BY <2>1, <2>2
<1>18. Y = Behind(M, d)
  <2>1. ASSUME NEW i \in M PROVE i + d \in Y
    <3>1. i \in 1..Len(q) /\ MeantFor(role, q[i]) /\ source[i + d] = q[i] /\ i + d \in 1..Len(source)
      BY <1>1, <1>2
    <3>2. QED
      BY <1>17, <3>1
  <2>2. ASSUME NEW j \in Y PROVE \E i \in M : j = i + d
    <3>1. j \in 1..Len(source) /\ MeantFor(role, source[j])
      BY <1>16, <1>17
    <3>2. d = 1 => j # 1 /\ j # Len(q) + 2
      BY <1>1, <1>13, <3>1
    <3>3. j - d \in 1..Len(q) /\ (j - d) + d = j
      BY <1>1, <1>2, <3>1, <3>2
    <3>4. j - d \in M
      BY <1>1, <3>1, <3>3
    <3>5. QED
      BY <3>3, <3>4
  <2> HIDE DEF Y, M
  <2>3. QED
    BY <2>1, <2>2 DEF Behind
<1>19. M \in SUBSET (1..Len(q))
  OBVIOUS
<1> HIDE DEF M, Y
<1>20. /\ Cardinality(Y) = Cardinality(M)
       /\ \A k \in 1..Cardinality(M) : Ascending(Y)[k] = Ascending(M)[k] + d
  <2> DEFINE n == Len(q)
  <2>1. n \in Nat /\ M \in SUBSET (1..n) /\ d \in Nat
    BY <1>2, <1>19
  <2> HIDE DEF n
  <2>2. QED
    BY <1>18, <2>1, AscendingBehind
<1>21. /\ DOMAIN Ascending(G) = 1..Cardinality(G) /\ Cardinality(G) \in Nat
       /\ \A k \in 1..Cardinality(G) : Ascending(G)[k] \in G
  BY <1>4, <1>5, AscendingAt
<1>22. /\ DOMAIN Ascending(M) = 1..Cardinality(M) /\ Cardinality(M) \in Nat
       /\ \A k \in 1..Cardinality(M) : Ascending(M)[k] \in M
  BY <1>2, <1>19, AscendingAt
<1>23. Len(given) = Cardinality(G) /\ \A k \in 1..Cardinality(G) : given[k] = run[Ascending(G)[k]]
  BY <1>8, <1>21, SelectionAt
<1>24. Len(meant) = Cardinality(M) /\ \A k \in 1..Cardinality(M) : meant[k] = q[Ascending(M)[k]]
  BY <1>10, <1>22, SelectionAt
<1>25. Cardinality(G) = Cardinality(M)
  BY <1>15, <1>16, <1>20
<1>26. ASSUME NEW k \in 1..Cardinality(M) PROVE given[k].sql = meant[k].sql
  <2> DEFINE g == Ascending(G)[k]
             x == Ascending(R)[g]
             i == Ascending(M)[k]
  <2>1. g \in G /\ given[k] = run[g]
    BY <1>21, <1>23, <1>25
  <2>2. x \in 1..Len(steps) /\ run[g] = steps[x]
    BY <1>5, <1>6, <2>1
  <2>3. Ascending(X)[k] = x
    BY <1>15, <1>25
  <2>4. Ascending(Y)[k] = Ascending(K)[x]
    BY <1>15, <1>16, <1>25, <2>3
  <2>5. Ascending(Y)[k] = i + d
    BY <1>20
  <2>6. i \in M /\ meant[k] = q[i]
    BY <1>22, <1>24
  <2> HIDE DEF g, x, i
  <2>7. steps[x] = StepOf(source[i + d])
    BY <1>3, <2>2, <2>4, <2>5
  <2>8. source[i + d] = q[i]
    BY <1>1, <1>19, <2>6
  <2>9. StepOf(q[i]).sql = q[i].sql
    BY DEF StepOf
  <2>10. QED
    BY <2>1, <2>2, <2>6, <2>7, <2>8, <2>9
<1>27. [k \in 1..Len(given) |-> given[k].sql] = [k \in 1..Len(meant) |-> meant[k].sql]
  BY <1>23, <1>24, <1>25, <1>26
<1>28. QED
  BY <1>27 DEF StatementsAreRun, given, meant, run, q

\* The connections share one database.
LEMMA Shared ==
  ASSUME NEW o \in OptionTypes, platform \in {"android", "ios"}
  PROVE  \/ o.serialized = "false" /\ (platform = "ios" \/ o.path # ":memory:")
         \/ OneDatabase(IF platform = "android" THEN AndroidPath(o) ELSE IOSPath(o), o)
<1> DEFINE path == IF platform = "android" THEN AndroidPath(o) ELSE IOSPath(o)
           shared == "file::memory:?cache=shared"
<1>1. o.serialized \in {"undefined", "true", "false"}
  BY DEF OptionTypes
<1>2. CASE Serialized(o)
  BY <1>2 DEF OneDatabase
<1>3. CASE ~Serialized(o)
  <2>1. o.serialized # "true"
    BY <1>3 DEF Serialized
  <2>2. CASE o.serialized = "undefined"
    <3>1. ~InMemory(o.path)
      BY <1>3, <2>2 DEF Serialized
    <3>2. o.path # ":memory:"
      BY <3>1 DEF InMemory
    <3>3. path = o.path
      BY <3>2 DEF AndroidPath, IOSPath
    <3>4. OneDatabase(path, o)
      BY <3>1, <3>3 DEF OneDatabase
    <3>5. QED
      BY <3>4
  <2>3. CASE o.serialized = "false"
    <3>1. CASE platform = "android" /\ o.path = ":memory:"
      <4>1. path = shared
        BY <1>3, <3>1 DEF AndroidPath
      <4>2. OneDatabase(path, o)
        BY <4>1 DEF OneDatabase
      <4>3. QED
        BY <4>2
    <3>2. QED
      BY <2>3, <3>1
  <2>4. QED
    BY <1>1, <2>1, <2>2, <2>3
<1>4. QED
  BY <1>2, <1>3

\* Only the writer switches to WAL.
LEMMA WalOnWriter ==
  ASSUME NEW o \in OptionTypes, NEW role, At(Performed(role, o), "wal") # {}
  PROVE  role = "writer" /\ ~o.readOnly
<1>1. PICK w : w \in At(Performed(role, o), "wal")
  OBVIOUS
<1> DEFINE s == Steps(o)[Ascending(RunPlaces(role, o))[w]]
<1>2. Runs(s, role, o) /\ Performed(role, o)[w] = s
  BY <1>1, RunOf
<1>3. Performed(role, o)[w].kind = "wal"
  BY <1>1 DEF At
<1> HIDE DEF s
<1>4. QED
  BY <1>2, <1>3 DEF Runs

LEMMA OpenSound ==
  ASSUME platform \in {"android", "ios"}, phase = "opening" => options \in OptionSets
  PROVE  OpenIsSound
<1> SUFFICES ASSUME phase = "opening", Accepted(options) PROVE OpenIsSound
  BY DEF OpenIsSound
<1>1. options \in OptionTypes
  BY OptionSetsAssumption
<1>2. ASSUME NEW role \in Roles(options)
      PROVE  /\ KeyIsSound(role, options) /\ StatementsAreRun(role, options)
             /\ At(Performed(role, options), "wal") # {} => role = "writer" /\ ~options.readOnly
  <2>1. role \in {"writer", "readers"}
    BY DEF Roles
  <2>2. QED
    BY <1>1, <2>1, KeySound, StatementsRun, WalOnWriter
<1>3. QED
  BY <1>1, <1>2, Shared DEF OpenIsSound

-----------------------------------------------------------------------------
(* SqliteSession: the calls open in one another and SQLite's stack.         *)

\* What the variables hold, for any parameters.
Names  == {"BEGIN", "_sp", "sp"} \X Nat
Tables == Seq(Params)
Marks  == [name : Names, saved : Tables]
Stages == {"running", "undoing", "dropping"}
OpenCalls == [name : Names, stage : Stages, found : Tables]

\* Where the youngest savepoint of a name is on a stack.
IsYoungest(s, name, k) ==
  /\ k \in 1..Len(s) /\ s[k].name = name
  /\ \A j \in 1..Len(s) : j > k => s[j].name # name

\* Every call finds the savepoint it made by its name, and above those of the calls it is in.
Holds(s, f) ==
  /\ \A i \in 1..Len(f) : \E k \in 1..Len(s) : IsYoungest(s, f[i].name, k) /\ s[k].saved = f[i].found
  /\ \A i, j \in 1..Len(f) : \A k, l \in 1..Len(s) :
       i < j /\ IsYoungest(s, f[i].name, k) /\ IsYoungest(s, f[j].name, l) => k < l

\* BEGIN is at the bottom and nowhere else.
Based(s) ==
  /\ s # <<>> /\ s[1].name = BeginName
  /\ \A j \in 2..Len(s) : s[j].name # BeginName

\* The driver numbers its savepoints by depth, the plugin with numbers it has not used.
Numbered(s, f) ==
  /\ f[1].name = BeginName
  /\ driver = "drizzle" => \A i \in 2..Len(f) : f[i].name = <<"sp", i - 2>>
  /\ driver = "plugin" =>
       \A j \in 2..Len(s) : \E n \in 0..(counter - 1) : s[j].name = <<"_sp", n>>

\* The types of what the transactions use.
SessionTypes ==
  /\ platform \in {"android", "ios"} /\ driver \in {"plugin", "drizzle"}
  /\ table \in Tables /\ stack \in Seq(Marks) /\ frames \in Seq(OpenCalls)
  /\ counter \in Nat

\* Only the youngest call can be on its way out, and then something went wrong.
Staged ==
  /\ \A i \in 1..Len(frames) : frames[i].stage # "running" =>
       i = Len(frames) /\ fault \in {"callback", "commit", "misuse"}
  /\ Is("dropping") => Len(frames) > 1

\* The invariant: BEGIN is on the stack as long as a call is open, but for a COMMIT that
\* failed, after which only the rollback of the outermost call is left.
SessionInv ==
  /\ SessionTypes /\ Staged /\ CallersErrorWins
  /\ frames = <<>> => stack = <<>>
  /\ frames # <<>> => answer = "pending"
  /\ frames # <<>> /\ stack = <<>> => Len(frames) = 1 /\ Is("undoing")
  /\ stack # <<>> => Based(stack) /\ Holds(stack, frames) /\ Numbered(stack, frames)

-----------------------------------------------------------------------------
(* Savepoints on a stack.                                                   *)

\* SQLite finds the youngest savepoint of a name, and there is one.
LEMMA YoungestIs ==
  ASSUME NEW name, NEW k, stack \in Seq(Marks), IsYoungest(stack, name, k)
  PROVE  Youngest(name) = k
<1> DEFINE P(i) == /\ i = 0 \/ stack[i].name = name
                   /\ \A j \in (i + 1)..Len(stack) : stack[j].name # name
<1>1. Len(stack) \in Nat /\ k \in 1..Len(stack)  BY DEF IsYoungest
<1>2. k \in 0..Len(stack) /\ P(k)  BY <1>1 DEF IsYoungest
<1>3. ASSUME NEW i \in 0..Len(stack), P(i) PROVE i = k
  <2>1. CASE i < k  BY <1>1, <1>3, <2>1 DEF IsYoungest
  <2>2. CASE i > k  BY <1>1, <1>3, <2>2 DEF IsYoungest
  <2> QED  BY <1>1, <2>1, <2>2
<1>4. Youngest(name) = CHOOSE i \in 0..Len(stack) : P(i)  BY DEF Youngest
<1> HIDE DEF P
<1> QED  BY <1>2, <1>3, <1>4

LEMMA YoungestOne ==
  ASSUME NEW s \in Seq(Marks), NEW name, NEW k, NEW l,
         IsYoungest(s, name, k), IsYoungest(s, name, l)
  PROVE  k = l
BY DEF IsYoungest

\* A savepoint of a new name hides none.
LEMMA Pushed ==
  ASSUME NEW s \in Seq(Marks), NEW m \in Marks
  PROVE  /\ Append(s, m) \in Seq(Marks)
         /\ IsYoungest(Append(s, m), m.name, Len(s) + 1)
         /\ \A name, k : name # m.name => (IsYoungest(Append(s, m), name, k) <=> IsYoungest(s, name, k))
<1>1. /\ Append(s, m) \in Seq(Marks) /\ Len(Append(s, m)) = Len(s) + 1 /\ Len(s) \in Nat
      /\ Append(s, m)[Len(s) + 1] = m
      /\ \A j \in 1..Len(s) : Append(s, m)[j] = s[j]
  OBVIOUS
<1>2. IsYoungest(Append(s, m), m.name, Len(s) + 1)  BY <1>1 DEF IsYoungest
<1>3. ASSUME NEW name, NEW k, name # m.name
      PROVE  IsYoungest(Append(s, m), name, k) <=> IsYoungest(s, name, k)
  <2>1. IsYoungest(s, name, k) => IsYoungest(Append(s, m), name, k)
    BY <1>1, <1>3 DEF IsYoungest
  <2>2. IsYoungest(Append(s, m), name, k) => IsYoungest(s, name, k)
    BY <1>1, <1>3 DEF IsYoungest
  <2> QED  BY <2>1, <2>2
<1> QED  BY <1>1, <1>2, <1>3

\* Cutting a stack above a savepoint leaves it the youngest of its name.
LEMMA CutAt ==
  ASSUME NEW s \in Seq(Marks), NEW n \in 0..Len(s)
  PROVE  /\ SubSeq(s, 1, n) \in Seq(Marks) /\ Len(SubSeq(s, 1, n)) = n
         /\ \A j \in 1..n : SubSeq(s, 1, n)[j] = s[j]
         /\ \A name, k : IsYoungest(s, name, k) /\ k <= n => IsYoungest(SubSeq(s, 1, n), name, k)
<1>1. /\ SubSeq(s, 1, n) \in Seq(Marks) /\ Len(SubSeq(s, 1, n)) = n /\ Len(s) \in Nat
      /\ \A j \in 1..n : SubSeq(s, 1, n)[j] = s[j]
  OBVIOUS
<1>2. ASSUME NEW name, NEW k, IsYoungest(s, name, k), k <= n
      PROVE  IsYoungest(SubSeq(s, 1, n), name, k)
  BY <1>1, <1>2 DEF IsYoungest
<1> QED  BY <1>1, <1>2

\* Holds looks at the names and at what the calls found.
SameCalls(f, g) ==
  Len(g) = Len(f) /\ \A i \in 1..Len(f) : g[i].name = f[i].name /\ g[i].found = f[i].found

LEMMA HoldsSame ==
  ASSUME NEW s \in Seq(Marks), NEW f \in Seq(OpenCalls), NEW g \in Seq(OpenCalls),
         SameCalls(f, g), Holds(s, f)
  PROVE  Holds(s, g)
BY DEF SameCalls, Holds

\* A call that begins finds the savepoint it has made.
LEMMA HoldsPushed ==
  ASSUME NEW s \in Seq(Marks), NEW f \in Seq(OpenCalls), NEW name \in Names, NEW t \in Tables,
         NEW c \in OpenCalls, c.name = name, c.found = t, Holds(s, f),
         \A i \in 1..Len(f) : f[i].name # name
  PROVE  Holds(Append(s, [name |-> name, saved |-> t]), Append(f, c))
<1> DEFINE m == [name |-> name, saved |-> t]
           r == Append(s, m)
           g == Append(f, c)
<1>1. m \in Marks /\ m.name = name /\ m.saved = t  BY DEF Marks
<1>2. /\ r \in Seq(Marks) /\ IsYoungest(r, name, Len(s) + 1)
      /\ \A nm, k : nm # name => (IsYoungest(r, nm, k) <=> IsYoungest(s, nm, k))
  BY <1>1, Pushed
<1>3. /\ Len(r) = Len(s) + 1 /\ Len(s) \in Nat /\ r[Len(s) + 1] = m
      /\ \A j \in 1..Len(s) : r[j] = s[j]
  BY <1>1
<1>4. /\ Len(g) = Len(f) + 1 /\ Len(f) \in Nat /\ g[Len(f) + 1] = c
      /\ \A j \in 1..Len(f) : g[j] = f[j]
  OBVIOUS
<1> HIDE DEF m, r, g
<1>5. ASSUME NEW i \in 1..Len(g)
      PROVE  \E k \in 1..Len(r) : IsYoungest(r, g[i].name, k) /\ r[k].saved = g[i].found
  <2>1. CASE i = Len(f) + 1  BY <1>1, <1>2, <1>3, <1>4, <2>1
  <2>2. CASE i \in 1..Len(f)
    <3>1. PICK k \in 1..Len(s) : IsYoungest(s, f[i].name, k) /\ s[k].saved = f[i].found
      BY <2>2 DEF Holds
    <3>2. k \in 1..Len(r) /\ IsYoungest(r, g[i].name, k) /\ r[k].saved = g[i].found
      BY <3>1, <2>2, <1>2, <1>3, <1>4
    <3> QED  BY <3>2
  <2> QED  BY <1>4, <2>1, <2>2
<1>6. ASSUME NEW i \in 1..Len(g), NEW j \in 1..Len(g), NEW k \in 1..Len(r), NEW l \in 1..Len(r),
             i < j, IsYoungest(r, g[i].name, k), IsYoungest(r, g[j].name, l)
      PROVE  k < l
  <2>1. i \in 1..Len(f) /\ g[i] = f[i] /\ IsYoungest(s, f[i].name, k)  BY <1>2, <1>4, <1>6
  <2>2. k \in 1..Len(s)  BY <2>1 DEF IsYoungest
  <2>3. CASE j = Len(f) + 1
    <3>1. l = Len(s) + 1  BY <1>2, <1>4, <1>6, <2>3, YoungestOne
    <3> QED  BY <3>1, <2>2, <1>3
  <2>4. CASE j \in 1..Len(f)
    <3>1. g[j] = f[j] /\ IsYoungest(s, f[j].name, l)  BY <1>2, <1>4, <1>6, <2>4
    <3>2. l \in 1..Len(s)  BY <3>1 DEF IsYoungest
    <3> QED  BY <3>1, <3>2, <2>1, <2>2, <2>4, <1>6 DEF Holds
  <2> QED  BY <1>4, <2>3, <2>4
<1> QED  BY <1>5, <1>6 DEF Holds, m, r, g

\* Of a stack cut above the savepoint of a call, its own and those of the calls it is in stay.
LEMMA HoldsCut ==
  ASSUME NEW s \in Seq(Marks), NEW f \in Seq(OpenCalls), Holds(s, f),
         NEW g \in Seq(OpenCalls), NEW n \in 0..Len(s),
         Len(g) <= Len(f), \A i \in 1..Len(g) : g[i].name = f[i].name /\ g[i].found = f[i].found,
         \A i \in 1..Len(g) : \A k \in 1..Len(s) : IsYoungest(s, f[i].name, k) => k <= n
  PROVE  Holds(SubSeq(s, 1, n), g)
<1> DEFINE r == SubSeq(s, 1, n)
<1>1. /\ r \in Seq(Marks) /\ Len(r) = n /\ \A j \in 1..n : r[j] = s[j]
      /\ \A name, k : IsYoungest(s, name, k) /\ k <= n => IsYoungest(r, name, k)
  BY CutAt
<1> HIDE DEF r
<1>2. Len(f) \in Nat /\ Len(g) \in Nat /\ Len(s) \in Nat /\ 1..Len(g) \subseteq 1..Len(f) /\ n \in Nat
  OBVIOUS
<1>3. ASSUME NEW i \in 1..Len(g)
      PROVE  \E k \in 1..n : IsYoungest(s, f[i].name, k) /\ IsYoungest(r, g[i].name, k) /\ r[k].saved = g[i].found
  <2>1. PICK k \in 1..Len(s) : IsYoungest(s, f[i].name, k) /\ s[k].saved = f[i].found
    BY <1>2 DEF Holds
  <2>2. k \in 1..n  BY <2>1, <1>2
  <2> QED  BY <2>1, <2>2, <1>1, <1>2
<1>4. ASSUME NEW i \in 1..Len(g), NEW j \in 1..Len(g), NEW k \in 1..Len(r), NEW l \in 1..Len(r),
             i < j, IsYoungest(r, g[i].name, k), IsYoungest(r, g[j].name, l)
      PROVE  k < l
  <2>1. IsYoungest(s, f[i].name, k)  BY <1>1, <1>3, <1>4, YoungestOne
  <2>2. IsYoungest(s, f[j].name, l)  BY <1>1, <1>3, <1>4, YoungestOne
  <2>3. k \in 1..Len(s) /\ l \in 1..Len(s)  BY <2>1, <2>2 DEF IsYoungest
  <2> QED  BY <1>2, <1>4, <2>1, <2>2, <2>3 DEF Holds
<1> QED  BY <1>1, <1>3, <1>4 DEF Holds, r

-----------------------------------------------------------------------------
(* What NestedTransactions sees.                                            *)

\* What the calls found.
Founds(f) == [i \in 1..Len(f) |-> f[i].found]

\* Ended, Open and the answer it maps to, as functions of the stack and the calls.
Gone(s, f) == f # <<>> /\ (Last(f).stage = "dropping" \/ s = <<>>)
OpenOf(s, f) == IF Gone(s, f) THEN Front(f) ELSE f
AnswerOf(s, f, a) == IF Gone(s, f) /\ Len(f) = 1 THEN "rejected" ELSE a

\* The tables the open calls found follow the calls.
LEMMA FoundsOf ==
  ASSUME NEW f \in Seq(OpenCalls)
  PROVE  /\ Founds(f) \in Seq(Tables) /\ Len(Founds(f)) = Len(f)
         /\ \A i \in 1..Len(f) : Founds(f)[i] = f[i].found
         /\ Founds(f) = <<>> <=> f = <<>>
<1>0. \A c \in OpenCalls : c.found \in Tables  BY DEF OpenCalls
<1>1. \A i \in 1..Len(f) : f[i].found \in Tables  BY <1>0
<1>2. Len(f) \in Nat  OBVIOUS
<1>3. /\ Founds(f) \in Seq(Tables) /\ Len(Founds(f)) = Len(f)
      /\ \A i \in 1..Len(f) : Founds(f)[i] = f[i].found
  BY <1>1, <1>2 DEF Founds
<1>4. Founds(f) = <<>> <=> f = <<>>  BY <1>3
<1> QED  BY <1>3, <1>4

LEMMA FoundsSame ==
  ASSUME NEW f \in Seq(OpenCalls), NEW g \in Seq(OpenCalls), SameCalls(f, g)
  PROVE  Founds(g) = Founds(f)
BY FoundsOf DEF SameCalls, Founds

LEMMA FoundsAppend ==
  ASSUME NEW f \in Seq(OpenCalls), NEW c \in OpenCalls
  PROVE  Founds(Append(f, c)) = Append(Founds(f), c.found)
<1> DEFINE g == Append(f, c)
           h == Append(Founds(f), c.found)
<1>1. g \in Seq(OpenCalls) /\ Len(g) = Len(f) + 1 /\ Len(f) \in Nat /\ g[Len(f) + 1] = c /\ \A i \in 1..Len(f) : g[i] = f[i]
  OBVIOUS
<1>2. c.found \in Tables  BY DEF OpenCalls
<1>3. /\ h \in Seq(Tables) /\ Len(h) = Len(f) + 1 /\ h[Len(f) + 1] = c.found
      /\ \A i \in 1..Len(f) : h[i] = f[i].found
  BY <1>2, FoundsOf
<1> HIDE DEF g, h
<1>4. /\ Founds(g) \in Seq(Tables) /\ Len(Founds(g)) = Len(g)
      /\ \A i \in 1..Len(g) : Founds(g)[i] = g[i].found
  BY <1>1, FoundsOf
<1>5. Len(Founds(g)) = Len(h) /\ \A i \in 1..Len(h) : Founds(g)[i] = h[i]  BY <1>1, <1>3, <1>4
<1>6. Founds(g) = h  BY <1>3, <1>4, <1>5
<1> QED  BY <1>6 DEF g, h

LEMMA FrontOf ==
  ASSUME NEW f \in Seq(OpenCalls), f # <<>>
  PROVE  /\ Front(f) \in Seq(OpenCalls) /\ Len(Front(f)) = Len(f) - 1 /\ Len(f) \in Nat \ {0}
         /\ \A i \in 1..(Len(f) - 1) : Front(f)[i] = f[i]
         /\ Last(f) = f[Len(f)] /\ Last(f) \in OpenCalls
<1>1. Len(f) \in Nat \ {0}  OBVIOUS
<1>2. Last(f) = f[Len(f)] /\ Last(f) \in OpenCalls  BY <1>1 DEF Last
<1>3. Front(f) = SubSeq(f, 1, Len(f) - 1)  BY DEF Front
<1>4. PICK n \in Nat : n = Len(f) - 1  BY <1>1
<1>5. /\ SubSeq(f, 1, n) \in Seq(OpenCalls) /\ Len(SubSeq(f, 1, n)) = n
      /\ \A i \in 1..n : SubSeq(f, 1, n)[i] = f[i]
  BY <1>1, <1>4
<1> QED  BY <1>1, <1>2, <1>3, <1>4, <1>5

LEMMA FoundsFront ==
  ASSUME NEW f \in Seq(OpenCalls), f # <<>>
  PROVE  /\ Founds(Front(f)) = Nested!Front(Founds(f))
         /\ Nested!Last(Founds(f)) = Last(f).found
<1>1. /\ Founds(f) \in Seq(Tables) /\ Len(Founds(f)) = Len(f)
      /\ \A i \in 1..Len(f) : Founds(f)[i] = f[i].found
      /\ Founds(f) # <<>>
  BY FoundsOf
<1>2. /\ Front(f) \in Seq(OpenCalls) /\ Len(Front(f)) = Len(f) - 1 /\ Len(f) \in Nat \ {0}
      /\ \A i \in 1..(Len(f) - 1) : Front(f)[i] = f[i]
      /\ Last(f) = f[Len(f)]
  BY FrontOf
<1>3. /\ Founds(Front(f)) \in Seq(Tables) /\ Len(Founds(Front(f))) = Len(f) - 1
      /\ \A i \in 1..(Len(f) - 1) : Founds(Front(f))[i] = f[i].found
  BY <1>2, FoundsOf
<1> DEFINE h == Nested!Front(Founds(f))
<1>4. h \in Seq(Tables) /\ Len(h) = Len(f) - 1 /\ \A i \in 1..(Len(f) - 1) : h[i] = f[i].found
  BY <1>1, <1>2 DEF Nested!Front
<1> HIDE DEF h
<1>5. Founds(Front(f)) = h  BY <1>2, <1>3, <1>4
<1> QED  BY <1>1, <1>2, <1>5 DEF h, Nested!Last

\* The steps of NestedTransactions, in the terms of this module.
LEMMA AbsSteps ==
  ASSUME NEW F, NEW A, NEW F1, NEW A1,
         F = Founds(OpenOf(stack, frames)), A = AnswerOf(stack, frames, answer),
         F1 = Founds(OpenOf(stack', frames')), A1 = AnswerOf(stack', frames', answer'),
         \/ F = <<>> /\ F1 = <<table>> /\ A1 = "pending" /\ table' = table
         \/ F # <<>> /\ F1 = Append(F, table) /\ A1 = A /\ table' = table
         \/ F # <<>> /\ F1 = F /\ A1 = A /\ \E p \in Params : table' = Append(table, p)
         \/ F # <<>> /\ F1 = Nested!Front(F) /\ table' = table
            /\ A1 = IF Len(F) = 1 THEN "resolved" ELSE A
         \/ F # <<>> /\ F1 = Nested!Front(F) /\ table' = Nested!Last(F)
            /\ A1 = IF Len(F) = 1 THEN "rejected" ELSE A
         \/ F1 = F /\ A1 = A /\ table' = table
  PROVE  [Nested!AbsNext]_Nested!absVars
<1>1. F = [i \in 1..Len(Open) |-> Open[i].found] /\ A = IF Ended /\ Len(frames) = 1 THEN "rejected" ELSE answer
  BY DEF Founds, OpenOf, AnswerOf, Gone, Open, Ended, Top
<1>2. F1 = [i \in 1..Len(Open) |-> Open[i].found]' /\ A1 = (IF Ended /\ Len(frames) = 1 THEN "rejected" ELSE answer)'
  BY DEF Founds, OpenOf, AnswerOf, Gone, Open, Ended, Top
<1> QED
  BY <1>1, <1>2 DEF Nested!AbsNext, Nested!absVars, Nested!Begins, Nested!Nests, Nested!Writes,
     Nested!Keeps, Nested!Undoes, Nested!Answers

-----------------------------------------------------------------------------
(* The steps.                                                               *)

\* A step of NestedTransactions, or nothing it sees.
Simulates == [Nested!AbsNext]_Nested!absVars

\* Only the stage of the youngest call changes.
WithStage(f, stage) == [f EXCEPT ![Len(f)].stage = stage]

LEMMA StageSet ==
  ASSUME NEW stage \in Stages, NEW f \in Seq(OpenCalls), f # <<>>,
         NEW h, h = WithStage(f, stage)
  PROVE  /\ h \in Seq(OpenCalls) /\ SameCalls(f, h) /\ h # <<>>
         /\ Last(h).stage = stage /\ Last(h).found = Last(f).found
         /\ \A i \in 1..(Len(f) - 1) : h[i] = f[i]
<1> DEFINE n == Len(f)
           c == [f[n] EXCEPT !.stage = stage]
           g == [f EXCEPT ![n] = c]
<1>1. n \in Nat \ {0} /\ f[n] \in OpenCalls  OBVIOUS
<1>2. c \in OpenCalls /\ c.stage = stage /\ c.name = f[n].name /\ c.found = f[n].found
  BY <1>1 DEF OpenCalls
<1> HIDE DEF c
<1>3. /\ g \in Seq(OpenCalls) /\ Len(g) = n /\ g[n] = c /\ \A i \in 1..(n - 1) : g[i] = f[i]
      /\ g # <<>>
  BY <1>1, <1>2
<1> HIDE DEF g
<1>4. SameCalls(f, g)
  <2>1. ASSUME NEW i \in 1..Len(f) PROVE g[i].name = f[i].name /\ g[i].found = f[i].found
    BY <1>1, <1>2, <1>3
  <2> QED  BY <1>3, <2>1 DEF SameCalls
<1>5. Last(g) = c /\ Last(f) = f[n]  BY <1>3 DEF Last
<1>6. g = h  BY DEF g, c, WithStage
<1> QED  BY <1>2, <1>3, <1>4, <1>5, <1>6

\* A step within a transaction that SQLite still has open afterwards.
LEMMA Within ==
  ASSUME SessionInv, frames # <<>>,
         table' \in Tables, stack' \in Seq(Marks), frames' \in Seq(OpenCalls), counter' \in Nat,
         UNCHANGED <<platform, driver, answer>>,
         frames' # <<>>, stack' # <<>>, Staged',
         Based(stack'), Holds(stack', frames'), Numbered(stack, frames) => Numbered(stack, frames)',
         stack # <<>>
  PROVE  SessionInv'
<1>1. answer' = "pending"  BY DEF SessionInv
<1>2. SessionTypes'  BY DEF SessionInv, SessionTypes
<1>3. CallersErrorWins'  BY <1>1 DEF CallersErrorWins
<1> QED  BY <1>1, <1>2, <1>3 DEF SessionInv

\* NestedTransactions sees all calls but one that is on its way out.
LEMMA StillOpen ==
  ASSUME NEW s, NEW f, NEW a, s # <<>>, f # <<>> => Last(f).stage # "dropping"
  PROVE  OpenOf(s, f) = f /\ AnswerOf(s, f, a) = a
BY DEF OpenOf, AnswerOf, Gone

\* A transaction SQLite has open.
LEMMA Opened ==
  ASSUME SessionInv, frames # <<>>, stack # <<>>
  PROVE  /\ stack \in Seq(Marks) /\ frames \in Seq(OpenCalls) /\ table \in Tables
         /\ Len(stack) \in Nat \ {0} /\ Len(frames) \in Nat \ {0}
         /\ Based(stack) /\ Holds(stack, frames) /\ Numbered(stack, frames)
         /\ answer = "pending" /\ Top = frames[Len(frames)] /\ Top \in OpenCalls
         /\ \A i \in 1..(Len(frames) - 1) : frames[i].stage = "running"
         /\ Top.stage # "running" => fault \in {"callback", "commit", "misuse"}
<1>1. stack \in Seq(Marks) /\ frames \in Seq(OpenCalls) /\ table \in Tables  BY DEF SessionInv, SessionTypes
<1>2. Len(stack) \in Nat \ {0} /\ Len(frames) \in Nat \ {0}  BY <1>1
<1>3. Top = frames[Len(frames)] /\ Top \in OpenCalls  BY <1>1, FrontOf DEF Top
<1> QED  BY <1>1, <1>2, <1>3 DEF SessionInv, Staged

\* While a callback runs, and in a nested call, SQLite has the transaction open.
LEMMA RunningOne ==
  ASSUME SessionInv, Is("running")
  PROVE  frames # <<>> /\ stack # <<>> /\ Top.stage = "running"
BY DEF SessionInv, Is

LEMMA DeepOne ==
  ASSUME SessionInv, Len(frames) > 1
  PROVE  frames # <<>> /\ stack # <<>>
<1>1. frames # <<>>  OBVIOUS
<1>2. frames \in Seq(OpenCalls)  BY DEF SessionInv, SessionTypes
<1>3. Len(frames) # 1
  <2>1. Len(frames) \in Nat  BY <1>2
  <2>2. \A n \in Nat : n > 1 => n # 1  OBVIOUS
  <2> QED  BY <2>1, <2>2
<1> QED  BY <1>1, <1>3 DEF SessionInv

\* The savepoint of the youngest call.
LEMMA TopOne ==
  ASSUME SessionInv, frames # <<>>, stack # <<>>
  PROVE  LET k == Youngest(Top.name) IN
         /\ k \in 1..Len(stack) /\ IsYoungest(stack, Top.name, k) /\ stack[k].saved = Top.found
         /\ Len(frames) > 1 => k > 1
         /\ \A i \in 1..Len(frames) : \A l \in 1..Len(stack) :
              IsYoungest(stack, frames[i].name, l) => l <= k /\ (i < Len(frames) => l < k)
         /\ Len(frames) = 1 => k = 1
<1> DEFINE n == Len(frames)
<1>1. /\ stack \in Seq(Marks) /\ frames \in Seq(OpenCalls) /\ n \in Nat \ {0}
      /\ Based(stack) /\ Holds(stack, frames) /\ Numbered(stack, frames) /\ Top = frames[n]
  BY Opened
<1>2. PICK k \in 1..Len(stack) : IsYoungest(stack, Top.name, k) /\ stack[k].saved = Top.found
  BY <1>1 DEF Holds
<1>3. Youngest(Top.name) = k  BY <1>1, <1>2, YoungestIs
<1>4. ASSUME NEW i \in 1..n, NEW l \in 1..Len(stack), IsYoungest(stack, frames[i].name, l)
      PROVE  l <= k /\ (i < n => l < k)
  <2>1. CASE i < n
    <3>1. IsYoungest(stack, frames[n].name, k) /\ n \in 1..n  BY <1>1, <1>2
    <3>2. l < k  BY <1>1, <1>4, <2>1, <3>1 DEF Holds
    <3> QED  BY <3>2
  <2>2. CASE i = n
    <3>1. l = k  BY <1>1, <1>2, <1>4, <2>2, YoungestOne
    <3> QED  BY <3>1, <1>1, <2>2
  <2> QED  BY <1>1, <1>4, <2>1, <2>2
<1>5. IsYoungest(stack, frames[1].name, 1)
  BY <1>1 DEF Based, Numbered, IsYoungest
<1>6. 1 \in 1..Len(stack)  BY <1>1 DEF Based
<1>7. n > 1 => k > 1  BY <1>1, <1>4, <1>5, <1>6
<1>8. n = 1 => k = 1  BY <1>1, <1>2, <1>5, YoungestOne
<1> QED  BY <1>2, <1>3, <1>4, <1>7, <1>8

\* No open call has the name of the next savepoint.
LEMMA NewName ==
  ASSUME SessionInv, frames # <<>>, stack # <<>>
  PROVE  /\ SavepointName \in Names /\ SavepointName # BeginName
         /\ \A i \in 1..Len(frames) : frames[i].name # SavepointName
<1>1. /\ stack \in Seq(Marks) /\ frames \in Seq(OpenCalls) /\ Len(frames) \in Nat \ {0}
      /\ Based(stack) /\ Holds(stack, frames) /\ Numbered(stack, frames)
  BY Opened
<1>2. counter \in Nat /\ driver \in {"plugin", "drizzle"}  BY DEF SessionInv, SessionTypes
<1>3. CASE driver = "drizzle"
  <2>1. SavepointName = <<"sp", Len(frames) - 1>>  BY <1>3 DEF SavepointName
  <2>2. frames[1].name = <<"BEGIN", 0>> /\ \A i \in 2..Len(frames) : frames[i].name = <<"sp", i - 2>>
    BY <1>1, <1>3 DEF Numbered, BeginName
  <2>3. ASSUME NEW i \in 1..Len(frames) PROVE frames[i].name # SavepointName
    <3>1. CASE i = 1  BY <2>1, <2>2, <3>1
    <3>2. CASE i \in 2..Len(frames)
      <4>1. i - 2 # Len(frames) - 1  BY <1>1, <3>2
      <4> QED  BY <4>1, <2>1, <2>2, <3>2
    <3> QED  BY <1>1, <3>1, <3>2
  <2> QED  BY <2>1, <2>3, <1>1 DEF Names, BeginName
<1>4. CASE driver = "plugin"
  <2>1. SavepointName = <<"_sp", counter>>  BY <1>4 DEF SavepointName
  <2>2. \A j \in 1..Len(stack) : stack[j].name # SavepointName
    <3>1. stack[1].name # SavepointName  BY <1>1, <2>1 DEF Based, BeginName
    <3>2. ASSUME NEW j \in 2..Len(stack) PROVE stack[j].name # SavepointName
      <4>1. PICK m \in 0..(counter - 1) : stack[j].name = <<"_sp", m>>  BY <1>1, <1>4 DEF Numbered
      <4>2. m # counter  BY <1>2
      <4> QED  BY <4>1, <4>2, <2>1
    <3> QED  BY <1>1, <3>1, <3>2
  <2>3. ASSUME NEW i \in 1..Len(frames) PROVE frames[i].name # SavepointName
    <3>1. PICK k \in 1..Len(stack) : IsYoungest(stack, frames[i].name, k)  BY <1>1 DEF Holds
    <3> QED  BY <3>1, <2>2 DEF IsYoungest
  <2> QED  BY <2>1, <2>3, <1>2 DEF Names, BeginName
<1> QED  BY <1>2, <1>3, <1>4

\* What is left when the stack is cut between the savepoints of the calls that stay and the
\* others.
LEMMA Cuts ==
  ASSUME SessionInv, frames # <<>>, stack # <<>>,
         NEW n \in 1..Len(stack), stack' = SubSeq(stack, 1, n),
         frames' \in Seq(OpenCalls), frames' # <<>>, Len(frames') <= Len(frames),
         \A i \in 1..Len(frames') : frames'[i].name = frames[i].name /\ frames'[i].found = frames[i].found,
         \A i \in 1..Len(frames') : \A k \in 1..Len(stack) :
           IsYoungest(stack, frames[i].name, k) => k <= n,
         UNCHANGED <<driver, counter>>
  PROVE  /\ stack' \in Seq(Marks) /\ stack' # <<>>
         /\ Based(stack') /\ Holds(stack', frames') /\ Numbered(stack, frames)'
<1>1. /\ stack \in Seq(Marks) /\ frames \in Seq(OpenCalls) /\ Len(stack) \in Nat \ {0}
      /\ Based(stack) /\ Holds(stack, frames) /\ Numbered(stack, frames)
  BY Opened
<1>2. /\ stack' \in Seq(Marks) /\ Len(stack') = n /\ n \in Nat \ {0}
      /\ \A j \in 1..n : stack'[j] = stack[j]
  BY <1>1, CutAt
<1>3. stack' # <<>> /\ \A j \in 2..Len(stack') : j \in 2..Len(stack) /\ stack'[j] = stack[j]
  <2>1. stack' # <<>>  BY <1>2
  <2>2. \A j \in 2..n : j \in 1..n /\ j \in 2..Len(stack)  BY <1>1, <1>2
  <2> QED  BY <2>1, <2>2, <1>2
<1>4. Holds(stack', frames')  BY <1>1, HoldsCut
<1>5. Based(stack')
  <2>1. stack'[1].name = BeginName  BY <1>1, <1>2 DEF Based
  <2>2. \A j \in 2..Len(stack') : stack'[j].name # BeginName  BY <1>1, <1>3 DEF Based
  <2> QED  BY <1>3, <2>1, <2>2 DEF Based
<1>6. Numbered(stack, frames)'
  <2>1. Len(frames') \in Nat \ {0}  OBVIOUS
  <2>2. frames'[1].name = BeginName  BY <1>1, <2>1 DEF Numbered
  <2>3. driver = "drizzle" => \A i \in 2..Len(frames') : frames'[i].name = <<"sp", i - 2>>
    BY <1>1, <2>1 DEF Numbered
  <2>4. driver = "plugin" =>
          \A j \in 2..Len(stack') : \E m \in 0..(counter - 1) : stack'[j].name = <<"_sp", m>>
    BY <1>1, <1>3 DEF Numbered
  <2> QED  BY <2>2, <2>3, <2>4 DEF Numbered
<1> QED  BY <1>2, <1>3, <1>4, <1>5, <1>6

\* The steps, one by one: each keeps the invariant and does what NestedTransactions allows.
LEMMA ExecuteStep ==
  ASSUME SessionInv, Execute
  PROVE  SessionInv' /\ Simulates
<1>1. frames # <<>> /\ stack # <<>> /\ Top.stage = "running"  BY RunningOne DEF Execute
<1>2. /\ stack \in Seq(Marks) /\ frames \in Seq(OpenCalls) /\ table \in Tables
      /\ Based(stack) /\ Holds(stack, frames)
  BY <1>1, Opened
<1>3. UNCHANGED <<stack, apiVars, callVars>> /\ \E p \in Params : table' = Append(table, p)
  BY DEF Execute
<1>4. UNCHANGED <<platform, driver, frames, counter, answer, fault>>
  BY <1>3 DEF apiVars, callVars
<1>5. table' \in Tables  BY <1>2, <1>3 DEF Tables
<1>6. Numbered(stack, frames) => Numbered(stack, frames)'  BY <1>3, <1>4 DEF Numbered
<1>7. Staged'  BY <1>4 DEF SessionInv, Staged, Is, Top
<1>8. counter' \in Nat  BY <1>4 DEF SessionInv, SessionTypes
<1>9. SessionInv'  BY <1>1, <1>2, <1>3, <1>4, <1>5, <1>6, <1>7, <1>8, Within
<1>10. Founds(frames) # <<>>  BY <1>1, <1>2, FoundsOf
<1>11. /\ OpenOf(stack, frames) = frames /\ AnswerOf(stack, frames, answer) = answer
       /\ OpenOf(stack', frames') = frames /\ AnswerOf(stack', frames', answer') = answer
  BY <1>1, <1>3, <1>4, StillOpen DEF Top
<1>12. Simulates  BY <1>3, <1>10, <1>11, AbsSteps DEF Simulates
<1> QED  BY <1>9, <1>12

LEMMA BeginStep ==
  ASSUME SessionInv, Begin
  PROVE  SessionInv' /\ Simulates
<1> DEFINE m == [name |-> BeginName, saved |-> table]
           c == Frame(BeginName)
<1>1. frames = <<>> /\ stack = <<>> /\ table \in Tables  BY DEF Begin, SessionInv, SessionTypes
<1>2. /\ stack' = <<m>> /\ frames' = <<c>> /\ UNCHANGED <<table, platform, driver>>
      /\ answer' = "pending" /\ fault' = "none" /\ counter' = IF platform = "ios" THEN 0 ELSE counter
  BY <1>1 DEF Begin, Savepoint, apiVars
<1>3. BeginName \in Names  BY DEF BeginName, Names
<1>4. m \in Marks /\ m.name = BeginName /\ m.saved = table  BY <1>1, <1>3 DEF Marks
<1>5. /\ c \in OpenCalls /\ c.name = BeginName /\ c.found = table /\ c.stage = "running"
  BY <1>1, <1>3 DEF OpenCalls, Frame, Stages
<1> HIDE DEF m, c
<1>6. /\ stack' \in Seq(Marks) /\ Len(stack') = 1 /\ stack'[1] = m /\ stack' # <<>>
      /\ frames' \in Seq(OpenCalls) /\ Len(frames') = 1 /\ frames'[1] = c /\ frames' # <<>>
  BY <1>2, <1>4, <1>5
<1>7. SessionTypes'  BY <1>1, <1>2, <1>6 DEF SessionInv, SessionTypes
<1>8. Top' = c  BY <1>6 DEF Top, Last
<1>9. Staged'  BY <1>5, <1>6, <1>8 DEF Staged, Is
<1>10. Based(stack') /\ Numbered(stack, frames)'  BY <1>4, <1>5, <1>6 DEF Based, Numbered
<1>11. Holds(stack', frames')
  <2>1. IsYoungest(stack', BeginName, 1)  BY <1>4, <1>6 DEF IsYoungest
  <2> QED  BY <2>1, <1>4, <1>5, <1>6 DEF Holds
<1>12. SessionInv'
  <2>1. CallersErrorWins'  BY <1>2 DEF CallersErrorWins
  <2> QED  BY <2>1, <1>2, <1>6, <1>7, <1>9, <1>10, <1>11 DEF SessionInv
<1>13. OpenOf(stack, frames) = <<>>  BY <1>1 DEF OpenOf, Gone
<1>14. OpenOf(stack', frames') = frames' /\ AnswerOf(stack', frames', answer') = "pending"
  <2>1. Last(frames').stage # "dropping"  BY <1>5, <1>8 DEF Top
  <2> QED  BY <2>1, <1>2, <1>6, StillOpen
<1>15. Founds(<<>>) = <<>>  BY DEF Founds
<1>16. Founds(frames') = <<table>>  BY <1>5, <1>6 DEF Founds
<1>17. Simulates  BY <1>2, <1>13, <1>14, <1>15, <1>16, AbsSteps DEF Simulates
<1> QED  BY <1>12, <1>17

LEMMA NestStep ==
  ASSUME SessionInv, Nest
  PROVE  SessionInv' /\ Simulates
<1> DEFINE name == SavepointName
           m == [name |-> name, saved |-> table]
           c == Frame(name)
<1>1. frames # <<>> /\ stack # <<>> /\ Top.stage = "running"  BY RunningOne DEF Nest
<1>2. /\ stack \in Seq(Marks) /\ frames \in Seq(OpenCalls) /\ table \in Tables
      /\ Len(frames) \in Nat \ {0} /\ Len(stack) \in Nat \ {0} /\ Top = frames[Len(frames)]
      /\ Based(stack) /\ Holds(stack, frames) /\ Numbered(stack, frames)
      /\ \A i \in 1..(Len(frames) - 1) : frames[i].stage = "running"
  BY <1>1, Opened
<1>3. /\ stack' = Append(stack, m) /\ frames' = Append(frames, c)
      /\ UNCHANGED <<table, platform, driver, answer, fault>>
      /\ counter' = IF driver = "drizzle" THEN counter ELSE counter + 1
  BY DEF Nest, Savepoint, apiVars
<1>4. name \in Names /\ name # BeginName /\ \A i \in 1..Len(frames) : frames[i].name # name
  BY <1>1, NewName
<1>5. /\ counter \in Nat /\ driver \in {"plugin", "drizzle"}
      /\ driver = "drizzle" => name = <<"sp", Len(frames) - 1>>
      /\ driver = "plugin" => name = <<"_sp", counter>>
  BY DEF SavepointName, SessionInv, SessionTypes
<1> HIDE DEF name
<1>6. m \in Marks /\ m.name = name /\ m.saved = table  BY <1>2, <1>4 DEF Marks
<1>7. c \in OpenCalls /\ c.name = name /\ c.found = table /\ c.stage = "running"
  BY <1>2, <1>4 DEF OpenCalls, Frame, Stages
<1>8. Holds(stack', frames')  BY <1>2, <1>3, <1>4, <1>7, HoldsPushed
<1> HIDE DEF m, c
<1>9. /\ stack' \in Seq(Marks) /\ Len(stack') = Len(stack) + 1 /\ stack'[Len(stack) + 1] = m
      /\ \A j \in 1..Len(stack) : stack'[j] = stack[j]
      /\ stack' # <<>>
  <2>1. stack' = Append(stack, m)  BY <1>3
  <2> QED  BY <2>1, <1>2, <1>6
<1>10. /\ frames' \in Seq(OpenCalls) /\ Len(frames') = Len(frames) + 1 /\ frames'[Len(frames) + 1] = c
       /\ \A i \in 1..Len(frames) : frames'[i] = frames[i]
       /\ frames' # <<>>
  BY <1>2, <1>3, <1>7
<1>11. Based(stack')
  <2>1. stack'[1].name = BeginName  BY <1>2, <1>9 DEF Based
  <2>2. ASSUME NEW j \in 2..Len(stack') PROVE stack'[j].name # BeginName
    <3>1. CASE j = Len(stack) + 1  BY <3>1, <1>4, <1>6, <1>9
    <3>2. CASE j \in 2..Len(stack)  BY <3>2, <1>2, <1>9 DEF Based
    <3> QED  BY <3>1, <3>2, <1>2, <1>9
  <2> QED  BY <2>1, <2>2, <1>9 DEF Based
<1>12. Numbered(stack, frames)'
  <2>1. frames'[1].name = BeginName  BY <1>2, <1>10 DEF Numbered
  <2>2. ASSUME driver = "drizzle", NEW i \in 2..Len(frames') PROVE frames'[i].name = <<"sp", i - 2>>
    <3>1. CASE i = Len(frames) + 1
      <4>1. i - 2 = Len(frames) - 1  BY <1>2, <3>1
      <4> QED  BY <4>1, <2>2, <3>1, <1>5, <1>7, <1>10
    <3>2. CASE i \in 2..Len(frames)
      <4>1. i \in 1..Len(frames)  BY <1>2, <3>2
      <4> QED  BY <4>1, <2>2, <3>2, <1>2, <1>10 DEF Numbered
    <3> QED  BY <3>1, <3>2, <1>2, <1>10
  <2>3. ASSUME driver = "plugin", NEW j \in 2..Len(stack')
        PROVE  \E n \in 0..counter : stack'[j].name = <<"_sp", n>>
    <3>1. CASE j = Len(stack) + 1
      <4>1. stack'[j].name = <<"_sp", counter>>  BY <2>3, <3>1, <1>5, <1>6, <1>9
      <4> QED  BY <4>1, <1>5
    <3>2. CASE j \in 2..Len(stack)
      <4>1. j \in 1..Len(stack)  BY <1>2, <3>2
      <4>2. PICK n \in 0..(counter - 1) : stack[j].name = <<"_sp", n>>  BY <2>3, <3>2, <1>2 DEF Numbered
      <4>3. n \in 0..counter  BY <1>5
      <4> QED  BY <4>1, <4>2, <4>3, <1>9
    <3> QED  BY <3>1, <3>2, <1>2, <1>9
  <2>4. driver = "plugin" => counter' - 1 = counter  BY <1>3, <1>5
  <2> QED  BY <2>1, <2>2, <2>3, <2>4, <1>3 DEF Numbered
<1>13. Top' = c  BY <1>2, <1>10 DEF Top, Last
<1>14. Staged'
  <2>1. ASSUME NEW i \in 1..Len(frames') PROVE frames'[i].stage = "running"
    <3>1. CASE i = Len(frames) + 1  BY <3>1, <1>7, <1>10
    <3>2. CASE i = Len(frames)  BY <3>2, <1>1, <1>2, <1>10
    <3>3. CASE i \in 1..(Len(frames) - 1)  BY <3>3, <1>2, <1>10
    <3> QED  BY <3>1, <3>2, <3>3, <1>2, <1>10
  <2> QED  BY <2>1, <1>7, <1>13 DEF Staged, Is
<1>15. counter' \in Nat  BY <1>3, <1>5
<1>16. SessionInv'
  BY <1>1, <1>2, <1>3, <1>8, <1>9, <1>10, <1>11, <1>12, <1>14, <1>15, Within
<1>17. OpenOf(stack, frames) = frames /\ AnswerOf(stack, frames, answer) = answer
  BY <1>1, StillOpen DEF Top
<1>18. OpenOf(stack', frames') = frames' /\ AnswerOf(stack', frames', answer') = answer
  <2>1. Last(frames').stage # "dropping"  BY <1>7, <1>13 DEF Top
  <2>2. answer' = answer  BY <1>3
  <2> QED  BY <2>1, <2>2, <1>9, StillOpen
<1>19. Founds(frames') = Append(Founds(frames), table) /\ Founds(frames) # <<>>
  BY <1>1, <1>2, <1>3, <1>7, FoundsAppend, FoundsOf
<1>20. Simulates  BY <1>3, <1>17, <1>18, <1>19, AbsSteps DEF Simulates
<1> QED  BY <1>16, <1>20

\* The calls that are left when the youngest hands its error on.
LEMMA RethrownOnes ==
  ASSUME SessionInv, Len(frames) > 1, Rethrown(Front(frames))
  PROVE  /\ frames' \in Seq(OpenCalls) /\ SameCalls(Front(frames), frames')
         /\ frames' # <<>> /\ Len(frames') = Len(frames) - 1
         /\ \A i \in 1..Len(frames') : frames'[i].name = frames[i].name /\ frames'[i].found = frames[i].found
         /\ \A i \in 1..Len(frames') : frames'[i].stage # "running" => i = Len(frames')
         /\ Last(frames').stage \in {"running", "undoing"}
<1> DEFINE f == Front(frames)
           n == Len(f)
<1>1. frames # <<>> /\ stack # <<>>  BY DeepOne
<1>2. /\ frames \in Seq(OpenCalls) /\ Len(frames) \in Nat \ {0}
      /\ \A i \in 1..(Len(frames) - 1) : frames[i].stage = "running"
  BY <1>1, Opened
<1>3. f \in Seq(OpenCalls) /\ n = Len(frames) - 1 /\ \A i \in 1..n : f[i] = frames[i]
  BY <1>1, <1>2, FrontOf
<1>4. n \in Nat \ {0} /\ f # <<>> /\ n <= Len(frames)
  <2>1. \A k \in Nat : k > 1 => k - 1 \in Nat \ {0}  OBVIOUS
  <2>2. n \in Nat \ {0}  BY <1>2, <1>3, <2>1
  <2> QED  BY <2>2, <1>2, <1>3
<1>5. \A i \in 1..n : f[i].stage = "running"  BY <1>2, <1>3
<1>6. \/ frames' = f
      \/ frames' = [f EXCEPT ![Len(f)].stage = "undoing"]
  BY DEF Rethrown
<1> HIDE DEF f
<1>7. CASE frames' = f
  <2>1. SameCalls(f, frames')  BY <1>7 DEF SameCalls
  <2>2. Last(frames').stage = "running"  BY <1>3, <1>4, <1>5, <1>7, FrontOf
  <2>3. Len(frames') = n /\ \A i \in 1..n : frames'[i] = frames[i]  BY <1>3, <1>7
  <2> QED  BY <2>1, <2>2, <2>3, <1>3, <1>4, <1>5, <1>7 DEF f
<1>8. CASE frames' = [f EXCEPT ![Len(f)].stage = "undoing"]
  <2>1. /\ frames' \in Seq(OpenCalls) /\ SameCalls(f, frames') /\ frames' # <<>>
        /\ Last(frames').stage = "undoing" /\ \A i \in 1..(n - 1) : frames'[i] = f[i]
    <3>1. "undoing" \in Stages  BY DEF Stages
    <3>2. frames' = WithStage(f, "undoing")  BY <1>8 DEF WithStage
    <3> QED  BY <3>1, <3>2, <1>3, <1>4, StageSet, SMTT(60)
  <2>2. Len(frames') = n  BY <2>1 DEF SameCalls
  <2>3. ASSUME NEW i \in 1..n, i # n PROVE frames'[i].stage = "running"
    <3>1. i \in 1..(n - 1)  BY <1>4, <2>3
    <3> QED  BY <3>1, <2>1, <1>5
  <2>4. \A i \in 1..n : frames'[i].name = frames[i].name /\ frames'[i].found = frames[i].found
    BY <2>1, <1>3 DEF SameCalls
  <2> QED  BY <2>1, <2>2, <2>3, <2>4, <1>3 DEF f
<1> QED  BY <1>6, <1>7, <1>8

\* Its error is that of something that went wrong in the transaction.
LEMMA RethrownStaged ==
  ASSUME SessionInv, Len(frames) > 1, Rethrown(Front(frames)), Top.stage # "running", fault' = fault
  PROVE  Staged'
<1>1. frames # <<>> /\ stack # <<>>  BY DeepOne
<1>2. fault' \in {"callback", "commit", "misuse"}  BY <1>1, Opened
<1>3. \A i \in 1..Len(frames') : frames'[i].stage # "running" => i = Len(frames')  BY RethrownOnes
<1>4. Top'.stage # "dropping"  BY RethrownOnes DEF Top
<1> QED  BY <1>2, <1>3, <1>4 DEF Staged, Is

LEMMA ReturnStep ==
  ASSUME SessionInv, Return
  PROVE  SessionInv' /\ Simulates
<1> DEFINE k == Youngest(Top.name)
<1>1. frames # <<>> /\ stack # <<>> /\ Top.stage = "running"  BY RunningOne DEF Return
<1>2. /\ stack \in Seq(Marks) /\ frames \in Seq(OpenCalls) /\ table \in Tables
      /\ Len(frames) \in Nat \ {0} /\ Len(stack) \in Nat \ {0}
      /\ \A i \in 1..(Len(frames) - 1) : frames[i].stage = "running"
  BY <1>1, Opened
<1>3. /\ Len(frames) > 1 /\ stack' = SubSeq(stack, 1, k - 1) /\ frames' = Front(frames)
      /\ UNCHANGED <<table, platform, driver, counter, answer, fault>>
  BY DEF Return, ReleaseTo, apiVars
<1>4. /\ k \in 1..Len(stack) /\ k > 1
      /\ \A i \in 1..Len(frames) : \A l \in 1..Len(stack) :
           IsYoungest(stack, frames[i].name, l) => l <= k /\ (i < Len(frames) => l < k)
  BY <1>1, <1>3, TopOne
<1> HIDE DEF k
<1>5. /\ frames' \in Seq(OpenCalls) /\ Len(frames') = Len(frames) - 1
      /\ \A i \in 1..(Len(frames) - 1) : frames'[i] = frames[i]
  BY <1>1, <1>2, <1>3, FrontOf
<1>6. Len(frames') \in Nat \ {0}
  <2>1. \A n \in Nat : n > 1 => n - 1 \in Nat \ {0}  OBVIOUS
  <2> QED  BY <2>1, <1>2, <1>3, <1>5
<1>7. frames' # <<>>  BY <1>6
<1>8. PICK n \in 1..Len(stack) : n = k - 1  BY <1>2, <1>4
<1>9. \A i \in 1..Len(frames') : \A l \in 1..Len(stack) :
        IsYoungest(stack, frames[i].name, l) => l <= n
  <2>1. \A i \in 1..Len(frames') : i \in 1..Len(frames) /\ i < Len(frames)  BY <1>2, <1>5
  <2> QED  BY <2>1, <1>2, <1>4, <1>8
<1>10. Len(frames') <= Len(frames)
       /\ \A i \in 1..Len(frames') : frames'[i].name = frames[i].name /\ frames'[i].found = frames[i].found
  BY <1>2, <1>5
<1>11. UNCHANGED <<driver, counter>> /\ stack' = SubSeq(stack, 1, n)  BY <1>3, <1>8
<1>12. /\ stack' \in Seq(Marks) /\ stack' # <<>>
       /\ Based(stack') /\ Holds(stack', frames') /\ Numbered(stack, frames)'
  BY <1>1, <1>5, <1>7, <1>9, <1>10, <1>11, Cuts
<1>13. Top'.stage = "running"
  <2>1. Top' = frames'[Len(frames')]  BY <1>5, <1>7, FrontOf DEF Top
  <2>2. Len(frames') \in 1..(Len(frames) - 1)  BY <1>2, <1>5, <1>6
  <2> QED  BY <2>1, <2>2, <1>2, <1>5
<1>14. Staged'
  <2>1. \A i \in 1..Len(frames') : frames'[i].stage = "running"  BY <1>2, <1>5
  <2> QED  BY <2>1, <1>13 DEF Staged, Is
<1>15. table' \in Tables /\ counter' \in Nat /\ UNCHANGED <<platform, driver, answer>>
  BY <1>2, <1>3 DEF SessionInv, SessionTypes
<1>16. SessionInv'  BY <1>1, <1>5, <1>7, <1>12, <1>14, <1>15, Within
<1>17. /\ OpenOf(stack, frames) = frames /\ AnswerOf(stack, frames, answer) = answer
       /\ OpenOf(stack', frames') = frames' /\ AnswerOf(stack', frames', answer') = answer'
  BY <1>1, <1>12, <1>13, StillOpen DEF Top
<1>18. Founds(frames') = Nested!Front(Founds(frames))  BY <1>1, <1>2, <1>3, FoundsFront
<1>19. Founds(frames) # <<>> /\ Len(Founds(frames)) # 1
  <2>1. Len(Founds(frames)) = Len(frames) /\ Founds(frames) # <<>>  BY <1>1, <1>2, FoundsOf
  <2>2. \A l \in Nat : l > 1 => l # 1  OBVIOUS
  <2> QED  BY <2>1, <2>2, <1>2, <1>3
<1>20. answer' = answer /\ table' = table  BY <1>3
<1>21. Simulates  BY <1>17, <1>18, <1>19, <1>20, AbsSteps DEF Simulates
<1> QED  BY <1>16, <1>21

\* A step of the youngest call that SQLite does not see: what it was told to undo is the error.
LEMMA FailStep ==
  ASSUME SessionInv, Throw \/ ReturnPromise
  PROVE  SessionInv' /\ Simulates
<1>1. frames # <<>> /\ stack # <<>> /\ Top.stage = "running"
  BY RunningOne DEF Throw, ReturnPromise
<1>2. /\ stack \in Seq(Marks) /\ frames \in Seq(OpenCalls) /\ table \in Tables
      /\ Len(frames) \in Nat \ {0}
      /\ Based(stack) /\ Holds(stack, frames) /\ Numbered(stack, frames)
      /\ \A i \in 1..(Len(frames) - 1) : frames[i].stage = "running"
  BY <1>1, Opened
<1>3. /\ frames' = [frames EXCEPT ![Len(frames)].stage = "undoing"]
      /\ fault' \in {"callback", "misuse"}
      /\ UNCHANGED <<table, stack, platform, driver, counter, answer>>
  BY DEF Throw, ReturnPromise, SetStage, apiVars, engineVars
<1>4. "undoing" \in Stages  BY DEF Stages
<1>5. /\ frames' \in Seq(OpenCalls) /\ SameCalls(frames, frames') /\ frames' # <<>>
      /\ Last(frames').stage = "undoing"
      /\ \A i \in 1..(Len(frames) - 1) : frames'[i] = frames[i]
  <2>1. frames' = WithStage(frames, "undoing")  BY <1>3 DEF WithStage
  <2> QED  BY <2>1, <1>1, <1>2, <1>4, StageSet
<1>6. Len(frames') = Len(frames)  BY <1>5 DEF SameCalls
<1>7. Staged'
  <2>1. ASSUME NEW i \in 1..Len(frames'), i # Len(frames') PROVE frames'[i].stage = "running"
    <3>1. i \in 1..(Len(frames) - 1)  BY <1>2, <1>6, <2>1
    <3> QED  BY <3>1, <1>2, <1>5
  <2>2. Top'.stage = "undoing"  BY <1>5 DEF Top
  <2> QED  BY <2>1, <2>2, <1>3 DEF Staged, Is
<1>8. Holds(stack', frames')  BY <1>2, <1>3, <1>5, HoldsSame
<1>9. Numbered(stack, frames)'
  <2>1. \A i \in 1..Len(frames') : frames'[i].name = frames[i].name  BY <1>5, <1>6 DEF SameCalls
  <2>2. 1 \in 1..Len(frames') /\ \A i \in 2..Len(frames') : i \in 1..Len(frames')  BY <1>2, <1>6
  <2> QED  BY <2>1, <2>2, <1>2, <1>3, <1>6 DEF Numbered
<1>10. counter' \in Nat /\ table' \in Tables /\ stack' \in Seq(Marks) /\ stack' # <<>> /\ Based(stack')
  BY <1>1, <1>2, <1>3 DEF SessionInv, SessionTypes
<1>11. SessionInv'  BY <1>1, <1>3, <1>5, <1>7, <1>8, <1>9, <1>10, Within
<1>12. /\ OpenOf(stack, frames) = frames /\ AnswerOf(stack, frames, answer) = answer
       /\ OpenOf(stack', frames') = frames' /\ AnswerOf(stack', frames', answer') = answer'
  BY <1>1, <1>5, <1>10, StillOpen DEF Top
<1>13. Founds(frames') = Founds(frames)  BY <1>2, <1>5, FoundsSame
<1>14. answer' = answer /\ table' = table  BY <1>3
<1>15. Simulates  BY <1>12, <1>13, <1>14, AbsSteps DEF Simulates
<1> QED  BY <1>11, <1>15

LEMMA UndoStep ==
  ASSUME SessionInv, Undo
  PROVE  SessionInv' /\ Simulates
<1> DEFINE k == Youngest(Top.name)
<1>1. Len(frames) > 1 /\ Top.stage = "undoing"  BY DEF Undo, Is
<1>2. frames # <<>> /\ stack # <<>>  BY <1>1, DeepOne
<1>3. /\ stack \in Seq(Marks) /\ frames \in Seq(OpenCalls) /\ table \in Tables
      /\ Len(frames) \in Nat \ {0} /\ Len(stack) \in Nat \ {0} /\ Top \in OpenCalls
      /\ \A i \in 1..(Len(frames) - 1) : frames[i].stage = "running"
      /\ fault \in {"callback", "commit", "misuse"}
  BY <1>1, <1>2, Opened
<1>4. /\ table' = stack[k].saved /\ stack' = SubSeq(stack, 1, k)
      /\ frames' = SetStage("dropping") \/ Rethrown(Front(frames))
      /\ UNCHANGED <<platform, driver, counter, answer, fault>>
  BY DEF Undo, RollbackTo, apiVars
<1>5. /\ k \in 1..Len(stack) /\ stack[k].saved = Top.found
      /\ \A i \in 1..Len(frames) : \A l \in 1..Len(stack) :
           IsYoungest(stack, frames[i].name, l) => l <= k
  BY <1>2, TopOne
<1> HIDE DEF k
<1>6. table' \in Tables /\ table' = Top.found  BY <1>3, <1>4, <1>5 DEF OpenCalls
<1>7. counter' \in Nat /\ counter' = counter /\ driver' = driver  BY <1>4 DEF SessionInv, SessionTypes
<1>8. Len(Founds(frames)) = Len(frames) /\ Founds(frames) # <<>> /\ Len(Founds(frames)) # 1
  <2>1. Len(Founds(frames)) = Len(frames) /\ Founds(frames) # <<>>  BY <1>2, <1>3, FoundsOf
  <2>2. \A l \in Nat : l > 1 => l # 1  OBVIOUS
  <2> QED  BY <2>1, <2>2, <1>1, <1>3
<1>9. OpenOf(stack, frames) = frames /\ AnswerOf(stack, frames, answer) = answer
  BY <1>1, <1>2, StillOpen DEF Top
<1>10. Nested!Last(Founds(frames)) = table' /\ Nested!Front(Founds(frames)) = Founds(Front(frames))
  BY <1>2, <1>3, <1>6, FoundsFront DEF Top
<1>11. answer' = answer  BY <1>4
<1>12. CASE frames' = SetStage("dropping")
  <2>1. frames' = WithStage(frames, "dropping") /\ "dropping" \in Stages
    BY <1>12 DEF SetStage, WithStage, Stages
  <2>2. /\ frames' \in Seq(OpenCalls) /\ SameCalls(frames, frames') /\ frames' # <<>>
        /\ Last(frames').stage = "dropping"
        /\ \A i \in 1..(Len(frames) - 1) : frames'[i] = frames[i]
    BY <2>1, <1>2, <1>3, StageSet
  <2>3. Len(frames') = Len(frames)
        /\ \A i \in 1..Len(frames') : frames'[i].name = frames[i].name /\ frames'[i].found = frames[i].found
    BY <2>2 DEF SameCalls
  <2>4. Len(frames') <= Len(frames)  BY <2>3, <1>3
  <2>5. \A i \in 1..Len(frames') : \A l \in 1..Len(stack) :
          IsYoungest(stack, frames[i].name, l) => l <= k
    BY <2>3, <1>5
  <2>6. /\ stack' \in Seq(Marks) /\ stack' # <<>>
        /\ Based(stack') /\ Holds(stack', frames') /\ Numbered(stack, frames)'
    BY <2>2, <2>3, <2>4, <2>5, <1>2, <1>4, <1>5, <1>7, Cuts
  <2>7. Staged'
    <3>1. ASSUME NEW i \in 1..Len(frames'), i # Len(frames') PROVE frames'[i].stage = "running"
      <4>1. i \in 1..(Len(frames) - 1)  BY <1>3, <2>3, <3>1
      <4> QED  BY <4>1, <1>3, <2>2
    <3>2. fault' \in {"callback", "commit", "misuse"}  BY <1>3, <1>4
    <3> QED  BY <3>1, <3>2, <2>3, <1>1 DEF Staged
  <2>8. SessionInv'  BY <2>2, <2>6, <2>7, <1>2, <1>4, <1>6, <1>7, Within
  <2>9. OpenOf(stack', frames') = Front(frames') /\ AnswerOf(stack', frames', answer') = answer'
    <3>1. Len(frames') # 1  BY <2>3, <1>8
    <3> QED  BY <3>1, <2>2 DEF OpenOf, AnswerOf, Gone
  <2>10. Founds(Front(frames')) = Founds(Front(frames))
    <3>1. Founds(frames') = Founds(frames)  BY <2>2, <1>3, FoundsSame
    <3>2. Founds(Front(frames')) = Nested!Front(Founds(frames'))  BY <2>2, FoundsFront
    <3> QED  BY <3>1, <3>2, <1>10
  <2>11. Simulates  BY <2>9, <2>10, <1>8, <1>9, <1>10, <1>11, AbsSteps DEF Simulates
  <2> QED  BY <2>8, <2>11
<1>13. CASE Rethrown(Front(frames))
  <2>1. /\ frames' \in Seq(OpenCalls) /\ SameCalls(Front(frames), frames') /\ frames' # <<>>
        /\ Len(frames') = Len(frames) - 1
        /\ \A i \in 1..Len(frames') : frames'[i].name = frames[i].name /\ frames'[i].found = frames[i].found
        /\ Last(frames').stage # "dropping"
    BY <1>1, <1>13, RethrownOnes
  <2>2. fault' = fault  BY <1>4
  <2>3. Staged'  BY <2>2, <1>1, <1>13, RethrownStaged
  <2>4. Len(frames') <= Len(frames)  BY <2>1, <1>3
  <2>5. \A i \in 1..Len(frames') : \A l \in 1..Len(stack) :
          IsYoungest(stack, frames[i].name, l) => l <= k
    <3>1. \A i \in 1..Len(frames') : i \in 1..Len(frames)  BY <2>1, <1>3
    <3> QED  BY <3>1, <1>5
  <2>6. /\ stack' \in Seq(Marks) /\ stack' # <<>>
        /\ Based(stack') /\ Holds(stack', frames') /\ Numbered(stack, frames)'
    BY <2>1, <2>4, <2>5, <1>2, <1>4, <1>5, <1>7, Cuts
  <2>8. SessionInv'  BY <2>1, <2>3, <2>6, <1>2, <1>4, <1>6, <1>7, Within
  <2>9. OpenOf(stack', frames') = frames' /\ AnswerOf(stack', frames', answer') = answer'
    BY <2>1, <2>6, StillOpen
  <2>10. Founds(frames') = Founds(Front(frames))
    <3>1. Front(frames) \in Seq(OpenCalls)  BY <1>2, <1>3, FrontOf
    <3> QED  BY <3>1, <2>1, FoundsSame
  <2>11. Simulates  BY <2>9, <2>10, <1>8, <1>9, <1>10, <1>11, AbsSteps DEF Simulates
  <2> QED  BY <2>8, <2>11
<1> QED  BY <1>4, <1>12, <1>13

LEMMA DropStep ==
  ASSUME SessionInv, Drop
  PROVE  SessionInv' /\ Simulates
<1> DEFINE k == Youngest(Top.name)
<1>1. Top.stage = "dropping" /\ Len(frames) > 1  BY DEF Drop, Is, SessionInv, Staged
<1>2. frames # <<>> /\ stack # <<>>  BY <1>1, DeepOne
<1>3. /\ stack \in Seq(Marks) /\ frames \in Seq(OpenCalls) /\ table \in Tables
      /\ Len(frames) \in Nat \ {0} /\ Len(stack) \in Nat \ {0}
  BY <1>2, Opened
<1>4. /\ stack' = SubSeq(stack, 1, k - 1) /\ Rethrown(Front(frames))
      /\ UNCHANGED <<table, platform, driver, counter, answer, fault>>
  BY DEF Drop, ReleaseTo, apiVars
<1>5. /\ k \in 1..Len(stack) /\ k > 1
      /\ \A i \in 1..Len(frames) : \A l \in 1..Len(stack) :
           IsYoungest(stack, frames[i].name, l) => l <= k /\ (i < Len(frames) => l < k)
  BY <1>1, <1>2, TopOne
<1> HIDE DEF k
<1>6. PICK n \in 1..Len(stack) : n = k - 1  BY <1>3, <1>5
<1>7. /\ frames' \in Seq(OpenCalls) /\ SameCalls(Front(frames), frames') /\ frames' # <<>>
      /\ Len(frames') = Len(frames) - 1
      /\ \A i \in 1..Len(frames') : frames'[i].name = frames[i].name /\ frames'[i].found = frames[i].found
      /\ Last(frames').stage # "dropping"
  BY <1>1, <1>4, RethrownOnes
<1>8. Staged'
  <2>1. fault' = fault  BY <1>4
  <2> QED  BY <2>1, <1>1, <1>4, RethrownStaged
<1>9. \A i \in 1..Len(frames') : \A l \in 1..Len(stack) :
        IsYoungest(stack, frames[i].name, l) => l <= n
  <2>1. \A i \in 1..Len(frames') : i \in 1..Len(frames) /\ i < Len(frames)  BY <1>3, <1>7
  <2> QED  BY <2>1, <1>3, <1>5, <1>6
<1>10. Len(frames') <= Len(frames)  BY <1>3, <1>7
<1>11. stack' = SubSeq(stack, 1, n) /\ UNCHANGED <<driver, counter>>  BY <1>4, <1>6
<1>12. /\ stack' \in Seq(Marks) /\ stack' # <<>>
       /\ Based(stack') /\ Holds(stack', frames') /\ Numbered(stack, frames)'
  BY <1>2, <1>7, <1>9, <1>10, <1>11, Cuts
<1>13. table' \in Tables /\ counter' \in Nat /\ UNCHANGED <<platform, driver, answer>>
  BY <1>3, <1>4 DEF SessionInv, SessionTypes
<1>14. SessionInv'  BY <1>2, <1>7, <1>8, <1>12, <1>13, Within
<1>15. OpenOf(stack, frames) = Front(frames) /\ AnswerOf(stack, frames, answer) = answer
  <2>1. \A l \in Nat : l > 1 => l # 1  OBVIOUS
  <2>2. Len(frames) # 1  BY <2>1, <1>1, <1>3
  <2> QED  BY <2>2, <1>1, <1>2 DEF OpenOf, AnswerOf, Gone, Top
<1>16. OpenOf(stack', frames') = frames' /\ AnswerOf(stack', frames', answer') = answer'
  BY <1>7, <1>12, StillOpen
<1>17. Founds(frames') = Founds(Front(frames))
  <2>1. Front(frames) \in Seq(OpenCalls)  BY <1>2, <1>3, FrontOf
  <2> QED  BY <2>1, <1>7, FoundsSame
<1>18. answer' = answer /\ table' = table  BY <1>4
<1>19. Simulates  BY <1>15, <1>16, <1>17, <1>18, AbsSteps DEF Simulates
<1> QED  BY <1>14, <1>19

\* A step after which no call is left.
LEMMA Finished ==
  ASSUME SessionInv, frames' = <<>>, stack' = <<>>, table' \in Tables,
         UNCHANGED <<platform, driver, counter>>, CallersErrorWins'
  PROVE  SessionInv'
<1>1. <<>> \in Seq(OpenCalls) /\ <<>> \in Seq(Marks) /\ Len(<<>>) = 0  OBVIOUS
<1>2. SessionTypes'  BY <1>1 DEF SessionInv, SessionTypes
<1>3. Staged'  BY <1>1 DEF Staged, Is
<1> QED  BY <1>2, <1>3 DEF SessionInv

\* What the outermost call found is what the table was at BEGIN.
LEMMA OutermostOne ==
  ASSUME SessionInv, frames # <<>>, stack # <<>>, Len(frames) = 1
  PROVE  /\ stack[1].saved = Top.found /\ Top.found \in Tables
         /\ Nested!Last(Founds(frames)) = Top.found /\ Nested!Front(Founds(frames)) = Founds(<<>>)
         /\ Len(Founds(frames)) = 1 /\ Founds(frames) # <<>>
<1>1. frames \in Seq(OpenCalls) /\ Top \in OpenCalls  BY Opened
<1>2. stack[1].saved = Top.found  BY TopOne
<1>3. Top.found \in Tables  BY <1>1 DEF OpenCalls
<1>4. Front(frames) = <<>>
  <2>1. Front(frames) \in Seq(OpenCalls) /\ Len(Front(frames)) = 0  BY <1>1, FrontOf
  <2> QED  BY <2>1
<1> QED  BY <1>1, <1>2, <1>3, <1>4, FoundsFront, FoundsOf DEF Top

\* With no call open it sees none.
LEMMA ClosedOne ==
  ASSUME NEW s, NEW a
  PROVE  OpenOf(s, <<>>) = <<>> /\ AnswerOf(s, <<>>, a) = a
BY DEF OpenOf, AnswerOf, Gone

LEMMA CommitStep ==
  ASSUME SessionInv, Commit
  PROVE  SessionInv' /\ Simulates
<1>1. frames # <<>> /\ stack # <<>> /\ Top.stage = "running" /\ Len(frames) = 1
  BY RunningOne DEF Commit
<1>2. /\ stack' = <<>> /\ frames' = <<>> /\ answer' = "resolved"
      /\ UNCHANGED <<table, platform, driver, counter, fault>>
  BY DEF Commit, apiVars
<1>3. table' \in Tables  BY <1>2 DEF SessionInv, SessionTypes
<1>4. CallersErrorWins'  BY <1>2 DEF CallersErrorWins
<1>5. SessionInv'  BY <1>2, <1>3, <1>4, Finished
<1>6. OpenOf(stack, frames) = frames /\ AnswerOf(stack, frames, answer) = answer
  BY <1>1, StillOpen DEF Top
<1>7. Nested!Front(Founds(frames)) = Founds(<<>>) /\ Len(Founds(frames)) = 1 /\ Founds(frames) # <<>>
  BY <1>1, OutermostOne
<1>8. OpenOf(stack', frames') = <<>> /\ AnswerOf(stack', frames', answer') = "resolved"
  BY <1>2, ClosedOne
<1>9. table' = table  BY <1>2
<1>10. Simulates  BY <1>6, <1>7, <1>8, <1>9, AbsSteps DEF Simulates
<1> QED  BY <1>5, <1>10

LEMMA CommitFailsStep ==
  ASSUME SessionInv, CommitFails
  PROVE  SessionInv' /\ Simulates
<1>1. frames # <<>> /\ stack # <<>> /\ Top.stage = "running" /\ Len(frames) = 1
  BY RunningOne DEF CommitFails
<1>2. /\ table' = stack[1].saved /\ stack' = <<>> /\ fault' = "commit"
      /\ \/ frames' = <<>> /\ answer' = "rejected"
         \/ frames' = SetStage("undoing") /\ answer' = answer
      /\ UNCHANGED <<platform, driver, counter>>
  BY DEF CommitFails, Rollback, apiVars
<1>3. /\ stack[1].saved = Top.found /\ Top.found \in Tables
      /\ Nested!Last(Founds(frames)) = Top.found /\ Nested!Front(Founds(frames)) = Founds(<<>>)
      /\ Len(Founds(frames)) = 1 /\ Founds(frames) # <<>>
  BY <1>1, OutermostOne
<1>4. OpenOf(stack, frames) = frames /\ AnswerOf(stack, frames, answer) = answer
  BY <1>1, StillOpen DEF Top
<1>5. table' \in Tables /\ table' = Nested!Last(Founds(frames))  BY <1>2, <1>3
<1>6. CASE frames' = <<>> /\ answer' = "rejected"
  <2>1. CallersErrorWins'  BY <1>2 DEF CallersErrorWins
  <2>2. SessionInv'  BY <2>1, <1>2, <1>5, <1>6, Finished
  <2>3. OpenOf(stack', frames') = <<>> /\ AnswerOf(stack', frames', answer') = "rejected"
    BY <1>6, ClosedOne
  <2>4. Simulates  BY <2>3, <1>3, <1>4, <1>5, AbsSteps DEF Simulates
  <2> QED  BY <2>2, <2>4
<1>7. CASE frames' = SetStage("undoing") /\ answer' = answer
  <2>1. frames' = WithStage(frames, "undoing") /\ "undoing" \in Stages
    BY <1>7 DEF SetStage, WithStage, Stages
  <2>2. frames \in Seq(OpenCalls) /\ answer = "pending" /\ counter \in Nat
    BY <1>1 DEF SessionInv, SessionTypes
  <2>3. /\ frames' \in Seq(OpenCalls) /\ SameCalls(frames, frames') /\ frames' # <<>>
        /\ Last(frames').stage = "undoing"
    BY <2>1, <2>2, <1>1, StageSet
  <2>4. Len(frames') = 1  BY <2>3, <1>1 DEF SameCalls
  <2>5. Staged'  BY <2>3, <2>4, <1>2 DEF Staged, Is, Top
  <2>6. SessionTypes'
    <3>1. <<>> \in Seq(Marks)  OBVIOUS
    <3> QED  BY <3>1, <2>2, <2>3, <1>2, <1>5 DEF SessionInv, SessionTypes
  <2>7. SessionInv'
    <3>1. CallersErrorWins'  BY <2>2, <1>7 DEF CallersErrorWins
    <3>2. Is("undoing")'  BY <2>3 DEF Is, Top
    <3> QED  BY <3>1, <3>2, <2>2, <2>3, <2>4, <2>5, <2>6, <1>2, <1>7 DEF SessionInv
  <2>8. OpenOf(stack', frames') = Front(frames') /\ AnswerOf(stack', frames', answer') = "rejected"
    BY <2>3, <2>4, <1>2 DEF OpenOf, AnswerOf, Gone
  <2>9. Front(frames') = <<>>
    <3>1. Front(frames') \in Seq(OpenCalls) /\ Len(Front(frames')) = 0  BY <2>3, <2>4, FrontOf
    <3> QED  BY <3>1
  <2>10. Simulates  BY <2>8, <2>9, <1>3, <1>4, <1>5, AbsSteps DEF Simulates
  <2> QED  BY <2>7, <2>10
<1> QED  BY <1>2, <1>6, <1>7

LEMMA RollbackStep ==
  ASSUME SessionInv, RollbackTransaction
  PROVE  SessionInv' /\ Simulates
<1>1. frames # <<>> /\ Top.stage = "undoing" /\ Len(frames) = 1  BY DEF RollbackTransaction, Is
<1>2. /\ frames' = <<>> /\ answer' = "rejected" /\ fault' = AfterRollback(stack = <<>>)
      /\ IF stack = <<>> THEN UNCHANGED <<table, stack>> ELSE Rollback
      /\ UNCHANGED <<platform, driver, counter>>
  BY DEF RollbackTransaction, apiVars, engineVars
<1>3. fault \in {"callback", "commit", "misuse"}
  <2>1. frames \in Seq(OpenCalls) /\ Top = frames[1]
    BY <1>1 DEF SessionInv, SessionTypes, Top, Last
  <2>2. 1 \in 1..Len(frames)  BY <1>1
  <2> QED  BY <2>1, <2>2, <1>1 DEF SessionInv, Staged
<1>4. CallersErrorWins'
  <2>1. fault' \in {"callback", "commit", "misuse"} \/ (driver = "drizzle" /\ fault' = "rollback")
    BY <1>2, <1>3 DEF AfterRollback
  <2> QED  BY <2>1, <1>2 DEF CallersErrorWins
<1>5. OpenOf(stack', frames') = <<>> /\ AnswerOf(stack', frames', answer') = "rejected"
  BY <1>2, ClosedOne
<1>6. CASE stack = <<>>
  <2>1. UNCHANGED <<table, stack>>  BY <1>2, <1>6
  <2>2. frames \in Seq(OpenCalls) /\ table \in Tables  BY DEF SessionInv, SessionTypes
  <2>3. SessionInv'  BY <2>1, <2>2, <1>2, <1>4, <1>6, Finished
  <2>4. OpenOf(stack, frames) = Front(frames) /\ AnswerOf(stack, frames, answer) = "rejected"
    BY <1>1, <1>6 DEF OpenOf, AnswerOf, Gone
  <2>5. Front(frames) = <<>>
    <3>1. Front(frames) \in Seq(OpenCalls) /\ Len(Front(frames)) = 0  BY <2>2, <1>1, FrontOf
    <3> QED  BY <3>1
  <2>6. Simulates  BY <2>1, <2>4, <2>5, <1>5, AbsSteps DEF Simulates
  <2> QED  BY <2>3, <2>6
<1>7. CASE stack # <<>>
  <2>1. table' = stack[1].saved /\ stack' = <<>>  BY <1>2, <1>7 DEF Rollback
  <2>2. /\ stack[1].saved = Top.found /\ Top.found \in Tables
        /\ Nested!Last(Founds(frames)) = Top.found /\ Nested!Front(Founds(frames)) = Founds(<<>>)
        /\ Len(Founds(frames)) = 1 /\ Founds(frames) # <<>>
    BY <1>1, <1>7, OutermostOne
  <2>3. SessionInv'  BY <2>1, <2>2, <1>2, <1>4, Finished
  <2>4. OpenOf(stack, frames) = frames /\ AnswerOf(stack, frames, answer) = answer
    BY <1>1, <1>7, StillOpen DEF Top
  <2>5. Simulates  BY <2>1, <2>2, <2>4, <1>5, AbsSteps DEF Simulates
  <2> QED  BY <2>3, <2>5
<1> QED  BY <1>6, <1>7

\* Steps that this part of the state does not see.
LEMMA OtherStep ==
  ASSUME SessionInv, UNCHANGED <<apiVars, engineVars, callVars>>
  PROVE  SessionInv' /\ Simulates
<1>1. UNCHANGED <<platform, driver, table, stack, frames, counter, answer, fault>>
  BY DEF apiVars, engineVars, callVars
<1>2. SessionInv'
  BY <1>1 DEF SessionInv, SessionTypes, Staged, Is, Top, CallersErrorWins, Numbered
<1>3. Simulates
  <2>1. /\ OpenOf(stack', frames') = OpenOf(stack, frames) /\ table' = table
        /\ AnswerOf(stack', frames', answer') = AnswerOf(stack, frames, answer)
    BY <1>1
  <2> QED  BY <2>1, AbsSteps DEF Simulates
<1> QED  BY <1>2, <1>3

LEMMA SessionStarts == SessionInit => SessionInv /\ Nested!AbsInit
<1> SUFFICES ASSUME SessionInit PROVE SessionInv /\ Nested!AbsInit  OBVIOUS
<1>1. /\ platform \in {"android", "ios"} /\ driver \in {"plugin", "drizzle"}
      /\ table = <<>> /\ stack = <<>> /\ frames = <<>> /\ counter = 0 /\ answer = "none"
  BY DEF SessionInit
<1>2. <<>> \in Seq(OpenCalls) /\ <<>> \in Seq(Marks) /\ <<>> \in Tables /\ Len(<<>>) = 0  BY DEF Tables
<1>3. SessionInv  BY <1>1, <1>2 DEF SessionInv, SessionTypes, Staged, Is, CallersErrorWins
<1>4. Nested!AbsInit  BY <1>1, <1>2 DEF Nested!AbsInit, Open, Ended
<1> QED  BY <1>3, <1>4

LEMMA SessionStep == SessionInv /\ [SessionNext]_sessionVars => SessionInv' /\ Simulates
<1> SUFFICES ASSUME SessionInv, [SessionNext]_sessionVars PROVE SessionInv' /\ Simulates  OBVIOUS
<1>1. CASE OpenDatabase  BY <1>1, OtherStep DEF OpenDatabase
<1>2. CASE UNCHANGED sessionVars
  BY <1>2, OtherStep DEF sessionVars, apiVars, engineVars, callVars
<1> QED
  BY <1>1, <1>2, BeginStep, ExecuteStep, NestStep, ReturnStep, FailStep, UndoStep, DropStep,
     CommitStep, CommitFailsStep, RollbackStep DEF SessionNext

\* Nested transactions of both platforms and of the driver are atomic in whatever order
\* they succeed and fail (savepoint() and transaction(), index.ios.ts:254-264,
\* index.android.ts:243-254, drizzle-driver.ts:297-309): what NestedTransactions promises,
\* for any depth, any number of calls that failed and any parameters.
THEOREM NestedImplements == SessionSpec => ImplementsNestedTransactions
<1>1. SessionInit => SessionInv /\ Nested!AbsInit  BY SessionStarts
<1>2. SessionInv /\ [SessionNext]_sessionVars => SessionInv' /\ [Nested!AbsNext]_Nested!absVars
  BY SessionStep DEF Simulates
<1> QED  BY <1>1, <1>2, PTL DEF SessionSpec, ImplementsNestedTransactions, Nested!AbsSpec

\* A transaction is rejected with what went wrong in it and not with what went wrong in
\* taking it back, but for the driver after a COMMIT that failed (_rollbackQuietly,
\* index.android.ts:422; drizzle-driver.ts:226).
THEOREM ErrorsAreTheCallers == SessionSpec => []CallersErrorWins
<1>1. SessionInit => SessionInv  BY SessionStarts
<1>2. SessionInv /\ [SessionNext]_sessionVars => SessionInv'  BY SessionStep
<1>3. SessionInv => CallersErrorWins  BY DEF SessionInv
<1> QED  BY <1>1, <1>2, <1>3, PTL DEF SessionSpec

\* As long as the database is being opened the options are those it was called with.
LEMMA OptionsKept ==
  ASSUME phase = "opening" => options \in OptionSets, [SessionNext]_sessionVars
  PROVE  phase' = "opening" => options' \in OptionSets
<1>1. CASE OpenDatabase
  <2>1. phase' # "opening"
    BY <1>1 DEF OpenDatabase
  <2>2. QED
    BY <2>1
<1>2. CASE UNCHANGED sessionVars
  BY <1>2 DEF sessionVars
<1>3. ASSUME UNCHANGED openVars PROVE phase' = "opening" => options' \in OptionSets
  BY <1>3 DEF openVars
<1>4. CASE Begin \/ Execute \/ Nest \/ Return \/ Throw \/ Undo
  BY <1>3, <1>4 DEF Begin, Execute, Nest, Return, Throw, Undo
<1>5. CASE Drop \/ Commit \/ CommitFails \/ ReturnPromise \/ RollbackTransaction
  BY <1>3, <1>5 DEF Drop, Commit, CommitFails, ReturnPromise, RollbackTransaction
<1>6. QED
  BY <1>1, <1>2, <1>4, <1>5 DEF SessionNext

\* What openDatabase() opens is what it was asked for (normalizeOpenSteps() and
\* resolveEncryptionKey(), common.ts; openConnection() of both platforms), for any options:
\* open sequences of any length with any statements in them, every key, path and pool.
THEOREM OpensAreSound == SessionSpec => []OpenIsSound
<1>1. SessionInit => SessionInv /\ (phase = "opening" => options \in OptionSets)
  BY SessionStarts DEF SessionInit
<1>2. SessionInv /\ (phase = "opening" => options \in OptionSets) /\ [SessionNext]_sessionVars
        => SessionInv' /\ (phase = "opening" => options \in OptionSets)'
  BY SessionStep, OptionsKept
<1>3. SessionInv /\ (phase = "opening" => options \in OptionSets) => OpenIsSound
  BY OpenSound DEF SessionInv, SessionTypes
<1>4. QED
  BY <1>1, <1>2, <1>3, PTL DEF SessionSpec

\* Rows come back as they were written through every entry point of both platforms and of
\* the driver (parseSelectResult() and the rest, index.android.ts and index.ios.ts), for any
\* columns, any query, any number of rows and any parameters: a blob is where its marker says.
THEOREM RowsComeBack == SessionSpec => []RowsAreWhole
<1>1. SessionInit => SessionInv
  BY SessionStarts
<1>2. SessionInv /\ [SessionNext]_sessionVars => SessionInv'
  BY SessionStep
<1>3. SessionInv => RowsAreWhole
  BY RowsWhole DEF SessionInv, SessionTypes, Tables
<1>4. QED
  BY <1>1, <1>2, <1>3, PTL DEF SessionSpec
=============================================================================
