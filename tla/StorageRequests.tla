--------------------------- MODULE StorageRequests ---------------------------
(***************************************************************************)
(* The requests of the Supabase storage client (supabase-storage/): one    *)
(* operator per method of its classes, saying what the method sends, what  *)
(* it takes from the answer and which errors it turns into an answer.      *)
(*                                                                         *)
(* An operation has these fields:                                          *)
(*   api        the class that offers it                                   *)
(*   via        fetch(), the native HTTP module, or the Iceberg catalog    *)
(*   method     of the request                                             *)
(*   namespace  "storage" or "vectors"                                     *)
(*   catches    "operation" (handleOperation), "exists", "download",       *)
(*              "stream" or "catalog"                                      *)
(*   takes      what it takes from the answer, "all" if it is passed on    *)
(*   voids      an answer of null becomes {}                               *)
(*   checks     the arguments are checked before anything is caught        *)
(*   path       how the object is named: "raw", "final" or "clean", or     *)
(*              "none" where it names no object                            *)
(*                                                                         *)
(* A path is a sequence of "/" and of names.                               *)
(***************************************************************************)
EXTENDS Integers, Sequences, FiniteSets, SequencesExt, Selections

Operation(api, method) ==
  [api |-> api, via |-> "fetch", method |-> method, namespace |-> "storage",
   catches |-> "operation", takes |-> "all", voids |-> FALSE, checks |-> FALSE,
   path |-> "none"]

(* StorageBucketApi *)
ListBuckets           == Operation("bucket", "GET")
GetBucket             == Operation("bucket", "GET")
CreateBucket          == Operation("bucket", "POST")
UpdateBucket          == Operation("bucket", "PUT")
EmptyBucket           == Operation("bucket", "POST")
DeleteBucket          == Operation("bucket", "DELETE")
GetBucketLifecycle    == Operation("bucket", "GET")
UpdateBucketLifecycle == Operation("bucket", "PUT")
DeleteBucketLifecycle == Operation("bucket", "DELETE")
PurgeBucketCache      == Operation("bucket", "DELETE")

(* StorageFileApi *)
Named(method, path)   == [Operation("file", method) EXCEPT !.path = path]
UploadOrUpdate(method) == [Named(method, "clean") EXCEPT !.via = "native", !.takes = "path"]
Upload                == UploadOrUpdate("POST")
Update                == UploadOrUpdate("PUT")
UploadToSignedUrl     == UploadOrUpdate("PUT")
CreateSignedUploadUrl == [Named("POST", "final") EXCEPT !.takes = "token"]
Move                  == Named("POST", "raw")
Copy                  == [Named("POST", "raw") EXCEPT !.takes = "field"]
CreateSignedUrl       == [Named("POST", "final") EXCEPT !.takes = "field"]
CreateSignedUrls      == [Named("POST", "raw") EXCEPT !.takes = "list"]
Download              == [Named("GET", "final") EXCEPT !.catches = "download", !.takes = "response"]
AsStream              == [Named("GET", "final") EXCEPT !.catches = "stream", !.takes = "response"]
Info                  == Named("GET", "final")
Exists                == [Named("HEAD", "final") EXCEPT !.catches = "exists", !.takes = "response"]
RemoveFiles           == Named("DELETE", "raw")
PurgeCache            == Named("DELETE", "final")
ListFiles             == Operation("file", "POST")
ListFilesV2           == Operation("file", "POST")

(* The vector classes; what answers without data voids.                    *)
Vector(api)           == [Operation(api, "POST") EXCEPT !.namespace = "vectors"]
Voiding(operation)    == [operation EXCEPT !.voids = TRUE]
Checked(operation)    == [operation EXCEPT !.checks = TRUE]
CreateVectorBucket    == Voiding(Vector("vectors"))
GetVectorBucket       == Vector("vectors")
ListVectorBuckets     == Vector("vectors")
DeleteVectorBucket    == Voiding(Vector("vectors"))
CreateIndex           == Voiding(Vector("indexes"))
GetIndex              == Vector("indexes")
ListIndexes           == Vector("indexes")
DeleteIndex           == Voiding(Vector("indexes"))
PutVectors            == Checked(Voiding(Vector("index")))
GetVectors            == Vector("index")
ListVectors           == Checked(Vector("index"))
QueryVectors          == Vector("index")
DeleteVectors         == Checked(Voiding(Vector("index")))

(* StorageAnalyticsClient; CatalogCall is any method of a catalog, which   *)
(* its from() makes.                                                       *)
CreateAnalyticsBucket == Operation("analytics", "POST")
ListAnalyticsBuckets  == Operation("analytics", "GET")
DeleteAnalyticsBucket == Operation("analytics", "DELETE")
CatalogCall           == [Operation("catalog", "GET")
                            EXCEPT !.via = "iceberg", !.catches = "catalog"]

Operations ==
  {ListBuckets, GetBucket, CreateBucket, UpdateBucket, EmptyBucket, DeleteBucket,
   GetBucketLifecycle, UpdateBucketLifecycle, DeleteBucketLifecycle, PurgeBucketCache,
   Upload, Update, UploadToSignedUrl, CreateSignedUploadUrl, Move, Copy,
   CreateSignedUrl, CreateSignedUrls, Download, Info, Exists, RemoveFiles,
   PurgeCache, ListFiles, ListFilesV2,
   CreateVectorBucket, GetVectorBucket, ListVectorBuckets, DeleteVectorBucket,
   CreateIndex, GetIndex, ListIndexes, DeleteIndex,
   PutVectors, GetVectors, ListVectors, QueryVectors, DeleteVectors,
   CreateAnalyticsBucket, ListAnalyticsBuckets, DeleteAnalyticsBucket, CatalogCall}

(* The classes that the package exports and an application can create.     *)
Exported == {"bucket", "analytics", "vectors", "indexes", "index"}

(* The classes of the clients that a client makes, also by a chain of such *)
(* calls (storage.vectors.from(b).index(i)), which keeps only the last.    *)
Makes(api) ==
  CASE api = "bucket"    -> {"file", "vectors", "indexes", "index", "analytics", "catalog"}
    [] api = "vectors"   -> {"indexes", "index"}
    [] api = "indexes"   -> {"index"}
    [] api = "analytics" -> {"catalog"}
    [] OTHER             -> {}

-----------------------------------------------------------------------------
(* Paths.                                                                  *)

Slash == "/"

Trimmed(path) ==
  LET p == IF path # <<>> /\ Head(path) = Slash THEN Tail(path) ELSE path
  IN  IF p # <<>> /\ Last(p) = Slash THEN Front(p) ELSE p

RemoveEmptyFolders(path) ==
  LET p  == Trimmed(path)
      at == Ascending({i \in DOMAIN p : ~(i > 1 /\ p[i] = Slash /\ p[i - 1] = Slash)})
  IN  [k \in DOMAIN at |-> p[at[k]]]

(* The bucket's name goes before it.                                       *)
GetFinalPath(path) ==
  LET slashes == Cardinality({i \in 1..Len(path) : \A j \in 1..i : path[j] = Slash})
  IN  SubSeq(path, slashes + 1, Len(path))

Target(operation, path) ==
  CASE operation.path = "raw"   -> path
    [] operation.path = "final" -> GetFinalPath(path)
    [] operation.path = "clean" -> GetFinalPath(RemoveEmptyFolders(path))

(* Fault: an upload answers with the path it was called with.              *)
AnsweredPath_AsCalled(operation, path) == path

(* The path that goes into the answer.                                     *)
AnsweredPath(operation, path) ==
  IF operation.path = "clean" THEN RemoveEmptyFolders(path) ELSE path

-----------------------------------------------------------------------------
(* What a request comes to is an outcome [status, body]: status 0 is a     *)
(* network that failed, and body "object", "list", "null", "text" (not     *)
(* JSON), "none", or "lost" where the connection breaks while it is read.  *)
(* A result is [data |-> ...] or an error [error |-> its class, status].   *)

Bodies == {"object", "list", "null", "text", "none", "lost"}

Data(what)           == [data |-> what]
Failure(what, status) == [error |-> what, status |-> status]
IsError(result)      == "error" \in DOMAIN result
Successful(status)   == status \in 200..299
IsJson(body)         == body \in {"object", "list", "null"}

(* Fault: an error that is not a response is passed on as it is.           *)
HandleError_Bare(outcome) ==
  IF outcome.status = 0 \/ Successful(outcome.status) THEN Failure("TypeError", 0)
  ELSE Failure("StorageApiError", outcome.status)

HandleError(outcome) ==
  IF outcome.status = 0 \/ Successful(outcome.status) THEN Failure("StorageUnknownError", 0)
  ELSE Failure("StorageApiError", outcome.status)

HandleRequest(operation, outcome) ==
  IF ~Successful(outcome.status) THEN HandleError(outcome)
  ELSE IF operation.takes = "response" THEN Data("response")
  ELSE IF /\ operation.namespace = "vectors"
          /\ outcome.status = 204 \/ outcome.body \in {"none", "text"} THEN Data("empty")
  ELSE IF IsJson(outcome.body) THEN Data(outcome.body)
  ELSE HandleError(outcome)

(* Http.request() of the native module, which answers when it has the body *)
(* too, and toJSON(), which throws for a body that is not JSON, of an      *)
(* error as of a success.                                                  *)
NativeRequest(outcome) ==
  CASE outcome.status = 0 \/ outcome.body = "lost" -> Failure("NativeError", 0)
    [] OTHER ->
         IF ~IsJson(outcome.body) THEN Failure("SyntaxError", 0)
         ELSE IF Successful(outcome.status) THEN Data("object")
         ELSE Failure("StorageApiError", outcome.status)

(* What the operation makes of the data.                                   *)
Taken(operation, data, body) ==
  IF \/ operation.takes \in {"field", "token"} /\ data = "null"
     \/ operation.takes = "list" /\ data # "list"
     \/ operation.catches = "download" /\ body = "lost"       THEN Failure("TypeError", 0)
  ELSE IF operation.takes = "token" /\ data # "object"        THEN Failure("StorageError", 0)
  ELSE IF operation.catches = "exists"                        THEN Data("true")
  ELSE IF operation.voids /\ data = "null"                    THEN Data("empty")
  ELSE Data(data)

(* The catalog is a library's: any status that is not of success and any   *)
(* body that is not JSON is an error of its own.                           *)
CatalogRequest(outcome) ==
  IF Successful(outcome.status) /\ IsJson(outcome.body) THEN Data(outcome.body)
  ELSE Failure("IcebergError", outcome.status)

Result(operation, outcome) ==
  LET result == CASE operation.via = "native"  -> NativeRequest(outcome)
                  [] operation.via = "iceberg" -> CatalogRequest(outcome)
                  [] operation.via = "fetch"   -> HandleRequest(operation, outcome)
  IN  IF IsError(result) THEN result ELSE Taken(operation, result.data, outcome.body)

IsStorageError(error) ==
  error.error \in {"StorageError", "StorageApiError", "StorageUnknownError"}

(* What the caller's promise is settled with.                              *)
Rejected(error)       == [how |-> "rejected", error |-> error.error, data |-> "none"]
Answer(data, error)   == [how |-> "resolved", error |-> error, data |-> data]

HandleOperation(throws, result) ==
  IF ~IsError(result) THEN Answer(result.data, "null")
  ELSE IF ~throws /\ IsStorageError(result) THEN Answer("null", result.error)
  ELSE Rejected(result)

ExistsAnswer(throws, result) ==
  IF ~IsError(result) THEN Answer("true", "null")
  ELSE IF ~throws /\ IsStorageError(result) /\ result.status \in {400, 404} THEN Answer("false", result.error)
  ELSE Rejected(result)

ExecuteDownload(throws, result) == HandleOperation(throws, result)
ExecuteStream(throws, result)   == HandleOperation(throws, result)

CatalogAnswer(throws, result) ==
  IF ~IsError(result) THEN Answer(result.data, "null")
  ELSE IF ~throws THEN Answer("null", result.error)
  ELSE Rejected(result)

Settled(operation, throws, result) ==
  CASE operation.catches = "operation" -> HandleOperation(throws, result)
    [] operation.catches = "exists"    -> ExistsAnswer(throws, result)
    [] operation.catches = "download"  -> ExecuteDownload(throws, result)
    [] operation.catches = "stream"    -> ExecuteStream(throws, result)
    [] operation.catches = "catalog"   -> CatalogAnswer(throws, result)
=============================================================================
