----------------------------- MODULE Destinations -----------------------------
(***************************************************************************)
(* Where a tenant's data is written: one submission through the gateway    *)
(* (Submission), the stored connections that a job of it may name          *)
(* (Connections), the store that its steps pass data through (BlobStore),  *)
(* and the index that its last step writes to (Indexer), for any requests, *)
(* pipelines, rows and jobs.  The submission reads connections as they     *)
(* are, the requests that change them are others, an index step has its    *)
(* connection resolved and its input read before it begins, so one of them *)
(* runs at a time and the others are idle.                                 *)
(***************************************************************************)
EXTENDS Integers, Sequences, FiniteSets

CONSTANTS Submissions, PipelineLists, BuiltinList, StoredConnections, FilesFound,     \* Submission
          CreditAccounts, OwnIndex,
          Tenants, ConnectionCalls, ConnectionReaders, Works, Hosts,                  \* Connections
          IndexAttempts, IndexConfigs, IndexStates, DocKeys,                          \* Indexer
          batch_size, max_batch_bytes, Slices,
          StepInputs, StepAttempts, UploadedFiles, threshold, inline_max              \* BlobStore

VARIABLES which,
          req, pc, table, moved, items, ctx, route, status, jobs, writes,     \* Submission
          conns, refused, call, job, proven, was, overlapped,                 \* Connections
          cfg, index, tasks, stored, calls,                                   \* Indexer
          objects, input, spills, accepted, reader                            \* BlobStore

submission  == <<req, pc, table, moved, items, ctx, route, status, jobs, writes>>
connections == <<conns, refused, call, job, proven, was, overlapped>>
indexer     == <<cfg, index, tasks, stored, calls>>
blobs       == <<objects, input, spills, accepted, reader>>

\* A path names at most one index; "own" marks what comes from the deployment and not from a request.
ASSUME SubmissionAssumption ==
    \A q \in Submissions : /\ \A u \in q.locked : q.locked = {u}
                           /\ q.host # "own" /\ q.key # "own" /\ q.bearer # "own"

\* The fields of CreateConnectionRequest and UpdateConnectionRequest: a new connection has a host.
ASSUME ConnectionsAssumption ==
    /\ \A r \in DOMAIN ConnectionCalls :
         LET q == ConnectionCalls[r]
         IN /\ q.tenant \in Tenants /\ q.uid \in STRING
            /\ q.host \subseteq STRING /\ q.api_key \subseteq STRING /\ q.name \subseteq STRING
            /\ q.kind = "create" => q.host # {}
    /\ \A j \in DOMAIN ConnectionReaders : ConnectionReaders[j] \in Tenants
    /\ "" \in Tenants

\* The limits of a batch are at least 1 (parse_config), and there is one index at most.
ASSUME IndexerAssumption ==
    /\ batch_size \in Nat \ {0} /\ max_batch_bytes \in Nat \ {0}
    /\ \A state \in IndexStates : \A k \in state : state = {k}
    /\ \A c \in IndexConfigs : \A j \in DOMAIN c :
         c[j].sizes \in Seq(Nat) /\ c[j].auto_create_index \in BOOLEAN /\ c[j].wait_for_completion \in BOOLEAN

\* What a step reads is a list of slots: the id of a step, and its branch if it has any;
\* sizes and the limits for them are numbers of bytes.
ASSUME StoreAssumption ==
    /\ StepInputs \in Seq(Seq(STRING) \X SUBSET STRING)
    /\ threshold \in Nat /\ inline_max \in Nat /\ \A blob \in UploadedFiles : blob.size \in Nat

Sub == INSTANCE Submission
         WITH Requests <- Submissions, Tables <- PipelineLists, Builtins <- BuiltinList, ConnectionRows <- StoredConnections,
              ArchiveFiles <- FilesFound, LabAccounts <- CreditAccounts, DefaultIndex <- OwnIndex

Con == INSTANCE Connections WITH Requests <- ConnectionCalls, Readers <- ConnectionReaders

Idx == INSTANCE Indexer WITH Attempts <- IndexAttempts, Configs <- IndexConfigs, Indexes <- IndexStates, attempt <- calls

Blob == INSTANCE BlobStore WITH Inputs <- StepInputs, Attempts <- StepAttempts, Uploads <- UploadedFiles, attempt <- spills

IdleConnections == conns = {} /\ refused = {} /\ call = {} /\ job = {} /\ proven = {} /\ was = {} /\ overlapped = {}
IdleSubmission == /\ req = {} /\ pc = {} /\ table = {} /\ moved = {} /\ items = {}
                  /\ ctx = {} /\ route = {} /\ status = {} /\ jobs = {} /\ writes = {}

IdleIndexer == cfg = {} /\ index = {} /\ tasks = {} /\ stored = {} /\ calls = {}

IdleBlobs == objects = {} /\ input = {} /\ spills = {} /\ accepted = {} /\ reader = {}

InitDestination == \/ which = "submission" /\ Sub!Init /\ IdleConnections /\ IdleIndexer /\ IdleBlobs
                   \/ which = "connections" /\ Con!Init /\ IdleSubmission /\ IdleIndexer /\ IdleBlobs
                   \/ which = "index" /\ Idx!Init /\ IdleSubmission /\ IdleConnections /\ IdleBlobs
                   \/ which = "blobs" /\ Blob!Init /\ IdleSubmission /\ IdleConnections /\ IdleIndexer

NextDestination == /\ UNCHANGED which
                   /\ \/ which = "submission" /\ Sub!Next /\ UNCHANGED <<connections, indexer, blobs>>
                      \/ which = "connections" /\ Con!Next /\ UNCHANGED <<submission, indexer, blobs>>
                      \/ which = "index" /\ Idx!Next /\ UNCHANGED <<submission, connections, blobs>>
                      \/ which = "blobs" /\ Blob!Next /\ UNCHANGED <<submission, connections, indexer>>

SpecDestination == InitDestination /\ [][NextDestination]_<<which, submission, connections, indexer, blobs>>

\* The job of a tenant writes with that tenant's destination only, and to the locked index
\* only when there is one; a connection is what a request of its own tenant made it, and a
\* worker never uses one that is gone or not the tenant's (meili_context, submit_item,
\* resolve_connection, patch_connection).
DestinationSound ==
  CASE which = "submission" -> Sub!TenantIsolation /\ Sub!LockedIndexOnly
    [] which = "connections" -> Con!ConnectionsSound
    [] OTHER -> TRUE

\* An archive is expanded unless a pipeline of its own was named or routed to it
\* (archive_plan, resolved once more by submit).
WholeOnlyIfNamed == which = "submission" => Sub!WholeOnlyIfNamed

\* A step that reports its documents as indexed has them in the index, whatever an
\* earlier attempt or another job does to it (MeiliIndexerPlugin::execute).
IndexedMeansStored == which = "index" => Idx!IndexedMeansStored

\* What a step or an upload left in the blob store is what the next step reads, whole and
\* in its place (BlobStore::spill_output, hydrate_output, stage_upload).
FilesWhole == which = "blobs" => Blob!StoreWhole

\* A destination that is stored was proven to work (create_connection, patch_connection).
SavedIsProven == which = "connections" => Con!SavedIsProven
=============================================================================
