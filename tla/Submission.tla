------------------------------ MODULE Submission ------------------------------
(***************************************************************************)
(* One ingest request through the gateway (gateway/src/handlers/ingest.rs, *)
(* pipeline.rs, extract.rs, context.rs, preflight.rs) and on to where its  *)
(* jobs write (plugin-sdk inject_meili_context, worker/src/connection.rs,  *)
(* worker/src/archive_activity.rs), while other requests change the        *)
(* pipeline table between the gateway's calls to the control plane.        *)
(***************************************************************************)
EXTENDS Routing

CONSTANTS Requests,       \* the requests sent
          Tables,         \* the contents the pipeline table may have, each a sequence
          Builtins,       \* the built-in pipelines
          ConnectionRows, \* stored connections: records [uid, tenant]
          ArchiveFiles,   \* the files found in an archive: records [mime, name]
          LabAccounts,    \* tenants that are Lab accounts
          DefaultIndex    \* the deployment's default_index

VARIABLES req,     \* the request under way
          pc,      \* where the gateway is with it
          table,   \* the pipeline table of the control plane
          moved,   \* history: the table changed since the archive was planned
          items,   \* payload items that are not submitted yet
          ctx,     \* the request's MeiliContext
          route,   \* what was decided for the first item: [plan, pipe, target]
          status,  \* the last answer: 202 or the status of the refusal
          jobs,    \* workflows started
          writes   \* what the jobs wrote: [job, tenant, host, key, row, index]

vars == <<req, pc, table, moved, items, ctx, route, status, jobs, writes>>

NoRoute == [plan |-> "", pipe |-> {}, target |-> {}]
NoContext == [tenant |-> "", host |-> "", key |-> "", index |-> {}]

TypeOK == /\ req \in Requests /\ table \in Tables /\ moved \in BOOLEAN
          /\ pc \in {"extract", "path", "context", "item", "plan", "resolve", "destination", "preflight",
                     "credits", "stage", "start", "answer", "done"}
          /\ status \in {0, 202, 400, 402, 403, 404, 415, 422, 503}
          /\ Len(items) <= 2 /\ Cardinality(jobs) <= 2

Init == /\ req \in Requests
        /\ pc = "extract" /\ table \in Tables /\ moved = FALSE
        /\ items = <<>> /\ ctx = NoContext /\ route = NoRoute /\ status = 0
        /\ jobs = {} /\ writes = {}

\* Another request writes the table.
ChangeTable == /\ table' \in Tables \ {table}
               /\ moved' = (moved \/ pc = "resolve")
               /\ UNCHANGED <<req, pc, items, ctx, route, status, jobs, writes>>

-----------------------------------------------------------------------------
(* Reading the request. *)

\* A refused item of a batch is reported and the next one tried; alone, it is the answer.
Refuse(code) == /\ status' = code
                /\ pc' = "answer"
                /\ UNCHANGED <<req, table, moved, items, ctx, route, jobs, writes>>

Goto(next) == pc' = next /\ UNCHANGED <<req, table, moved, status, jobs, writes>>

\* The mime of an item: detected for a file, guessed from the name for a reference.
MimeOf(kind) ==
  CASE kind = "file" -> detect_mime(req.file)
    [] kind \in {"url", "s3"} -> OrElse(req.file.ext, OctetStream)
    [] OTHER -> <<"application", "json">>

Item(kind) == [kind |-> kind, mime |-> MimeOf(kind),
               name |-> IF kind = "documents" THEN {} ELSE req.name]

\* extract_payload: a multipart form's file beats its url, its s3 and its documents; a
\* JSON body has items, or the same without a file; anything else is one file.
Priority == <<"file", "url", "s3", "documents">>
FirstOf(fields) == {Priority[i] : i \in {i \in 1..4 : /\ Priority[i] \in fields
                                                      /\ \A j \in 1..(i - 1) : Priority[j] \notin fields}}
extract_payload(body) ==
  CASE body.form = "raw" -> IF body.fields = {} THEN {} ELSE {<<Item("file")>>}
    [] body.form = "multipart" -> {<<Item(k)>> : k \in FirstOf(body.fields)}
    [] OTHER -> IF body.items # <<>>
                THEN IF \A i \in 1..Len(body.items) : FirstOf(body.items[i] \ {"file"}) # {}
                     THEN {[i \in 1..Len(body.items) |-> Item(The(FirstOf(body.items[i] \ {"file"})))]}
                     ELSE {}
                ELSE {<<Item(k)>> : k \in FirstOf(body.fields \ {"file"})}

\* POST /ingest/pipeline/{name}: 404 before the body is read.
GetPipeline == /\ pc = "extract" /\ req.path # {}
               /\ LET p == resolve(table, Builtins, OctetStream, {}, req.tenant, req.path)
                  IN IF p = {} THEN Refuse(404)
                     ELSE /\ route' = [NoRoute EXCEPT !.pipe = p]
                          /\ Goto("path") /\ UNCHANGED <<items, ctx>>

\* read_payload; several items are for the batch route only.
Extract == /\ pc = "path" \/ (pc = "extract" /\ req.path = {})
           /\ LET found == extract_payload(req.body)
              IN IF found = {} \/ (Len(The(found)) > 1 /\ ~req.batch) THEN Refuse(400)
                 ELSE items' = The(found) /\ Goto("context") /\ UNCHANGED <<ctx, route>>

\* resolve_request_context: edge headers count only from a trusted edge; the key falls
\* back on the bearer; the deployment's own host and key are for requests without a tenant.
Context == /\ pc = "context"
           /\ LET edge(v, d) == IF req.trusted THEN v ELSE d
                  tenant == edge(req.tenant, "")
                  host == edge(req.host, "")
                  key == IF edge(req.key, "") # "" THEN req.key ELSE req.bearer
              IN IF tenant = "invalid" THEN Refuse(400)
                 ELSE /\ ctx' = [tenant |-> tenant,
                                 host |-> IF host = "" /\ tenant = "" THEN "own" ELSE host,
                                 key |-> IF key = "" /\ tenant = "" THEN "own" ELSE key,
                                 index |-> IF req.query # {} THEN req.query ELSE edge(req.index, {})]
                      /\ Goto("item") /\ UNCHANGED <<items, route>>

-----------------------------------------------------------------------------
(* submit_one, one call of it per item. *)

\* A forbidden URL or object reference is refused now rather than by the worker later.
CheckRef == /\ pc = "item"
            /\ \/ /\ items[1].kind \in {"url", "s3"} /\ req.blocked
                  /\ Refuse(422)
               \/ /\ ~(items[1].kind \in {"url", "s3"} /\ req.blocked)
                  /\ Goto(IF is_archive(items[1].mime) THEN "plan" ELSE "resolve")
                  /\ UNCHANGED <<items, ctx, route>>

\* Mutant of takes_archive_whole: a trigger that merely matches the type is enough.
TakesWholeIfMatches(p, m) == \E ct \in p.types : mime_matches(ct, m)

\* An archive stays whole only for a pipeline whose trigger names its very type.
takes_archive_whole(p, m) == \E ct \in p.types : canonical_mime(ct) = m

Selected(m, name) == IF req.path # {} THEN route.pipe
                     ELSE resolve(table, Builtins, m, name, ctx.tenant, req.pipeline)

archive_plan ==
  /\ pc = "plan"
  /\ LET p == Selected(items[1].mime, items[1].name)
         forced == IF req.path = {} /\ req.pipeline = {} THEN {} ELSE p
     IN \/ /\ req.pipeline # {} /\ p = {} /\ Refuse(404)
        \/ /\ ~(req.pipeline # {} /\ p = {})
           /\ \/ /\ \E q \in p : takes_archive_whole(q, items[1].mime)
                 /\ route' = [route EXCEPT !.plan = "whole"] /\ Goto("resolve")
              \/ /\ ~\E q \in p : takes_archive_whole(q, items[1].mime)
                 /\ route' = [plan |-> "expand", pipe |-> forced, target |-> {}] /\ Goto("destination")
           /\ UNCHANGED <<items, ctx>>

\* The pipeline of a file, asked for again after archive_plan; an explicit route has its.
Resolve == /\ pc = "resolve"
           /\ LET p == Selected(items[1].mime, items[1].name)
              IN IF p = {} THEN Refuse(IF req.pipeline # {} THEN 404 ELSE 415)
                 ELSE /\ route' = [route EXCEPT !.pipe = p]
                      /\ Goto("destination") /\ UNCHANGED <<items, ctx>>

\* require_destination unless the pipeline brings its own; a locked index excludes a
\* pipeline that names another; then the index, in this order.
resolve_index(p, m) ==
  IF p.pattern # {} THEN p.pattern
  ELSE IF ctx.index # {} THEN ctx.index
  ELSE {LET d == mime_to_default_index(m) IN IF d = "documents" THEN DefaultIndex ELSE d}

TargetIndex(p, m) == IF req.locked # {} THEN req.locked
                     ELSE IF fixed_index(p) # {} THEN fixed_index(p)
                     ELSE resolve_index(p, m)

archive_target_index(forced) ==
  IF req.locked # {} \/ forced = {} THEN req.locked
  ELSE LET p == The(forced)
       IN IF fixed_index(p) # {} THEN fixed_index(p)
          ELSE IF p.pattern # {} THEN p.pattern ELSE ctx.index

Conflicts(p, locked) == locked # {} /\ \E i \in step_indexes(p) : i \notin locked

NeedsDestination(p) == ~pins_destination(p) /\ (ctx.host = "" \/ ctx.key = "")

Destination ==
  /\ pc = "destination"
  /\ \/ /\ \E p \in route.pipe : NeedsDestination(p)
        /\ Refuse(400)
     \/ /\ \E p \in route.pipe : ~NeedsDestination(p) /\ Conflicts(p, req.locked)
        /\ Refuse(422)
     \/ /\ \A p \in route.pipe : ~NeedsDestination(p) /\ ~Conflicts(p, req.locked)
        /\ route' = [route EXCEPT !.target =
             IF route.plan = "expand" THEN archive_target_index(route.pipe)
             ELSE TargetIndex(The(route.pipe), items[1].mime)]
        /\ Goto("preflight") /\ UNCHANGED <<items, ctx>>

\* check_write: the caller's key is tried on the target index when there is one to try
\* it on; only a refusal (401, 403) refuses, an unreachable Meilisearch does not.
Preflight ==
  /\ pc = "preflight"
  /\ \/ Goto("credits") /\ UNCHANGED <<items, ctx, route>>
     \/ /\ ~\E p \in route.pipe : pins_destination(p)
        /\ route.target # {} /\ ctx.host # "" /\ ctx.key # ""
        /\ Refuse(403)

\* The credit check of a Lab account: allowed, without credits, or the Lab is away.
Credits == /\ pc = "credits"
           /\ \/ Goto("stage") /\ UNCHANGED <<items, ctx, route>>
              \/ ctx.tenant \in LabAccounts /\ (Refuse(402) \/ Refuse(503))

\* Documents cannot be an archive; bytes are staged, references passed on.
Stage == /\ pc = "stage"
         /\ \/ Goto("start") /\ UNCHANGED <<items, ctx, route>>
            \/ items[1].kind = "file" /\ Refuse(503)     \* the blob store failed

\* The workflow gets the pipeline and the context as they are now.
NewJob == [n |-> Cardinality(jobs), archive |-> route.plan = "expand", pipe |-> route.pipe,
           mime |-> items[1].mime, locked |-> req.locked, target |-> route.target,
           ctx |-> IF route.plan = "expand" THEN ctx ELSE [ctx EXCEPT !.index = route.target],
           whole |-> route.plan = "whole", moved |-> moved]

Start == /\ pc = "start"
         /\ \/ /\ jobs' = jobs \cup {NewJob}
               /\ status' = 202 /\ pc' = "answer"
               /\ UNCHANGED <<req, table, moved, items, ctx, route, writes>>
            \/ Refuse(503)

\* submit_batch goes on with the next item whatever became of this one.
Answer == /\ pc = "answer"
          /\ IF Len(items) > 1
             THEN /\ items' = Tail(items) /\ pc' = "item" /\ moved' = FALSE
                  /\ route' = IF req.path # {} THEN [NoRoute EXCEPT !.pipe = route.pipe] ELSE NoRoute
             ELSE pc' = "done" /\ items' = <<>> /\ UNCHANGED <<route, moved>>
          /\ UNCHANGED <<req, table, ctx, status, jobs, writes>>

-----------------------------------------------------------------------------
(* Where the jobs write. *)

\* Mutant of Rows: the connection is looked up by uid only.
RowsOfAnyone(uid, tenant) == {r \in ConnectionRows : r.uid = uid}

\* inject_meili_context and resolve_connection for one indexer step: a pinned step uses
\* its connection's row (the tenant's own, or the global one for a job without a tenant)
\* and fails without one; any other step writes with the context's host and key.
Rows(uid, tenant) == {r \in ConnectionRows : r.uid = uid /\ r.tenant = tenant}

StepWrites(j, p, c) ==
  UNION {LET index == IF s.index # {} THEN s.index ELSE c.index
         IN IF s.connection # {}
            THEN {[job |-> j.n, tenant |-> c.tenant, host |-> "", key |-> "", row |-> {r}, index |-> index] :
                    r \in Rows(The(s.connection), c.tenant)}
            ELSE {[job |-> j.n, tenant |-> c.tenant, host |-> c.host, key |-> c.key, row |-> {}, index |-> index]} :
         s \in Indexers(p)}

RunJob(j) == /\ ~j.archive
             /\ writes' = writes \cup StepWrites(j, The(j.pipe), j.ctx)
             /\ jobs' = jobs \ {j}
             /\ UNCHANGED <<req, pc, table, moved, items, ctx, route, status>>

\* prepare: the file is routed by its own type unless a pipeline is forced, skipped
\* without a pipeline or a destination, refused on a conflict with the locked index.
file_index(j, p, f) ==
  IF j.locked # {} THEN j.locked
  ELSE IF fixed_index(p) # {} THEN fixed_index(p)
  ELSE IF p.pattern # {} THEN p.pattern
  ELSE IF j.ctx.index # {} THEN j.ctx.index
  ELSE {LET d == mime_to_default_index(f.mime) IN IF d = "documents" THEN DefaultIndex ELSE d}

RunFile(j, f) ==
  LET pipe == IF j.pipe # {} THEN j.pipe
              ELSE resolve(table, Builtins, f.mime, f.name, j.ctx.tenant, {})
      runs == {p \in pipe : /\ pins_destination(p) \/ (j.ctx.host # "" /\ j.ctx.key # "")
                            /\ ~Conflicts(p, j.locked)}
  IN /\ j.archive
     /\ writes' = writes \cup
          UNION {StepWrites(j, p, [j.ctx EXCEPT !.index = file_index(j, p, f)]) : p \in runs}
     /\ jobs' = jobs \ {j}
     /\ UNCHANGED <<req, pc, table, moved, items, ctx, route, status>>

Done == pc = "done" /\ jobs = {} /\ UNCHANGED vars

Next == \/ ChangeTable
        \/ GetPipeline \/ Extract \/ Context \/ CheckRef \/ archive_plan \/ Resolve \/ Destination
        \/ Preflight \/ Credits \/ Stage \/ Start \/ Answer
        \/ \E j \in jobs : pc = "done" /\ (RunJob(j) \/ \E f \in ArchiveFiles : RunFile(j, f))
        \/ Done

Spec == Init /\ [][Next]_vars

-----------------------------------------------------------------------------
(* A request that carries a tenant never writes with the deployment's own  *)
(* host or key, nor through a connection of anyone else; a request without *)
(* one never through a tenant's connection (context.rs:176,                *)
(* worker/src/connection.rs:131).                                          *)
TenantIsolation ==
  \A w \in writes : /\ w.tenant # "" => w.host # "own" /\ w.key # "own"
                    /\ \A r \in w.row : r.tenant = w.tenant

(* Under /indexes/{uid}/ every job, and every file of an archive, writes   *)
(* to uid and nowhere else, whatever the pipeline, the headers, the query  *)
(* and the table say (ingest.rs:102-106).                                  *)
LockedIndexOnly == req.locked # {} => \A w \in writes : w.index = req.locked

(* An archive is handed whole only to a pipeline that names its type, if   *)
(* the table did not change between the two calls of one submission that   *)
(* read it (archive_plan, submit_one).                                     *)
WholeOnlyIfNamed ==
  \A j \in jobs : is_archive(j.mime) /\ ~j.archive /\ ~j.moved
                     => \A p \in j.pipe : \E ct \in p.types : canonical_mime(ct) = j.mime

=============================================================================
