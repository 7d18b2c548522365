----------------------------- MODULE Definitions -----------------------------
(***************************************************************************)
(* Pipeline definitions, from the text a tenant posts to the steps a       *)
(* worker runs: normalisation and validation (plugin-sdk/src/types.rs),    *)
(* the checks and the table of the control plane (control-plane/src/       *)
(* pipelines.rs), the worker's plugin registry (worker/src/registry.rs),   *)
(* the waves and the fan-out (worker/src/dag.rs) and the built-in          *)
(* pipelines and catalog (router/src), as operators.                       *)
(*                                                                         *)
(* A definition is [uid, tenant, version, steps], a step [id, plugin,      *)
(* deps, fan_out, config]; deps is a sequence of ids, fan_out {} or a      *)
(* path, config [fits, connection]: whether the plugin's schema allows it, *)
(* and the connection it pins, if any.                                     *)
(***************************************************************************)
EXTENDS Documents

Step(id, plugin) == [id |-> id, plugin |-> plugin, deps |-> <<>>, fan_out |-> {}, config |-> [fits |-> TRUE, connection |-> {}]]
ids(steps) == {steps[i].id : i \in DOMAIN steps}
step(steps, id) == steps[CHOOSE i \in DOMAIN steps : steps[i].id = id /\ \A j \in 1..i - 1 : steps[j].id # id]

-----------------------------------------------------------------------------
(* normalize and validate. *)

\* A step that names no dependency follows the one before it.
normalize(steps) ==
  [i \in DOMAIN steps |-> IF i > 1 /\ steps[i].deps = <<>> THEN [steps[i] EXCEPT !.deps = <<steps[i - 1].id>>] ELSE steps[i]]

\* uid.chars().all(..): "" and "a b" stand for the names that fail it.
ValidUid(uid) == uid \notin {"", "a b"}
Paths == {"$.documents", "$.many", "$"}

\* The first error of a step: an unknown dependency, then the fan-out.
StepError(steps, s) ==
  CASE \E d \in ToSet(s.deps) : d \notin ids(steps) -> {"UnknownDependency"}
    [] ToSet(s.deps) \subseteq ids(steps) /\ s.fan_out # {} /\ Len(s.deps) # 1 -> {"FanOutArity"}
    [] ToSet(s.deps) \subseteq ids(steps) /\ s.fan_out # {} /\ Len(s.deps) = 1 /\ Only(s.fan_out) \notin Paths -> {"FanOutPath"}
    [] OTHER -> {}

\* Kahn's algorithm on the positions of the steps.  An edge counts once for every
\* time it is written, in the indegree and among the children alike.
Times(deps, id) == Cardinality({k \in DOMAIN deps : deps[k] = id})
KahnOnce(steps, k) ==
  LET i == Head(k.queue)
      left == [c \in DOMAIN steps |-> k.indegree[c] - Times(steps[c].deps, steps[i].id)]
      ready == {c \in DOMAIN steps : k.indegree[c] > 0 /\ left[c] = 0}
  IN [queue |-> Tail(k.queue) \o SetToSortSeq(ready, <), indegree |-> left, order |-> Append(k.order, steps[i].id)]
KahnStop(steps, k) == IF k.queue = <<>> THEN k ELSE KahnOnce(steps, k)
Kahn(steps) ==
  LET indegree == [i \in DOMAIN steps |-> Len(steps[i].deps)]
      start == [queue |-> SetToSortSeq({i \in DOMAIN steps : indegree[i] = 0}, <), indegree |-> indegree, order |-> <<>>]
  IN FoldLeft(LAMBDA k, i : KahnStop(steps, k), start, steps)

validate(d) ==
  LET errors == {i \in DOMAIN d.steps : StepError(d.steps, d.steps[i]) # {}}
      k == Kahn(d.steps)
  IN CASE ~ValidUid(d.uid) -> Err("InvalidUid")
       [] ValidUid(d.uid) /\ d.steps = <<>> -> Err("Empty")
       [] ValidUid(d.uid) /\ d.steps # <<>> /\ Cardinality(ids(d.steps)) < Len(d.steps) -> Err("DuplicateStep")
       [] ValidUid(d.uid) /\ d.steps # <<>> /\ Cardinality(ids(d.steps)) = Len(d.steps) /\ errors # {} ->
            Err(Only(StepError(d.steps, d.steps[CHOOSE i \in errors : \A j \in errors : i <= j])))
       [] OTHER -> IF Len(k.order) # Len(d.steps) THEN Err("Cycle") ELSE Ok(k.order)

-----------------------------------------------------------------------------
(* The built-in pipelines, and what the catalog says of them. *)

Linear(names) == normalize([i \in DOMAIN names |-> Step(ToString(i), names[i])])
Extracted == {<<"builtin.pdf", "pdf_extractor">>, <<"builtin.word", "docx_extractor">>, <<"builtin.html", "html_extractor">>}
Rows == {<<"builtin.excel", "xlsx_extractor">>, <<"builtin.powerpoint", "pptx_extractor">>, <<"builtin.markdown", "markdown_extractor">>, <<"builtin.csv", "csv_parser">>,
         <<"builtin.json", "json_flattener">>, <<"builtin.parquet", "parquet_parser">>, <<"builtin.avro", "avro_parser">>, <<"builtin.msgpack", "msgpack_parser">>,
         <<"builtin.image", "image_captioner">>, <<"builtin.audio", "whisper_transcriber">>}
builtin(uid, names) == [uid |-> uid, tenant |-> {}, version |-> 1, steps |-> Linear(names)]
builtin_pipelines ==
  {builtin(p[1], <<p[2], "chunker", "meili_indexer">>) : p \in Extracted} \cup {builtin(p[1], <<p[2], "meili_indexer">>) : p \in Rows}
  \cup {builtin("builtin.text", <<"chunker", "meili_indexer">>), builtin("builtin.video", <<"video_audio_extractor", "whisper_transcriber", "meili_indexer">>)}

workflows == {[uid |-> p.uid, steps |-> <<>>] : p \in builtin_pipelines}
             \cup {[uid |-> "pdf-with-enrichment",
                    steps |-> <<Step("extract", "pdf_extractor"), Step("chunk", "chunker"),
                                [Step("enrich", "llm_enricher") EXCEPT !.deps = <<"chunk">>, !.fan_out = {"$.documents"}], Step("index", "meili_indexer")>>]}

-----------------------------------------------------------------------------
(* The control plane: its checks and the table of definitions.  db is      *)
(* [manifests, connections, rows]; a manifest is [name, compiles].         *)

ALL_KNOWN == {"pdf_extractor", "docx_extractor", "xlsx_extractor", "html_extractor", "markdown_extractor", "csv_parser",
              "json_flattener", "msgpack_parser", "avro_parser", "parquet_parser", "chunker", "document_script", "meili_indexer",
              "llm_enricher", "jev_enricher", "image_captioner", "pptx_extractor", "whisper_transcriber", "video_audio_extractor"}
             \cup {"s3_downloader", "ocr"}
\* Names with the reserved prefix; "builtin.none" stands for those no pipeline has.
is_builtin_uid(uid) == uid \in {p.uid : p \in builtin_pipelines} \cup {"builtin.none"}
unknown_plugins(d, registered) == {s.plugin : s \in ToSet(d.steps)} \ (ALL_KNOWN \cup registered)

\* The steps whose config breaks the schema of a manifest that is there and compiles.
config_errors(d, manifests) ==
  {s \in ToSet(d.steps) : ~s.config.fits /\ \E m \in manifests : m.name = s.plugin /\ m.compiles}

\* The pinned connections that a worker would not find: a tenant has only its own.
ConnectionErrors(d, connections) ==
  {s \in ToSet(d.steps) : s.plugin = "meili_indexer" /\ \E c \in s.config.connection : [uid |-> c, tenant |-> d.tenant] \notin connections}

check_against_registry(db, d) ==
  CASE unknown_plugins(d, {m.name : m \in db.manifests}) # {} -> {"UnknownPlugin"}
    [] OTHER -> IF config_errors(d, db.manifests) = {} /\ ConnectionErrors(d, db.connections) = {} THEN {} ELSE {"Validation"}

tenant_scope(explicit, header) == IF explicit # {} THEN explicit ELSE header

prepare_definition(d) ==
  LET n == [d EXCEPT !.steps = normalize(d.steps)]
  IN CASE is_builtin_uid(d.uid) -> Err("Builtin")
       [] OTHER -> IF IsOk(validate(n)) THEN Ok(n) ELSE Err("Validation")

\* What validate and create share: the definition as it will be stored.
Prepared(db, d, header) ==
  LET p == prepare_definition(d)
      scoped == [p.ok EXCEPT !.tenant = tenant_scope(d.tenant, header)]
      e == check_against_registry(db, scoped)
  IN CASE ~IsOk(p) -> p
       [] IsOk(p) /\ e # {} -> Err(Only(e))
       [] OTHER -> Ok(scoped)

validate_pipeline(db, d, header) ==
  LET p == Prepared(db, d, header) IN IF IsOk(p) THEN Ok([order |-> validate(p.ok).ok, normalized |-> p.ok]) ELSE p

\* The version is a Postgres integer: one that does not fit starts at 1, and the
\* largest cannot be raised.
IntMax == 3
VersionColumn(v) == LET at_least == IF v < 1 THEN 1 ELSE v IN IF at_least > IntMax THEN 1 ELSE at_least
\* Names that are equal for the unique key of the table.
SameKey(r, d) == r.uid = d.uid /\ r.tenant = d.tenant
upsert(rows, d) ==
  LET old == {r \in rows : SameKey(r, d)}
      new(v) == [d EXCEPT !.version = v]
  IN CASE old = {} -> Ok((rows \cup {new(VersionColumn(d.version))}))
       [] old # {} /\ Only(old).version = IntMax -> Err("Database")
       [] OTHER -> Ok((rows \ old) \cup {new(Only(old).version + 1)})
create_pipeline(db, d, header) ==
  LET p == Prepared(db, d, header) IN IF IsOk(p) THEN upsert(db.rows, p.ok) ELSE p

\* The tenant's own row before the global one.
get(rows, uid, tenant) ==
  LET own == {r \in rows : r.uid = uid /\ r.tenant = tenant}
  IN IF own # {} THEN own ELSE {r \in rows : r.uid = uid /\ r.tenant = {}}

find_builtin(uid) == {p \in builtin_pipelines : p.uid = uid}
get_pipeline(rows, uid, tenant) ==
  IF is_builtin_uid(uid) \/ get(rows, uid, tenant) = {} THEN find_builtin(uid) ELSE get(rows, uid, tenant)


\* actions(): [accepts, produces] of every plugin, the ones that work on documents last.
Io(a, p) == [accepts |-> a, produces |-> p]
OnDocuments == [n \in {"chunker", "document_script", "llm_enricher", "jev_enricher", "meili_indexer"} |->
                  Io({"documents"} \cup (IF n = "document_script" THEN {"many"} ELSE {}), IF n = "meili_indexer" THEN "indexed" ELSE "documents")]
actions ==
  OnDocuments @@ [n \in ALL_KNOWN \ DOMAIN OnDocuments |->
                    CASE n = "s3_downloader" -> Io({"ref", "empty"}, "bytes")
                      [] n = "video_audio_extractor" -> Io({"bytes"}, "bytes")
                      [] OTHER -> Io({"bytes"}, "documents")]

-----------------------------------------------------------------------------
(* The worker's registry: [plugins, unavailable], sets of names; a plugin  *)
(* that needs a key of the environment is built or not (ai).               *)

LAB_AI_PLUGINS == {"llm_enricher", "jev_enricher", "image_captioner"}
register(reg, name) == [plugins |-> reg.plugins \cup {name}, unavailable |-> reg.unavailable \ {name}]
mark_unavailable(reg, name) == [reg EXCEPT !.unavailable = @ \cup {name}]
register_ai(reg, name, built, lab_ai_gateway) ==
  IF built \/ (lab_ai_gateway /\ name \in LAB_AI_PLUGINS) THEN register(reg, name) ELSE mark_unavailable(reg, name)
builtin_from(lab_ai_gateway, ai) ==
  LET plain == [plugins |-> ALL_KNOWN \ (DOMAIN ai \cup {"s3_downloader", "ocr"}), unavailable |-> {}]
  IN FoldLeft(LAMBDA reg, n : register_ai(reg, n, ai[n], lab_ai_gateway), plain, SetToSeq(DOMAIN ai))

\* An entry of EXTERNAL_PLUGINS is [kind, location]; the world says which name, if any,
\* is found there.  One that cannot be loaded is remembered by its location.
parse_env(entries) == SelectSeq(entries, LAMBDA e : e.location # "" /\ e.kind \in {"wasm", "grpc"})
load(found, spec) == found[spec.location]
load_external(reg, entries, found) ==
  FoldLeft(LAMBDA g, e : IF load(found, e) # {} THEN register(g, Only(load(found, e))) ELSE mark_unavailable(g, e.location),
           reg, parse_env(entries))
resolve(reg, name) ==
  CASE name \in reg.plugins -> Ok(name)
    [] name \notin reg.plugins /\ name \in reg.unavailable -> Err("Unavailable")
    [] OTHER -> Err("NotRegistered")

-----------------------------------------------------------------------------
(* What the manifests say, and what run_step accepts. *)

\* manifest().accepts and .produces of the plugins compiled in.
Accepts(n) ==
  CASE n = "chunker" -> {"documents", "many", "bytes"}
    [] n = "json_flattener" -> {"bytes", "documents", "many"}
    [] n \in {"llm_enricher", "jev_enricher", "document_script"} -> {"documents", "many"}
    [] n = "meili_indexer" -> {"documents", "many", "empty"}
    [] OTHER -> {"bytes"}
Produces(n) == CASE n = "video_audio_extractor" -> "bytes" [] n = "meili_indexer" -> "indexed" [] OTHER -> "documents"
accepts_kind(accepts, kind) == accepts = {} \/ kind \in accepts \/ (kind = "many" /\ "documents" \in accepts)

-----------------------------------------------------------------------------
(* The waves of a run (dag.rs): done maps the finished steps to outputs.   *)

ready_steps(steps, order, done) ==
  SelectSeq(order, LAMBDA id : id \notin DOMAIN done /\ ToSet(step(steps, id).deps) \subseteq DOMAIN done)

resolve_input(s, initial, done) ==
  CASE s.deps = <<>> -> initial
    [] Len(s.deps) = 1 -> IF s.deps[1] \in DOMAIN done THEN input_from(done[s.deps[1]]) ELSE Empty
    [] OTHER -> LET there == SelectSeq(s.deps, LAMBDA d : d \in DOMAIN done) IN Many([i \in DOMAIN there |-> done[there[i]]])

AtLeast1(n) == IF n < 1 THEN 1 ELSE n
div_ceil(a, b) == (a + b - 1) \div b
Chunks(s, n) == [i \in 1..div_ceil(Len(s), n) |-> SubSeq(s, (i - 1) * n + 1, IF i * n > Len(s) THEN Len(s) ELSE i * n)]

\* A group too few: the remainder does not count.
group_documentsFloor(docs, max_branches) ==
  IF docs = <<>> THEN <<>>
  ELSE LET per_branch == AtLeast1(Len(docs) \div AtLeast1(max_branches)) IN Map(Documents, Chunks(docs, per_branch))
group_documents(docs, max_branches) ==
  IF docs = <<>> THEN <<>>
  ELSE LET per_branch == AtLeast1(div_ceil(Len(docs), AtLeast1(max_branches))) IN Map(Documents, Chunks(docs, per_branch))

\* The branches, or {} when an activity has to read the output first.
fan_out_branches(path, upstream, max_branches) ==
  LET docs == into_documents(upstream)
  IN CASE path = "$" -> {<<input_from(upstream)>>}
       [] path # "$" /\ upstream.kind = "ref" -> {}
       [] path = "$.many" /\ upstream.kind = "many" -> {Map(input_from, upstream.outs)}
       [] path = "$.many" /\ upstream.kind \notin {"ref", "many"} -> {<<input_from(upstream)>>}
       [] OTHER -> IF IsOk(docs) THEN {group_documents(docs.ok, max_branches)} ELSE {<<>>}

effective_retry(r) == Opt(r, [max_attempts |-> 3, backoff |-> "exponential", interval |-> 1])
retry_params(r) ==
  [attempts |-> AtLeast1(r.max_attempts), coefficient |-> IF r.backoff = "exponential" THEN 2 ELSE 1,
   interval |-> IF r.backoff = "none" THEN 0 ELSE AtLeast1(r.interval)]

-----------------------------------------------------------------------------
(* What has to hold of them.                                               *)

Acyclic(steps) ==
  \E rank \in [ids(steps) -> DOMAIN steps] : \A i \in DOMAIN steps : \A d \in ToSet(steps[i].deps) : rank[d] < rank[steps[i].id]

\* The waves of a run in which every step succeeds, and what each step was given.
Run(steps, order) ==
  FoldLeft(LAMBDA r, i : LET wave == ready_steps(steps, order, r.done)
                         IN [done |-> [id \in ToSet(wave) |-> Documents(<<id>>)] @@ r.done, ran |-> r.ran \o wave,
                             given |-> [id \in ToSet(wave) |-> resolve_input(step(steps, id), Empty, r.done)] @@ r.given],
           [done |-> NoFields, ran |-> <<>>, given |-> NoFields], steps)

\* validate accepts exactly the definitions whose steps can be put in order, and the
\* waves of the worker then run every step once, each with the output of every
\* dependency it names, in the order in which it names them.
RunsToTheEnd(d) ==
  LET n == [d EXCEPT !.steps = normalize(d.steps)]
      v == validate(n)
      r == Run(n.steps, v.ok)
  IN /\ normalize(n.steps) = n.steps
     /\ IsOk(v) <=> /\ ValidUid(d.uid) /\ d.steps # <<>> /\ Cardinality(ids(d.steps)) = Len(d.steps)
                    /\ \A i \in DOMAIN d.steps : StepError(n.steps, n.steps[i]) = {}
                    /\ Acyclic(n.steps)
     /\ IsOk(v) => /\ ToSet(r.ran) = ids(d.steps) /\ Len(r.ran) = Len(d.steps)
                   /\ \A s \in ToSet(n.steps) : into_documents(r.given[s.id]) = Ok(s.deps)

\* The branches of a fan-out carry the documents of the step before it, each once and
\* in order, and those of $.documents are at most the maximum, none of them empty.
FansOutWhole(path, upstream, max_branches) ==
  \A b \in fan_out_branches(path, upstream, max_branches) :
    IsOk(into_documents(upstream)) =>
      /\ into_documents(Many(b)) = into_documents(upstream)
      /\ path = "$.documents" => /\ Len(b) <= AtLeast1(max_branches)
                                 /\ \A i \in DOMAIN b : b[i].docs # <<>>

\* What create stores is what validate answered, what the tenant reads back, and what
\* the worker accepts; it takes no other tenant's pipeline, and the version grows.
RowAsAnswered(db, answer, rows, row, old) ==
  /\ validate(row) = Ok(answer.order) /\ row.steps = answer.normalized.steps /\ normalize(row.steps) = row.steps
  /\ ~is_builtin_uid(row.uid) /\ row.version \in 1..IntMax /\ \A r \in old : row.version > r.version
  /\ rows \ {row} = db.rows \ old
  /\ \A s \in ToSet(row.steps) : \A c \in s.config.connection :
       s.plugin = "meili_indexer" => [uid |-> c, tenant |-> row.tenant] \in db.connections
AnswersAgree(db, d, tenant, answer, made) ==
  IF IsOk(made)
  THEN IsOk(answer) /\ RowAsAnswered(db, answer.ok, made.ok, Only(get_pipeline(made.ok, d.uid, tenant)), {r \in db.rows : SameKey(r, [d EXCEPT !.tenant = tenant])})
  ELSE made = answer \/ (IsOk(answer) /\ made.err = "Database")
StoredAsChecked(db, d, header) ==
  AnswersAgree(db, d, tenant_scope(d.tenant, header), validate_pipeline(db, d, header), create_pipeline(db, d, header))

\* A step finds its plugin on a worker exactly when the worker built it, may run it on a
\* team's gateway, or loaded it from outside, whatever failed to load before or after.
FindsPlugin(lab_ai_gateway, ai, entries, found) ==
  LET reg == load_external(builtin_from(lab_ai_gateway, ai), entries, found)
      loaded == UNION {found[e.location] : e \in {e \in ToSet(entries) : e.location # "" /\ e.kind \in {"wasm", "grpc"}}}
      built == ALL_KNOWN \ ({"s3_downloader", "ocr"} \cup {n \in DOMAIN ai : ~ai[n] /\ ~(lab_ai_gateway /\ n \in LAB_AI_PLUGINS)})
  IN \A n \in ALL_KNOWN \cup {"mine"} : IsOk(resolve(reg, n)) <=> n \in loaded \cup built

\* Temporal takes no attempts for no limit: whatever a step's policy says, it is tried
\* and it stops being tried.
RetriesEnd(r) ==
  LET p == retry_params(effective_retry(r))
  IN p.attempts >= 1 /\ \A c \in r : c.max_attempts > 0 => p.attempts = c.max_attempts

\* A built-in pipeline and the catalog's recipe run on the bytes of a file: every step
\* accepts what the one before it produces, and the last one is the indexer.
ShippedRuns(p) ==
  LET n == [p EXCEPT !.steps = normalize(p.steps)]
      Given(s) == IF s.deps = <<>> THEN "bytes" ELSE Produces(step(n.steps, s.deps[1]).plugin)
  IN /\ IsOk(validate(n)) /\ Last(n.steps).plugin = "meili_indexer"
     /\ is_builtin_uid(p.uid) => get_pipeline({}, p.uid, {"t"}) = {p}
     /\ \A s \in ToSet(n.steps) : accepts_kind(Accepts(s.plugin), Given(s)) /\ actions[s.plugin].produces = Produces(s.plugin)
=============================================================================
