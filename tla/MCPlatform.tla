----------------------------- MODULE MCPlatform -----------------------------
(***************************************************************************)
(* The parts of the platform around the workflows, each on a small         *)
(* instance: which says the part a behaviour is about, and the variables   *)
(* of the others stay idle.  The parts without a state of their own have   *)
(* an input x.                                                             *)
(***************************************************************************)
EXTENDS Destinations, TLC

CONSTANT Parts   \* the parts to check

VARIABLES x,
          out,                                                                \* MCPlugins
          sink, table_ready, created, rows, report                            \* Metering

meter       == <<sink, table_ready, created, rows, report>>
vars        == <<which, x, out, meter, connections, submission, indexer, blobs>>

D == INSTANCE Definitions
A == INSTANCE ArchiveReader
F == INSTANCE Fetching
G == INSTANCE GatewayRequests
Plugins == INSTANCE MCPlugins

-----------------------------------------------------------------------------
(* Definitions. *)

Deps(S) == {<<>>} \cup {<<a>> : a \in S} \cup {<<a, b>> : a \in S \ {"z"}, b \in {"a", "c"}}
Chain(names, deps) == [i \in DOMAIN names |-> [D!Step(names[i], "chunker") EXCEPT !.deps = deps[i]]]
Def(uid, t, v, steps) == [uid |-> uid, tenant |-> t, version |-> v, steps |-> steps]
Three == {Chain(names, deps) : names \in {<<"a", "b", "c">>, <<"a", "b", "a">>}, deps \in [1..3 -> Deps({"a", "b", "c", "z"})]}
Four == {Chain(<<"a", "b", "c", "d">>, <<<<>>>> \o deps)
           : deps \in [1..3 -> {<<>>, <<"a">>, <<"b">>, <<"d">>, <<"a", "b">>, <<"c", "b">>, <<"c", "d">>}]}
Dags == {Def("p", {}, 1, s) : s \in Three \cup Four \cup {<<>>}}
        \cup {Def(u, {}, 1, s) : u \in {"", "a b"}, s \in {<<>>, Chain(<<"a">>, <<<<>>>>)}}
        \cup {Def("p", {}, 1, [s EXCEPT ![i].fan_out = {f}]) : s \in Four, i \in 1..4, f \in {"$.many", "$.pages"}}

Numbered(a, b) == [i \in 1..(b - a + 1) |-> a + i - 1]
Upstreams == {D!Documents(Numbered(1, n)) : n \in 0..9}
             \cup {D!Many(<<D!Documents(Numbered(1, n)), D!Empty, D!Indexed(2), D!Documents(Numbered(n + 1, m))>>) : n \in 0..3, m \in 0..6}
             \cup {D!Empty, D!Indexed(1), [kind |-> "bytes"], [kind |-> "ref"], D!Many(<<[kind |-> "ref"], D!Documents(<<1>>)>>)}

With(id, plugin, fits, conn) == [D!Step(id, plugin) EXCEPT !.config = [fits |-> fits, connection |-> conn]]
Posted == {Def(u, t, v, s) : u \in {"p", "builtin.pdf", "a b"}, t \in {{}, {"t"}}, v \in {0, 1, 3, 4},
             s \in {<<With("a", "mine", f, {}), With("b", "meili_indexer", g, c)>> : f \in BOOLEAN, g \in BOOLEAN, c \in {{}, {"m"}}}
                   \cup {<<With("b", "meili_indexer", TRUE, {"m"}), With("c", "chunker", TRUE, {})>>}}
Dbs == [manifests : {{}, {[name |-> "mine", compiles |-> TRUE]}, {[name |-> "mine", compiles |-> FALSE], [name |-> "meili_indexer", compiles |-> TRUE]}},
        connections : {{}, {[uid |-> "m", tenant |-> {}]}, {[uid |-> "m", tenant |-> {"t"}], [uid |-> "m", tenant |-> {}]}},
        rows : {{}, {Def("p", {}, 2, D!Linear(<<"ocr">>))}, {Def("p", {"t"}, 3, D!Linear(<<"ocr">>)), Def("p", {"u"}, 1, D!Linear(<<"ocr">>))}}]

Places == {"mine", "x"}
Entries == [kind : {"wasm", "other"}, location : Places \cup {""}]

\* Who may: the secrets that are set, the ones that are sent, and the tenants that are named.
Callers == [h : [bearer : {{}, {"s1"}, {"s2"}, {"s3"}}, secret : {{}, {"e"}, {"s1"}}, named : {{}, {"t"}, {"a b"}}, tenant : {{}, {"u"}, {"a b"}}, project : {{}, {"v"}}],
            c : [lab : {{}, {"s1"}}, admin : {{}, {"s1"}, {"s2"}}, edge : {{}, {"e"}}, control : {{}}] \cup [lab : {{}}, admin : {{}, {G!PLACEHOLDER}}, edge : {{}}, control : {{G!PLACEHOLDER}}],
            lab_credentials : BOOLEAN]

PipelineBodies == [text : {"yaml", "neither"}, builtin : BOOLEAN, def : {d \in Posted : d.version \in {1, 3} /\ d.uid # "a b"} \cup {Def("p", {"a b"}, 1, Chain(<<"a">>, <<<<>>>>))},
                   keys : {{[at |-> "top", name |-> "uid"], [at |-> "step", name |-> "plugins"]}}]
Managers == {[tenant |-> {}], [tenant |-> {"t"}]}

\* The offsets are a few ticks, or out of every range.
Date(fmt, offset) == [p |-> "token", head |-> "date", colon |-> TRUE, offset |-> offset, fmt |-> fmt]
Offset(sign, n, unit) == {[sign |-> sign, digits |-> n, unit |-> unit]}
Text == [p |-> "text"]
Templates == {<<Text>>, <<Text, Date("day", {})>>, <<Date("day", Offset("-", {2}, "d")), Text, Date("hour", Offset("+", {3}, "h"))>>,
              <<Date("day", Offset("+", {7}, "d"))>>, <<Date("day", Offset("-", {11}, "d"))>>, <<Date("day", Offset("*", {1}, "d"))>>,
              <<Date("day", Offset("+", {}, "h"))>>, <<Date("day", Offset("-", {1}, "w"))>>, <<Date("day", Offset("-", {1}, "wide"))>>, <<Date("unknown", {})>>, <<Text, [p |-> "open"]>>,
              <<[Date("day", {}) EXCEPT !.head = "timestamp", !.colon = FALSE]>>, <<[Date("day", {}) EXCEPT !.colon = FALSE]>>, <<[Date("day", {}) EXCEPT !.head = "time"]>>}
Locations == [template : Templates, host : {"h"}] \cup [template : {<<Text>>}, host : {"private"}]
World == [now |-> 3, key |-> "k", hosts |-> {"h"}, pipelines |-> [p |-> TRUE, q |-> TRUE, loose |-> FALSE]]
Login == [kind |-> "basic", names |-> {"user"}, secret |-> "pw"]
Source == [name |-> "n", description |-> {"d"}, pipeline |-> "p", location |-> [template |-> <<Text>>, host |-> "h"], cron |-> "5 fields",
           timezone |-> "UTC", index |-> {"i"}, auth |-> {G!seal("old", Login)}, tenant |-> {"t"}]
Created == [uid : {"s", "a b"}, name : {{""}, {"n"}}, description : {{""}}, pipeline : {"p", "loose", "none"}, location : Locations, cron : {"5 fields", "4 fields"},
            timezone : {"UTC", "CET", "Mars"}, index : {{}, {""}}, auth : {{}, {Login}}]
Kept == [f \in DOMAIN Source \ {"tenant"} |-> {}]
Values == [name |-> {"", "m"}, description |-> {"e"}, pipeline |-> {"q", "loose"}, location |-> {l \in Locations : Len(l.template) > 1 \/ l.host # "h"}, cron |-> {"5 fields", "4 fields"},
           timezone |-> {"CET", "Mars"}, index |-> {{}, {""}, {"j"}}, auth |-> {{}, {Login}}]
Single == UNION {{[Kept EXCEPT ![f] = {v}] : v \in Values[f]} : f \in DOMAIN Kept}
Double == {[f \in DOMAIN Kept |-> IF r[f] # {} THEN r[f] ELSE q[f]] : r \in Single, q \in Single}

DefinitionInputs ==
  \/ x \in [d : Dags] /\ which = "dag"
  \/ x \in [path : {"$", "$.documents", "$.many"}, upstream : Upstreams, max : 0..4] /\ which = "fan"
  \/ x \in [db : Dbs, d : Posted, header : {{}, {"t"}}] /\ which = "store"
  \/ x \in [gateway : BOOLEAN, ai : [D!LAB_AI_PLUGINS \cup {"whisper_transcriber"} -> BOOLEAN], entries : {<<>>} \cup {<<e, f>> : e \in Entries, f \in Entries},
            found : [Places -> {{}, {"mine"}, {"llm_enricher"}}]] /\ which = "registry"
  \/ x \in [p : D!builtin_pipelines \cup {Def(w.uid, {}, 1, w.steps) : w \in {w \in D!workflows : w.steps # <<>>}}] /\ which = "shipped"
  \/ x \in [r : {{}} \cup {{c} : c \in [max_attempts : 0..2, backoff : {"exponential", "linear", "none"}, interval : 0..1]}] /\ which = "policy"
  \/ x \in Callers /\ which = "caller"
  \/ x \in [e : {"BadJson", "Unauthorized", "Builtin", "TokenRequired", "InsufficientCredits", "LabUnavailable", "NotFound", "NoPipeline", "NoGateway",
                  "Validation", "UnknownPlugin", "Db"}] /\ which = "status"
  \/ x \in [db : {db \in Dbs : db.manifests # {}}, scope : Managers, body : PipelineBodies] /\ which = "pipeline_req"
  \/ x \in [scope : Managers, req : Created] /\ which = "source_new"
  \/ x \in [scope : Managers, row : {Source, [Source EXCEPT !.auth = {}, !.index = {}, !.tenant = {}]}, first : Double, second : Single] /\ which = "source_patch"

\* A definition is accepted exactly when it can run, is stored and read back as it was
\* checked, finds its plugins on a worker, and its fan-outs lose no document (validate,
\* create_pipeline, PluginRegistry, ready_steps, fan_out_branches); nobody defines a
\* pipeline or a source for a tenant without proof of being it, and a saved source can
\* be fetched at every later tick, overlapping PATCHes included (authorize,
\* post_pipeline, create_source, patch_source, SourceRepo::update).
DefinitionsSound ==
  CASE which = "dag" -> D!RunsToTheEnd(x.d)
    [] which = "fan" -> D!FansOutWhole(x.path, x.upstream, x.max)
    [] which = "store" -> D!StoredAsChecked(x.db, x.d, x.header)
    [] which = "registry" -> D!FindsPlugin(x.gateway, x.ai, x.entries, x.found)
    [] which = "shipped" -> D!ShippedRuns(x.p)
    [] which = "policy" -> D!RetriesEnd(x.r)
    [] which = "caller" -> G!CallerScoped(x.h, x.c, x.lab_credentials)
    [] which = "status" -> G!StatusKept(x.e)
    [] which = "pipeline_req" -> G!PipelineSaved(x.db, x.scope, x.body)
    [] which = "source_new" -> G!SourceSaved(World, x.scope, x.req, 3..11)
    [] which = "source_patch" -> G!SourcePatched(World, x.scope, x.row, x.first, x.second, 3..11)
    [] OTHER -> TRUE

-----------------------------------------------------------------------------
(* Archives. *)

Plain(n) == [f |-> "plain", size |-> n, readable |-> TRUE]
Gzip(d, ok) == [f |-> "gzip", size |-> 1, readable |-> ok, inner |-> d]
Entry(path, kind, safe, declared, ok, d) == [path |-> path, kind |-> kind, safe |-> safe, declared |-> declared, readable |-> ok, data |-> d]
File(path, d) == Entry(path, "file", TRUE, d.size, TRUE, d)
Zip(es, ok) == [f |-> "zip", size |-> 2, readable |-> ok, entries |-> es]
Tar(es, ok) == [f |-> "tar", size |-> 2, readable |-> ok, entries |-> es]
Inner == {Plain(0), Plain(1), Plain(3), Zip(<<File(<<<<"i">>>>, Plain(1)), File(<<<<"j">>>>, Plain(2))>>, TRUE), Zip(<<>>, FALSE), Gzip(Plain(2), TRUE),
          Gzip(Plain(4), TRUE), Gzip(Plain(1), FALSE), Gzip(Tar(<<File(<<<<"i">>>>, Plain(1))>>, TRUE), TRUE),
          Tar(<<File(<<<<"i">>>>, Plain(1)), Entry(<<<<"k">>>>, "file", TRUE, 1, FALSE, Plain(1))>>, TRUE),
          Zip(<<File(<<<<"k", "zip">>>>, Zip(<<File(<<<<"i">>>>, Plain(1))>>, TRUE))>>, TRUE)}
FirstEntries == {Entry(p, k, TRUE, 1, ok, d) : p \in {<<<<"a", "zip">>>>, <<<<"d">>, <<"a", "pdf", "gz">>>>}, k \in {"file", "link"}, ok \in BOOLEAN, d \in Inner}
                \cup {Entry(p, k, safe, declared, TRUE, d) : p \in {<<<<"a", "zip">>>>, <<<<"__MACOSX">>, <<"a">>>>}, k \in {"file", "dir", "other"},
                                                            safe \in BOOLEAN, declared \in {1, 4}, d \in {Plain(1), Gzip(Plain(2), TRUE)}}
LastEntries == {File(<<<<"z">>>>, Plain(2)), File(<<<<"z", "gz">>>>, Gzip(Plain(2), TRUE)), Entry(<<<<"z">>>>, "file", TRUE, 2, FALSE, Plain(2))}
Archives == UNION {{Zip(<<e, l>>, TRUE), Tar(<<e, l>>, TRUE)} : e \in FirstEntries, l \in LastEntries}
            \cup {Gzip(d, ok) : d \in Inner, ok \in BOOLEAN} \cup {Zip(<<>>, FALSE), Tar(<<>>, FALSE)}
Limits == [max_files : {1, 5}, max_file_bytes : {3}, max_total_bytes : {3, 9}, max_depth : {1, 2}, stop : {1, 9}]

-----------------------------------------------------------------------------
(* Fetches. *)

Url(scheme, host, port, file) == [scheme |-> scheme, host |-> host, port |-> port, file |-> file]
Own   == Url("https", "a", 443, <<"f", "json", "gz">>)
Plainer == Url("http", "a", 80, <<"f">>)
Else  == Url("https", "b", 443, <<"g", "csv">>)
Local == Url("https", "m", 443, <<>>)
IPv4(a, b, c, d) == [v |-> 4, o |-> <<a, b, c, d>>]
Names == [a : {{IPv4(8, 8, 8, 8)}, {IPv4(8, 8, 8, 8), IPv4(10, 0, 0, 1)}}, b : {{IPv4(100, 63, 0, 1)}, {}},
          m : {{IPv4(169, 254, 169, 254)}, {[v |-> 6, o |-> <<0, 0, 0, 0, 0, 65535, 43518, 43518>>]}}]

Body(hash, chunks, gzip, lines) == [hash |-> hash, chunks |-> chunks, gzip |-> gzip, lines |-> lines]
Answer(s, to, body) == [sent |-> TRUE, status |-> s, location |-> to, etag |-> {}, modified |-> {}, mime |-> {}, body |-> body]
Small == Body("h1", <<1, 2>>, <<>>, 2)
Bodies == {Small, Body("h2", <<2, 2>>, <<>>, 1), Body("h1", <<2>>, <<3>>, 1), Body("h2", <<2>>, <<4, 1>>, 1)}
Moves == {Answer(s, {u}, Small) : s \in {301, 303, 307}, u \in {Own, Plainer, Else, Local}}
OwnAnswers == Moves \cup {Answer(200, {}, b) : b \in Bodies} \cup {Answer(s, {}, Small) : s \in {302, 304, 404, 408, 429, 500}}
              \cup {[Answer(200, {}, Small) EXCEPT !.sent = FALSE]}
LaterAnswers == {Answer(200, {}, Small), Answer(304, {}, Small), Answer(302, {Own}, Small), Answer(308, {Local}, Small), Answer(410, {}, Small)}
Web == {Own :> o @@ Plainer :> p @@ Else :> e @@ Local :> Answer(200, {}, Small) : o \in OwnAnswers, p \in LaterAnswers, e \in LaterAnswers}
Policies == {{}} \cup {{F!parse_policy(raw).ok} : raw \in {<<>>, <<"any">>, <<[bare |-> TRUE, host |-> "a", port |-> {}], [bare |-> TRUE, host |-> "b", port |-> {80}]>>}}
Asked == [web : Web, dns : {n \in Names : n.b # {} \/ n.m = {IPv4(169, 254, 169, 254)}}, policy : Policies, max : {0, 2}]

Uri(scheme, user, host) == [scheme |-> scheme, user |-> user, host |-> host, path |-> "o"]
Uris == {Uri(s, u, h) : s \in {"", "file", "s3", "s3a", "gs", "abfs"}, u \in {"", "own"}, h \in {"", "OWN", "own", "b"}}
Objects == [own : {Uri("s3", "", "own"), Uri("gs", "", "own"), Uri("abfs", "own", "b"), Uri("memory", "", "")}, uri : Uris,
            ambient : {"", "1", "yes"}, buckets : {<<>>, <<"">>, <<"b", "OWN">>, <<"s3://b">>},
            env : {<<>>, [AWS_REGION |-> "r"], [AWS_ENDPOINT |-> "e"]}, regions : {<<>>, [own |-> "q"]}]

FetchInputs ==
  \/ x \in Asked /\ which = "fetch"
  \/ x \in Objects /\ which = "object"

\* What is read on a tenant's behalf stays within the policy of the deployment, its caps
\* and its own credentials, wherever servers redirect; and an archive is told entry by
\* entry within its limits (UrlConnector::resolve, FetchGuard::get, fetch_ref,
\* BlobStore::authorize, Walker::archive).
ReadsBounded ==
  CASE which = "fetch" ->
         LET limits == [policy |-> x.policy, max_redirects |-> x.max, max_bytes |-> 3]
             src == [url |-> Own, auth |-> TRUE, method |-> "POST"]
             ref == [url |-> Own, name |-> {}, mime |-> {}]
         IN /\ \A state \in {[hash |-> {}], [hash |-> {"h1"}]} : F!SourceFetched(x, src, state, limits, F!url_resolve(x, src, state, limits))
            /\ F!RefFetched(x, ref, x.policy, x.max, F!fetch_url(x, ref, x.policy, x.max))
    [] which = "object" ->
         LET policy == F!ObjectRefPolicy(x.ambient, x.buckets)
         IN IF F!IsOk(policy) THEN F!ObjectAllowed(x.own, policy, x.uri, F!fetch_object(F!from_url(x.own, policy.ok), x.uri, x.env, x.regions)) ELSE TRUE
    [] which = "archive" -> A!WalkTold(x.d, <<<<"n", "tgz">>>>, x.lim)
    [] OTHER -> TRUE

-----------------------------------------------------------------------------
(* The blob store: two branches of one step, and a step that is called     *)
(* like the second branch; an upload that stays inline, one whose key that *)
(* step spills to, one without a name and one that poses as an output.     *)

Upload(name, mime, size) == [name |-> name, mime |-> mime, size |-> size]
MCStepInputs == LET a == <<"input", "/", "a">> IN <<<<a, {"0"}>>, <<a, {"1"}>>, <<a \o <<"-", "1">>, {}>>>>
MCUploads == {Upload(<<"x", "pdf">>, "pdf", 2), Upload(<<"d", "/", "a", "-", "1", ".json">>, "html", 3), Upload(<<>>, "pdf", 3), Upload(<<>>, "spilled", 3)}

-----------------------------------------------------------------------------
(* The indexer: two attempts of one job, or two jobs, on one index. *)

Config(sizes, key, create, wait, most) ==
  [sizes |-> sizes, primary_key |-> key, auto_create_index |-> create, wait_for_completion |-> wait, max_attempts |-> most]
Big(most) == {Config(<<1, 3, 2>>, "id", TRUE, TRUE, most)}
Other(most) == {Config(<<2>>, "id", TRUE, FALSE, most), Config(<<>>, "id", TRUE, TRUE, most),
                Config(<<3>>, "sku", FALSE, TRUE, most), Config(<<1, 5>>, "id", TRUE, TRUE, most)}
MCIndexAttempts == {<<1, 1>>, <<1, 2>>, <<2, 1>>}
MCIndexConfigs == {1 :> c : c \in Big(2) \cup Other(2)} \cup {1 :> b @@ 2 :> c : b \in Big(1), c \in Other(1)}
MCIndexStates == {{}, {{}}, {{"sku"}}}

-----------------------------------------------------------------------------
(* Metering. *)

units == [u \in {"llm_input_tokens", "llm_output_tokens", "llm_requests", "pages", "images", "external_requests", "cost_micro_usd",
                 "unpriced_calls", "audio_seconds"} |-> 0]
Used(id, plugin, u, docs) == [step_id |-> id, plugin |-> plugin, status |-> "succeeded", duration |-> 3, input_bytes |-> 2,
                              document_count |-> docs, usage |-> u @@ units, error |-> {}]
Job(id, tenant, finished, end, steps, e) == [job_id |-> id, tenant_id |-> tenant, pipeline_uid |-> "p", status |-> end, started_at |-> 1,
                                             finished_at |-> finished, input_bytes |-> 4, steps |-> steps, error |-> e]
Lab == [id |-> "acc", uuid |-> TRUE]
Cloud == [id |-> "cloud", uuid |-> FALSE]
Finished == <<Job("j1", Lab, 12, "succeeded", <<Used("a", "ocr", [pages |-> 2], 2), Used("b", "llm", [llm_input_tokens |-> 15, llm_requests |-> 1], 2),
                                                Used("c", "llm", [llm_input_tokens |-> 9, unpriced_calls |-> 1, audio_seconds |-> 3], 1)>>, {}),
              Job("j2", Lab, 14, "failed", <<Used("a", "llm", [llm_input_tokens |-> 1], 1)>>, {"auth", "upstream"}),
              Job("j3", Cloud, 12, "cancelled", <<>>, {})>>
Environments == {<<>>, [TINYBIRD_TOKEN |-> "t"], [USAGE_CLICKHOUSE_URL |-> "http"], [TINYBIRD_TOKEN |-> "t", USAGE_CLICKHOUSE_URL |-> "http"],
                 [USAGE_CLICKHOUSE_URL |-> "http", USAGE_CLICKHOUSE_TABLE |-> "a-b"], [TINYBIRD_TOKEN |-> "t", TINYBIRD_TIMEOUT_SECS |-> "soon"]}
M == INSTANCE Metering WITH Jobs <- Finished, Envs <- Environments, Tries <- 2, table <- created

Price(i, o, s, r) == [input_per_mtok |-> i, output_per_mtok |-> o, per_audio_second |-> s, per_request |-> r]
Model(p, n) == [provider |-> p, name |-> n]
Priced == {Price(0, 0, 0, 0), Price(3, 5, 0, 0), Price(0, 0, 2, 0), Price(0, 0, 0, 4)}
Tables == {<<>>} \cup {"llm_enricher" :> (k :> p) : k \in {Model("", "m"), Model("o", "m"), Model("", "default")}, p \in Priced}
          \cup {"llm_enricher" :> (Model("o", "m") :> p @@ Model("", "default") :> q) : p \in Priced, q \in Priced}
Usages == {units @@ <<>>} \cup {[units EXCEPT !.llm_input_tokens = i, !.llm_output_tokens = o, !.audio_seconds = a, !.llm_requests = r, !.cost_micro_usd = c, !.unpriced_calls = n]
            : i \in {0, 1, 20}, o \in {0, 11}, a \in {-1, 0, 3}, r \in {0, 2}, c \in {0, 18}, n \in {0, 20}}
Charges == [prices : Tables, plugin : {"llm_enricher", "pdf"}, model : {Model("o", "m"), Model("", "m"), Model("o", "n")}, u : Usages, file : {{}, {"bad"}}]

\* Every job is metered once, with what its steps used, however often it is reported, and
\* what a provider charged is never under-reported without saying so (report_usage,
\* events_for_job, daily_usage_sql, ProviderCosts::apply).
MeteringExact ==
  CASE which = "metering" -> M!ReportedOnce
    [] which = "cost" -> M!ChargedInFull(M!or_unpriced(M!load(x.file, x.prices)), x.file, x.plugin, x.model, x.u)
    [] OTHER -> TRUE

-----------------------------------------------------------------------------
(* Connections and submissions. *)

Req(kind, tenant, uid, host, key) == [kind |-> kind, tenant |-> tenant, uid |-> uid, host |-> host, api_key |-> key, name |-> {}]
MCTenants == {"", "ten"}
MCWorks == {<<"h1", "k1">>, <<"h2", "k1">>, <<"h1", "k2">>}
MCReaders == "j1" :> "ten" @@ "j2" :> ""
MCConnectionCalls == "c" :> Req("create", "ten", "c", {"h1"}, {"k1"}) @@ "ph" :> Req("patch", "ten", "c", {"h2"}, {})
                     @@ "pk" :> Req("patch", "ten", "c", {}, {"k2"}) @@ "d" :> Req("delete", "ten", "c", {}, {})
                     @@ "g" :> Req("create", "", "c", {"h2"}, {"k1"}) @@ "b" :> Req("patch", "ten", "c", {"q"}, {})

R == INSTANCE Routing
To(conn, idx) == [connection |-> conn, index |-> idx]
Pipe(uid, tenant, types, indexers) ==
  [uid |-> uid, tenant |-> tenant, builtin |-> FALSE, types |-> types, glob |-> {}, pattern |-> {}, indexers |-> indexers]

\* One pipeline per way to name a destination: nothing, an index pattern, one index, two
\* indexes, a connection, a glob.
OpenPipe   == [Pipe("open", "", {<<"text", "*">>}, <<To({}, {})>>) EXCEPT !.pattern = {"docs"}]
Fixed  == Pipe("fixed", "ten", {<<"*", "*">>}, <<To({}, {"fix"})>>)
Pinned == Pipe("pinned", "ten", {R!CSV}, <<To({"conn"}, {"fix"}), To({"conn"}, {"uid"})>>)
Zips   == Pipe("zips", "", {<<"application", "x-zip-compressed">>}, <<To({}, {})>>)
Named  == [Pipe("named", "", {}, <<To({"conn"}, {})>>) EXCEPT !.glob = {"a.csv"}]
MCPipelineLists == {<<OpenPipe, Fixed>>, <<Pinned, Zips>>, <<Zips, Named, Fixed>>, <<>>}

MCBuiltinList == <<[Pipe("csv", "", {R!CSV}, <<To({}, {})>>) EXCEPT !.builtin = TRUE],
                [Pipe("audio", "", {R!M4A}, <<To({}, {})>>) EXCEPT !.builtin = TRUE]>>
MCStoredConnections == {[uid |-> "conn", tenant |-> "ten"], [uid |-> "conn", tenant |-> ""], [uid |-> "conn", tenant |-> "other"]}
MCFilesFound == {[mime |-> R!CSV, name |-> {"a.csv"}], [mime |-> R!HTML, name |-> {"b.html"}]}

CsvFile == [marker |-> {}, magic |-> {}, ext |-> {R!CSV}, text |-> {}, hint |-> {}]
ZipFile == [CsvFile EXCEPT !.magic = {R!ZIP}, !.ext = {<<"application", "x-zip-compressed">>}]
M4aFile == [CsvFile EXCEPT !.ext = {<<"audio", "m4a">>}]

Base == [file |-> CsvFile, name |-> {"a.csv"}, body |-> [form |-> "raw", fields |-> {"file"}, items |-> <<>>],
         batch |-> FALSE, path |-> {}, pipeline |-> {}, tenant |-> "ten", trusted |-> TRUE, host |-> "h", key |-> "k",
         bearer |-> "", index |-> {}, query |-> {}, locked |-> {}, blocked |-> FALSE]

Json(fields, list) == [form |-> "json", fields |-> fields, items |-> list]

\* Every combination of what decides a route and a destination ...
Combined ==
  {[Base EXCEPT !.file = f[1], !.name = f[2], !.body = b, !.path = w[1], !.pipeline = w[2], !.tenant = t,
                !.trusted = e, !.host = d[1], !.key = d[2], !.bearer = d[3], !.locked = l, !.query = q] :
     f \in {<<CsvFile, {"a.csv"}>>, <<ZipFile, {"a.zip"}>>},
     b \in {Base.body, Json({"url"}, <<>>)},
     w \in {<<{}, {}>>, <<{"zips"}, {}>>, <<{}, {"zips"}>>, <<{}, {"fixed"}>>, <<{"pinned"}, {}>>, <<{}, {"csv"}>>},
     t \in {"", "ten", "other"}, e \in BOOLEAN,
     d \in {<<"h", "k", "">>, <<"h", "", "b">>, <<"", "", "">>},
     l \in {{}, {"uid"}}, q \in {{}, {"elsewhere"}}}

\* ... and the other shapes of a request.
MCSubmissions ==
  Combined \cup
  {[Base EXCEPT !.tenant = "invalid"],
   [Base EXCEPT !.body = [form |-> "multipart", fields |-> {"url", "documents"}, items |-> <<>>], !.blocked = TRUE],
   [Base EXCEPT !.body = Json({"url"}, <<>>), !.file = M4aFile, !.name = {"a.m4a"}],
   [Base EXCEPT !.body = Json({}, <<{"documents"}, {"s3", "documents"}>>), !.batch = TRUE, !.path = {"open"}],
   [Base EXCEPT !.body = Json({}, <<{"documents"}, {"url"}>>)],
   [Base EXCEPT !.body.fields = {}, !.index = {"mine"}]}

-----------------------------------------------------------------------------
(* The plugins. *)

\* What a plugin makes of its input is all of it and no more, in its order and for the
\* right document; and what its schema takes is what it takes (MCPlugins).
RecordsFaithful == which = "plugin" => Plugins!RecordsFaithful
SchemasAgree == which = "plugin" => Plugins!SchemasAgree
SectionsFaithful == which = "plugin" => Plugins!SectionsFaithful
ChunksFaithful == which = "plugin" => Plugins!ChunksFaithful
EnrichersFaithful == which = "plugin" => Plugins!EnrichersFaithful

-----------------------------------------------------------------------------
IdleMeter == sink = {} /\ table_ready = {} /\ created = {} /\ rows = {} /\ report = {}

Inputs == \/ DefinitionInputs
          \/ FetchInputs
          \/ x \in [d : Archives, lim : Limits] /\ which = "archive"
          \/ x \in Charges /\ which = "cost"

IdleDestination == IdleConnections /\ IdleSubmission /\ IdleIndexer /\ IdleBlobs

Init ==
  \/ which = "plugin" /\ which \in Parts /\ Plugins!Init /\ IdleMeter /\ IdleDestination
  \/ /\ out = {}
     /\ \/ Inputs /\ "inputs" \in Parts /\ IdleMeter /\ IdleDestination
        \/ x = {} /\ which = "metering" /\ which \in Parts /\ M!Init /\ IdleDestination
        \/ x = {} /\ InitDestination /\ which \in Parts /\ IdleMeter

Next ==
  /\ UNCHANGED <<which, x>>
  /\ \/ which = "plugin" /\ Plugins!Next /\ UNCHANGED <<meter, connections, submission, indexer, blobs>>
     \/ which = "metering" /\ M!Next /\ UNCHANGED <<out, connections, submission, indexer, blobs>>
     \/ NextDestination /\ UNCHANGED <<out, meter>>

Spec == Init /\ [][Next]_vars
=============================================================================
