------------------------------- MODULE Metering -------------------------------
(***************************************************************************)
(* What a job used, and what is charged and shown for it: the price table  *)
(* (plugin-sdk/src/cost.rs), the usage rows and their delivery             *)
(* (usage/src/lib.rs, clickhouse.rs), the Lab's events (usage/src/lab.rs)  *)
(* and GET /usage (gateway/src/handlers/usage.rs).                         *)
(*                                                                         *)
(* Time and audio are counted in ticks, two to a second; token prices are  *)
(* per MTOK tokens.                                                        *)
(***************************************************************************)
EXTENDS Documents

CONSTANTS
  Jobs,        \* the finished jobs: sequence of JobUsageInput
  Envs,        \* the environments a worker may start in
  Tries        \* attempts of the reporting activity

VARIABLES
  sink,        \* the client: {} when metering is off
  table_ready, \* the OnceCell of the worker
  table,       \* the table exists in ClickHouse
  rows,        \* what was inserted, in order
  report       \* per job: [phase, tries] of its report_usage activity

metering == <<sink, table_ready, table, rows, report>>

-----------------------------------------------------------------------------
(* Units. *)

MaxU == 20                  \* stands for u64::MAX
sat(n) == IF n > MaxU THEN MaxU ELSE n
Counted == {"llm_input_tokens", "llm_output_tokens", "llm_requests", "pages", "images", "external_requests", "cost_micro_usd", "unpriced_calls"}
UnitNames == Counted \cup {"audio_seconds"}
none == [u \in UnitNames |-> 0]
units(some) == some @@ none

merge(a, b) == [u \in UnitNames |-> IF u \in Counted THEN sat(a[u] + b[u]) ELSE a[u] + b[u]]

ceil_div(n, d) == (n + d - 1) \div d
SecondTicks == 2

-----------------------------------------------------------------------------
(* Prices: a table maps a plugin to its models, a model to its price.  A   *)
(* model is [provider, name], provider "" when it has none; audio that is  *)
(* not finite is -1.                                                       *)

MTOK == 10
PRICED_PLUGINS == {"llm_enricher", "jev_enricher", "image_captioner", "whisper_transcriber"}
NoPrice == [input_per_mtok |-> 0, output_per_mtok |-> 0, per_audio_second |-> 0, per_request |-> 0]

\* ProviderCosts::load and or_unpriced: a file that cannot be read prices nothing.
load(file, bundled) == IF file = {} THEN Ok(bundled) ELSE IF Only(file) = "bad" THEN Err("file") ELSE Ok(Only(file))
or_unpriced(loaded) == IF IsOk(loaded) THEN loaded.ok ELSE <<>>

price(prices, plugin, model) ==
  LET models == UNION {{m} : m \in Get(prices, plugin)}
      Entry(k) == UNION {Get(m, k) : m \in models}
      bare == IF model.provider = "" THEN {} ELSE Entry([provider |-> "", name |-> model.name])
  IN CASE Entry(model) # {} -> Entry(model)
       [] Entry(model) = {} /\ bare # {} -> bare
       [] OTHER -> Entry([provider |-> "", name |-> "default"])

unpriced_plugins(prices, registered) ==
  SelectSeq(registered, LAMBDA p : p \in PRICED_PLUGINS /\ \A m \in Get(prices, p) : \A k \in DOMAIN m : m[k] = NoPrice)

Quantities(p, u) ==
  ceil_div(u.llm_input_tokens * p.input_per_mtok + u.llm_output_tokens * p.output_per_mtok, MTOK)
  + (IF u.audio_seconds > 0 THEN ceil_div(u.audio_seconds * p.per_audio_second, SecondTicks) ELSE 0)
  + Max({1, sat(u.llm_requests + u.external_requests)}) * p.per_request

apply(prices, plugin, model, u) ==
  LET found == price(prices, plugin, model)
      p == Only(found)
      missing == \/ (p.input_per_mtok > 0 \/ p.output_per_mtok > 0) /\ u.llm_input_tokens = 0 /\ u.llm_output_tokens = 0
                 \/ p.per_audio_second > 0 /\ u.audio_seconds <= 0
  IN IF found = {} \/ missing THEN [u EXCEPT !.unpriced_calls = sat(@ + 1)]
     ELSE [u EXCEPT !.cost_micro_usd = sat(@ + sat(Quantities(p, u)))]

-----------------------------------------------------------------------------
(* The rows of a job: one per step and one for the job.                    *)

wall_clock_ms(started, finished) == Max({0, finished - started})

\* A message is the set of the kinds it has a word for; the first rule that matches decides.
ErrorRules == <<"timeout", "cancelled", "invalid_config", "auth", "invalid_input", "upstream">>
classify_error(message) ==
  LET hits == {i \in DOMAIN ErrorRules : ErrorRules[i] \in message}
  IN CASE message = {} -> "" [] message # {} /\ hits # {} -> ErrorRules[Min(hits)] [] OTHER -> "internal"
error_kind_for(status, message) == IF status = "cancelled" THEN "cancelled" ELSE classify_error(message)

base_event(input) ==
  [kind |-> "job", ts |-> input.finished_at, job |-> input.job_id, project_id |-> input.tenant_id, pipeline_uid |-> input.pipeline_uid,
   step |-> "", plugin |-> "", status |-> input.status, duration |-> 0, input_bytes |-> 0, documents_out |-> 0, units |-> none, error_kind |-> ""]

totals(input) == FoldLeft(LAMBDA u, s : merge(u, s.usage), none, input.steps)
documents_out(input) == IF input.steps = <<>> THEN 0 ELSE Last(input.steps).document_count

StepEvent(input, s) ==
  [base_event(input) EXCEPT !.kind = "step", !.step = s.step_id, !.plugin = s.plugin, !.status = s.status, !.duration = s.duration,
     !.input_bytes = s.input_bytes, !.documents_out = s.document_count, !.units = s.usage, !.error_kind = error_kind_for(s.status, s.error)]
JobEvent(input) ==
  [base_event(input) EXCEPT !.duration = wall_clock_ms(input.started_at, input.finished_at), !.input_bytes = input.input_bytes,
     !.documents_out = documents_out(input), !.units = totals(input), !.error_kind = error_kind_for(input.status, input.error)]
events_for_job(input) == Append(Map(LAMBDA s : StepEvent(input, s), input.steps), JobEvent(input))

\* The id of a row, by which a redelivery replaces it.
event_id(e) == <<e.job, e.kind, e.step>>

-----------------------------------------------------------------------------
(* The Lab's events of a job.  A tenant is [id, uuid]: uuid when its id is *)
(* the canonical spelling of one.                                          *)

lab_account(tenant) == IF tenant.id = "" THEN Err("NoTenant") ELSE IF ~tenant.uuid THEN Err("NotAUuid") ELSE Ok(tenant.id)

OCR_PLUGIN == "ocr"
ocr_pages(input) ==
  FoldLeft(LAMBDA n, s : IF s.plugin # OCR_PLUGIN THEN n ELSE sat(n + (IF s.usage.pages > 0 THEN s.usage.pages ELSE s.document_count)), 0, input.steps)

lab_units(input, sums) ==
  [documents |-> documents_out(input), bytes_in |-> input.input_bytes,
   step_seconds |-> ceil_div(FoldLeft(LAMBDA n, s : sat(n + s.duration), 0, input.steps), SecondTicks),
   audio_seconds |-> IF sums.audio_seconds > 0 THEN ceil_div(sums.audio_seconds, SecondTicks) ELSE 0, ocr_pages |-> ocr_pages(input)]
  @@ [u \in Counted \ {"cost_micro_usd"} |-> sums[u]]

envelope(input, name, kind, data) ==
  LET account == lab_account(input.tenant_id)
  IN IF IsOk(account) THEN Ok([id |-> <<input.job_id, name>>, kind |-> kind, at |-> input.finished_at, account |-> account.ok, data |-> data]) ELSE account

MaxLedger == 15             \* stands for i64::MAX
lab_event_for_job(input) ==
  LET sums == totals(input)
  IN envelope(input, "usage", "usage.recorded", [units |-> lab_units(input, sums), complete |-> sums.unpriced_calls = 0,
                                                 provider_cost_micro_usd |-> Min({sums.cost_micro_usd, MaxLedger})])
lab_job_event_for_job(input) ==
  envelope(input, "lifecycle", IF input.status = "succeeded" THEN "job.completed" ELSE "job.failed",
           IF input.status = "succeeded" THEN [documents |-> documents_out(input), seconds |-> wall_clock_ms(input.started_at, input.finished_at) \div SecondTicks]
           ELSE [error |-> IF input.error = {} THEN {input.status} ELSE input.error])
lab_events_for_job(input) ==
  LET usage == lab_event_for_job(input) IN IF IsOk(usage) THEN Ok(<<usage.ok, lab_job_event_for_job(input).ok>>) ELSE usage

-----------------------------------------------------------------------------
(* The client and its store. *)

is_identifier(name) == name \notin {"", "9", "a-b"}
Default(env, k, d) == Opt(Get(env, k) \ {""}, d)

\* ClickHouseConfig::from_lookup: Ok({}) when there is none.
clickhouse_from_lookup(env) ==
  LET url == Get(env, "USAGE_CLICKHOUSE_URL") \ {""}
  IN CASE url = {} -> Ok({})
       [] url # {} /\ (url = {"tcp"} \/ \E k \in {"USAGE_CLICKHOUSE_DATABASE", "USAGE_CLICKHOUSE_TABLE"} : ~is_identifier(Default(env, k, "default"))) -> Err("Config")
       [] OTHER -> Ok({"clickhouse"})

from_lookup(env) ==
  LET clickhouse == clickhouse_from_lookup(env)
      token == Get(env, "TINYBIRD_TOKEN") \ {""}
      bad(k) == Default(env, k, "30") = "soon"
  IN CASE ~IsOk(clickhouse) -> clickhouse
       [] IsOk(clickhouse) /\ token = {} -> IF clickhouse.ok # {} /\ bad("USAGE_CLICKHOUSE_TIMEOUT_SECS") THEN Err("Config") ELSE clickhouse
       [] OTHER -> IF clickhouse.ok # {} \/ bad("TINYBIRD_TIMEOUT_SECS") THEN Err("Config") ELSE Ok({"tinybird"})

AUTH_CODES == {192, 193, 194, 497, 516}
PERMANENT_CODES == {6, 16, 26, 27, 38, 41, 47, 53, 62, 69, 72, 81, 117}
UNKNOWN_TABLE == 60

\* UsageError::from a ClickHouseFailure [status, code], and from the status of Tinybird.
UsageErrorOf(f) ==
  CASE f.status = 0 -> "Transport"
    [] f.status # 0 /\ (f.status \in {401, 403} \/ f.code \in AUTH_CODES) -> "Auth"
    [] f.status \notin {0, 401, 403} /\ f.code \notin AUTH_CODES /\ (f.code \in PERMANENT_CODES \cup {UNKNOWN_TABLE} \/ (f.status \in 400..499 /\ f.status # 429)) -> "Rejected"
    [] OTHER -> "Upstream"
map_http_failure(status) == CASE status \in {401, 403} -> "Auth" [] status = 429 \/ status \in 500..599 -> "Upstream" [] OTHER -> "Rejected"
is_retryable(e) == e \in {"Transport", "Upstream"}

-----------------------------------------------------------------------------
(* One report_usage activity per job: the bill, then the usage rows.  An   *)
(* answer may be lost after the store did its part.                        *)

Failures == {[status |-> 0, code |-> 0], [status |-> 500, code |-> 241], [status |-> 500, code |-> 516], [status |-> 429, code |-> 0], [status |-> 400, code |-> 27]}
Phase(j) == report[j].phase
Moved(j, p) == report' = [report EXCEPT ![j].phase = p]

\* A retryable error starts the activity over; Temporal gives up after Tries.
AfterError(r, e) == IF is_retryable(e) /\ r.tries < Tries THEN [r EXCEPT !.phase = "bill", !.tries = @ + 1] ELSE [r EXCEPT !.phase = "gave_up"]
Failed(j, e) == report' = [report EXCEPT ![j] = AfterError(@, e)]

Init ==
  /\ \E env \in Envs : IsOk(from_lookup(env)) /\ sink = from_lookup(env).ok
  /\ table_ready = FALSE /\ table = FALSE /\ rows = <<>>
  /\ report = [j \in DOMAIN Jobs |-> [phase |-> "bill", tries |-> 1, billed |-> {}]]

\* post_lab_events; then the rows are sent, unless metering is off.
AfterBill == CASE sink = {} -> "done" [] sink = {"clickhouse"} -> "prepare" [] OTHER -> "insert"
post_lab_events(j, stored, answered) ==
  LET events == lab_events_for_job(Jobs[j])
  IN /\ Phase(j) = "bill"
     /\ answered => stored
     /\ IF ~IsOk(events) THEN answered /\ Moved(j, AfterBill)
        ELSE LET r == [report[j] EXCEPT !.billed = IF stored THEN {events.ok} ELSE @]
             IN report' = [report EXCEPT ![j] = IF answered THEN [r EXCEPT !.phase = AfterBill] ELSE AfterError(r, "Transport")]
     /\ UNCHANGED <<sink, table_ready, table, rows>>

\* prepare: the OnceCell lets one caller in at a time and keeps what succeeded.
prepare(j, created, failure) ==
  /\ Phase(j) = "prepare"
  /\ table' = (table \/ (~table_ready /\ created))
  /\ IF table_ready THEN failure = {} /\ Moved(j, "insert") /\ UNCHANGED table_ready
     ELSE \/ failure = {} /\ created /\ table_ready' = TRUE /\ Moved(j, "insert")
          \/ failure # {} /\ (created => Only(failure).status = 0) /\ UNCHANGED table_ready /\ Failed(j, UsageErrorOf(Only(failure)))
  /\ UNCHANGED <<sink, rows>>

\* One request writes every row of the job, or none.
insert(j, written, failure) ==
  /\ Phase(j) = "insert" /\ sink = {"clickhouse"}
  /\ table
  /\ rows' = IF written THEN rows \o events_for_job(Jobs[j]) ELSE rows
  /\ \/ failure = {} /\ written /\ Moved(j, "done")
     \/ failure # {} /\ (written => Only(failure).status = 0) /\ Failed(j, UsageErrorOf(Only(failure)))
  /\ UNCHANGED <<sink, table_ready, table>>

\* The Events API: rows that do not fit the schema are quarantined and the reply says so.
send_tinybird(j, written, status) ==
  /\ Phase(j) = "insert" /\ sink = {"tinybird"}
  /\ rows' = IF written THEN rows \o events_for_job(Jobs[j]) ELSE rows
  /\ \/ status = 200 /\ written /\ Moved(j, "done")
     \/ status = 200 /\ ~written /\ Moved(j, "gave_up")
     \/ status = 0 /\ Failed(j, "Transport")
     \/ status \notin {0, 200} /\ ~written /\ Failed(j, map_http_failure(status))
  /\ UNCHANGED <<sink, table_ready, table>>

\* A worker that restarts forgets the OnceCell; its activities time out and are tried again.
restart ==
  /\ table_ready
  /\ table_ready' = FALSE
  /\ report' = [j \in DOMAIN report |-> IF Phase(j) \in {"prepare", "insert"} THEN AfterError(report[j], "Transport") ELSE report[j]]
  /\ UNCHANGED <<sink, table, rows>>

Next ==
  \/ \E j \in DOMAIN Jobs :
       \/ \E stored, answered \in BOOLEAN : post_lab_events(j, stored, answered)
       \/ \E done \in BOOLEAN, failure \in {{}} \cup {{f} : f \in Failures} : prepare(j, done, failure) \/ insert(j, done, failure)
       \/ \E done \in BOOLEAN, status \in {0, 200, 403, 422, 429, 503} : send_tinybird(j, done, status)
  \/ restart

-----------------------------------------------------------------------------
(* GET /usage. *)

DayTicks == 10
day(ts) == ts \div DayTicks
sorting_key(e) == <<e.project_id, e.ts, event_id(e)>>

\* Mutant of FINAL: rows that were not merged yet are read twice.
Unmerged == [i \in DOMAIN rows |-> <<i, rows[i]>>]

\* FINAL on a ReplacingMergeTree: the last row of each sorting key.
FINAL == [i \in {i \in DOMAIN rows : \A k \in DOMAIN rows : k > i => sorting_key(rows[k]) # sorting_key(rows[i])} |-> <<i, rows[i]>>]

daily_usage(tenant, from, to) ==
  LET seen == {i \in DOMAIN FINAL : rows[i].project_id = tenant /\ day(rows[i].ts) \in from..to}
      Group(i) == [day |-> day(rows[i].ts), pipeline_uid |-> rows[i].pipeline_uid, plugin |-> rows[i].plugin]
      In(g, kind) == {i \in seen : Group(i) = g /\ rows[i].kind = kind}
  IN {g @@ [steps |-> Cardinality(In(g, "step")), jobs |-> Cardinality(In(g, "job")),
            jobs_succeeded |-> Cardinality({i \in In(g, "job") : rows[i].status = "succeeded"}),
            jobs_failed |-> Cardinality({i \in In(g, "job") : rows[i].status = "failed"}),
            documents_out |-> MapThenSumSet(LAMBDA i : rows[i].documents_out, In(g, "step")),
            documents_indexed |-> MapThenSumSet(LAMBDA i : rows[i].documents_out, In(g, "job")),
            units |-> [u \in UnitNames \ {"cost_micro_usd", "unpriced_calls"} |-> MapThenSumSet(LAMBDA i : rows[i].units[u], In(g, "step"))]] : g \in {Group(i) : i \in seen}}

\* A table that does not exist yet has no usage.
fetch_usage(tenant, from, to) == IF sink = {"clickhouse"} /\ ~table THEN {} ELSE daily_usage(tenant, from, to)

\* The dates are {} when they are no YYYY-MM-DD.
get_usage(tenant, from, to) ==
  CASE sink = {} -> Err("NotImplemented")
    [] sink # {} /\ (from = {} \/ to = {}) -> Err("BadRequest")
    [] OTHER -> Ok(fetch_usage(tenant, Only(from), Only(to)))

-----------------------------------------------------------------------------
Held == {j \in DOMAIN Jobs : \E i \in DOMAIN rows : rows[i].job = Jobs[j].job_id}
StepsOf(js, p) == UNION {{<<j, k>> : k \in {k \in DOMAIN Jobs[j].steps : Jobs[j].steps[k].plugin = p}} : j \in js}

(* Every job and step the store holds is shown once, to its own tenant, on *)
(* its day, whatever was sent again; a job that was reported is held and was billed *)
(* before, when its tenant is an account of the Lab; and the bill has the  *)
(* sums of the steps, capped and never wrapped (events_for_job, send,      *)
(* daily_usage_sql, lab_events_for_job).                                   *)
ReportedOnce ==
  /\ \A j \in DOMAIN Jobs : Phase(j) = "done" /\ sink # {} => j \in Held
  /\ \A j \in DOMAIN Jobs : j \in Held \/ Phase(j) = "done" => IsOk(lab_account(Jobs[j].tenant_id)) = (report[j].billed # {})
  /\ \A tenant \in {Jobs[j].tenant_id : j \in DOMAIN Jobs} : sink # {} =>
       LET mine == {j \in Held : Jobs[j].tenant_id = tenant}
           Of(r) == {j \in mine : day(Jobs[j].finished_at) = r.day /\ Jobs[j].pipeline_uid = r.pipeline_uid}
           shown == get_usage(tenant, {0}, {9}).ok
       IN /\ \A j \in mine : \A plugin \in {""} \cup {s.plugin : s \in ToSet(Jobs[j].steps)} :
               \E r \in shown : r.plugin = plugin /\ j \in Of(r)
          /\ \A r \in shown :
               /\ r.jobs = IF r.plugin = "" THEN Cardinality(Of(r)) ELSE 0
               /\ r.plugin # "" => r.steps = Cardinality(StepsOf(Of(r), r.plugin))
               /\ r.plugin # "" => \A u \in DOMAIN r.units : r.units[u] = MapThenSumSet(LAMBDA s : Jobs[s[1]].steps[s[2]].usage[u], StepsOf(Of(r), r.plugin))
  /\ \A j \in DOMAIN Jobs : \A e \in report[j].billed : \A u \in Counted \ {"cost_micro_usd"} :
       e[1].data.units[u] = sat(FoldLeft(LAMBDA n, s : n + s.usage[u], 0, Jobs[j].steps))

(* A call is charged what it cost, or counted as one without a price, and  *)
(* never less than either, whatever the quantities; a price file that      *)
(* cannot be read prices nothing (ProviderCosts::apply, or_unpriced).      *)
ChargedInFull(prices, from, plugin, model, u) ==
  LET v == apply(prices, plugin, model, u)
      p == price(prices, plugin, model)
  IN /\ \/ v.unpriced_calls = sat(u.unpriced_calls + 1) /\ v.cost_micro_usd = u.cost_micro_usd
        \/ v.unpriced_calls = u.unpriced_calls /\ p # {} /\ v.cost_micro_usd >= sat(u.cost_micro_usd + Quantities(Only(p), u))
     /\ p = {} => v.unpriced_calls > u.unpriced_calls \/ u.unpriced_calls = MaxU
     /\ from = {"bad"} => v.cost_micro_usd = u.cost_micro_usd
     /\ plugin \in ToSet(unpriced_plugins(prices, <<plugin>>)) => v.cost_micro_usd = u.cost_micro_usd
=============================================================================
