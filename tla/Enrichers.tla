------------------------------ MODULE Enrichers ------------------------------
(***************************************************************************)
(* The plugins that ask a model over HTTP: llm_enricher, jev_enricher and  *)
(* image_captioner.                                                        *)
(*                                                                         *)
(* The model is external: an exchange is [sent, status, body], sent FALSE  *)
(* when the request or the reading of its answer failed, body what the     *)
(* answer parses to (nothing when it is not the expected object).  Usage   *)
(* is a record of counts; rejected tells whether the key of the Lab's      *)
(* target was marked as refused.                                           *)
(***************************************************************************)
EXTENDS Documents

Units(requests, input, output, images) == [requests |-> requests, input |-> input, output |-> output, images |-> images]
NoUnits == Units(0, 0, 0, 0)
AddUnits(a, b) == [k \in DOMAIN a |-> a[k] + b[k]]

\* The environment of the worker: a blank variable is as good as none.
EnvVar(env, name) == {v \in Get(env, name) : v # ""}

\* A vendor that is called directly does not know its own prefix.
direct_model(vendor, model) == IF vendor # "" /\ model.provider = vendor THEN [model EXCEPT !.provider = ""] ELSE model

vendor_of(base_url) == CASE base_url = "openai.com" -> "openai" [] base_url = "typesafe.ai" -> "typesafe" [] OTHER -> ""

DefaultModel(plugin) == [provider |-> "", name |-> plugin]
llm_from_env(env) ==
  IF EnvVar(env, "LLM_API_KEY") = {} THEN {}
  ELSE {[base_url |-> Opt(EnvVar(env, "LLM_BASE_URL"), "openai.com"), api_key |-> Only(EnvVar(env, "LLM_API_KEY")),
         model |-> Opt(EnvVar(env, "LLM_MODEL"), DefaultModel("llm")), lab |-> FALSE]}
jev_from_env(env) ==
  IF EnvVar(env, "TYPESAFE_API_KEY") = {} THEN {}
  ELSE {[base_url |-> Opt(EnvVar(env, "TYPESAFE_BASE_URL"), "typesafe.ai"), api_key |-> Only(EnvVar(env, "TYPESAFE_API_KEY")),
         model |-> Opt(EnvVar(env, "JEV_MODEL"), DefaultModel("jev")), lab |-> FALSE]}

\* The Lab's target goes before the worker's own key; a disabled plugin has neither.
client_for(env, target, model) ==
  IF target # {} THEN Ok([base_url |-> Only(target).base_url, api_key |-> Only(target).api_key, model |-> model, lab |-> TRUE])
  ELSE IF env # {} THEN Ok(Only(env)) ELSE Err("InvalidConfig")

wire_model(client, model) == IF client.lab THEN model ELSE direct_model(vendor_of(client.base_url), model)

gateway_failure(code) == CASE code = 401 -> {[err |-> "Retryable", rejected |-> TRUE]}
                           [] code = 402 -> {[err |-> "NonRetryable", rejected |-> FALSE]}
                           [] OTHER -> {}

map_http_failure(code, lab) ==
  LET own == [err |-> IF code = 429 \/ code \in 500..599 THEN "Retryable" ELSE "NonRetryable", rejected |-> FALSE]
  IN IF lab THEN Opt(gateway_failure(code), own) ELSE own

Failure(e) == [err |-> e, rejected |-> FALSE]
Post(client, r) ==
  IF ~r.sent THEN Failure("Retryable")
  ELSE IF r.status \notin 200..299 THEN map_http_failure(r.status, client.lab)
  ELSE IF r.body = {} THEN Failure("NonRetryable") ELSE Ok(Only(r.body))

UsageOf(body) == IF body.usage = {} THEN Units(1, 0, 0, 0) ELSE Units(1, Only(body.usage)[1], Only(body.usage)[2], 0)

\* A chat completion with no content is an error, and its tokens are not counted.
complete(client, r) ==
  LET body == Post(client, r)
  IN IF ~IsOk(body) THEN body
     ELSE IF body.ok.content = {} THEN Failure("NonRetryable")
     ELSE Ok([content |-> Only(body.ok.content), usage |-> UsageOf(body.ok)])

systemone(client, r) ==
  LET body == Post(client, r)
  IN IF IsOk(body) THEN Ok([content |-> body.ok.answers, usage |-> UsageOf(body.ok)]) ELSE body

\* A field of the reply: kept out by merge when the document has it.
Write(doc, replace, k, v) == IF ~replace /\ k \in DOMAIN doc.fields THEN doc ELSE [doc EXCEPT !.fields = Insert(@, k, v)]

\* The reply is [json, kv, w]: an object, fenced or not, or some other text.
llm_apply_reply(doc, raw, replace) ==
  LET put(d, e) == CASE e.k = <<"title">> /\ e.v.t = "str" -> IF replace \/ d.title = {} THEN [d EXCEPT !.title = {e.v.w}] ELSE d
                     [] e.k = <<"language">> /\ e.v.t = "str" -> IF replace \/ d.language = {} THEN [d EXCEPT !.language = {e.v.w}] ELSE d
                     [] OTHER -> Write(d, replace, e.k, e.v)
  IN IF raw.json THEN FoldLeft(put, doc, raw.kv) ELSE [doc EXCEPT !.fields = Insert(@, <<"llm_raw">>, Str(raw.w))]

\* An answer is [type of question -> the value, when it has one] and a confidence.
AnswerValue(question, answer, threshold) ==
  CASE question.type = "noul" -> {Scalar("bool", <<IF p >= threshold THEN "true" ELSE "false">>) : p \in answer.noul}
    [] question.type = "choice" -> {Str(c) : c \in answer.choice}
    [] OTHER -> {Num(n) : n \in answer.score}

apply_answers(doc, cfg, answers) ==
  LET put(d, q) ==
        IF ~IsOk(d) \/ q.key \notin DOMAIN answers \/ AnswerValue(q, answers[q.key], cfg.threshold) = {} THEN Failure("NonRetryable")
        ELSE LET written == Write(d.ok, cfg.replace, q.key, Only(AnswerValue(q, answers[q.key], cfg.threshold)))
                 sure == answers[q.key].confidence
             IN Ok(IF cfg.include_confidence /\ sure # {} THEN Write(written, cfg.replace, Append(q.key, "_confidence"), Num(Only(sure))) ELSE written)
  IN FoldLeft(put, Ok(doc), cfg.questions)

\* One document: its result and what the call is metered at.
llm_enrich(client, cfg, doc, r) ==
  LET reply == complete(client, r)
  IN IF ~IsOk(reply) THEN [result |-> reply, usage |-> NoUnits]
     ELSE [result |-> Ok(llm_apply_reply(doc, reply.ok.content, cfg.replace)), usage |-> reply.ok.usage]
jev_enrich(client, cfg, doc, r) ==
  LET reply == systemone(client, r)
  IN IF ~IsOk(reply) THEN [result |-> reply, usage |-> NoUnits]
     ELSE [result |-> apply_answers(doc, cfg, reply.ok.content), usage |-> reply.ok.usage]

TakeAsEnded(a, stop, i, one) ==
  IF a.err # {} THEN a
  ELSE [a EXCEPT !.done = @ + 1, !.usage = AddUnits(@, one.usage), !.slots[a.done + 1] = IF IsOk(one.result) THEN {one.result.ok} ELSE {},
                 !.err = IF IsOk(one.result) THEN {} ELSE {one.result.err}]
\* The calls end in the order given; the first failure drops the ones under way.  A cancel is
\* looked for when a call has ended, so what that call metered and a key it saw refused stand.
Take(a, stop, i, one) ==
  LET usage == AddUnits(a.usage, one.usage)
      seen == [a EXCEPT !.done = @ + 1, !.usage = usage, !.rejected = ~IsOk(one.result) /\ one.result.rejected]
  IN IF a.err # {} THEN a
     ELSE IF stop <= a.done + 1 THEN [seen EXCEPT !.err = {"Cancelled"}]
     ELSE IF ~IsOk(one.result) THEN [seen EXCEPT !.err = {one.result.err}]
     ELSE [seen EXCEPT !.slots[i] = {one.result.ok}]

Enrich(stop, calls, order) ==
  FoldLeft(LAMBDA a, i : Take(a, stop, i, calls[i]),
           [slots |-> [i \in DOMAIN calls |-> {}], done |-> 0, usage |-> NoUnits, err |-> {}, rejected |-> FALSE], order)

Outcome(all) ==
  [result |-> IF all.err # {} THEN Err(Only(all.err))
              ELSE IF \E i \in DOMAIN all.slots : all.slots[i] = {} THEN Err("NonRetryable")
              ELSE Ok(Map(Only, all.slots)),
   usage |-> all.usage, rejected |-> all.rejected, asked |-> {}]
Refused(e) == [result |-> Err(e), usage |-> NoUnits, rejected |-> FALSE, asked |-> {}]

\* One call per document, once there is a client and the input is documents.
EnrichStep(stop, client, docs, calls, cfg, order) ==
  IF ~IsOk(client) THEN Refused(client.err)
  ELSE IF ~IsOk(docs) THEN Refused(docs.err)
  ELSE [Outcome(Enrich(stop, calls, order))
          EXCEPT !.asked = IF docs.ok = <<>> THEN {} ELSE {wire_model(client.ok, Opt(cfg.model, client.ok.model))}]

\* world is what the step meets: the environment, the Lab's target, the model's replies and their order.
llm_execute(stop, input, cfg, world) ==
  LET model == IF world.target = {} THEN {} ELSE Only(world.target).default_model
      client == client_for(llm_from_env(world.env), world.target, model)
      docs == into_documents(input)
      calls == [i \in DOMAIN docs.ok |-> llm_enrich(client.ok, cfg, docs.ok[i], world.replies[i])]
  IN EnrichStep(stop, client, docs, calls, cfg, world.order)
jev_execute(stop, input, cfg, world) ==
  LET model == IF world.target = {} THEN {} ELSE Opt(Only(world.target).decision_model, DefaultModel("jev"))
      client == client_for(jev_from_env(world.env), world.target, model)
      docs == into_documents(input)
      calls == [i \in DOMAIN docs.ok |-> jev_enrich(client.ok, cfg, docs.ok[i], world.replies[i])]
  IN EnrichStep(stop, client, docs, calls, cfg, world.order)

-----------------------------------------------------------------------------
(* image_captioner *)

image_apply_reply(doc, raw, json) ==
  LET put(d, e) == CASE e.k = <<"caption">> /\ e.v.t = "str" -> [d EXCEPT !.content = e.v.w]
                     [] e.k = <<"text_in_image">> -> IF e.v = Null THEN d ELSE [d EXCEPT !.fields = Insert(@, <<"ocr_text">>, e.v)]
                     [] OTHER -> [d EXCEPT !.fields = Insert(@, e.k, e.v)]
      all == FoldLeft(put, doc, raw.kv)
  IN IF ~(json /\ raw.json) THEN [doc EXCEPT !.content = raw.w]
     ELSE IF all.content = <<>> THEN [all EXCEPT !.content = raw.w] ELSE all

image_execute(stop, input, cfg, world) ==
  LET client == client_for(llm_from_env(world.env), world.target, IF world.target = {} THEN {} ELSE Only(world.target).vision_model)
      blob == into_bytes(input)
      reply == complete(client.ok, world.replies[1])
      asked == {wire_model(client.ok, Opt(cfg.model, client.ok.model))}
      name == UNION {NonEmpty(n.stem) : n \in blob.ok.filename}
      doc == with_id(Opt(name, <<>>), <<>>)
  IN IF ~IsOk(client) THEN Refused(client.err)
     ELSE IF ~IsOk(blob) THEN Refused(blob.err)
     ELSE IF blob.ok.mime # "image" \/ blob.ok.size = 0 THEN Refused("InvalidInput")
     ELSE IF stop <= 1 THEN Refused("Cancelled")
     ELSE IF ~IsOk(reply) THEN [Refused(reply.err) EXCEPT !.rejected = reply.rejected, !.asked = asked]
     ELSE [result |-> Ok(<<image_apply_reply(doc, reply.ok.content, cfg.json)>>), usage |-> [reply.ok.usage EXCEPT !.images = 1], rejected |-> FALSE, asked |-> asked]
=============================================================================
