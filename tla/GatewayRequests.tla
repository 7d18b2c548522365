--------------------------- MODULE GatewayRequests ---------------------------
(***************************************************************************)
(* What the gateway does with a management request before and after the    *)
(* control plane: who the caller is (gateway/src/auth.rs), what a pipeline *)
(* or a source in the body becomes (handlers/pipelines.rs, sources.rs,     *)
(* source/src/template.rs), and what the control plane's errors turn into  *)
(* (state.rs, error.rs), as operators.  Strings stand for themselves: ""   *)
(* is blank, "a b" a name with a forbidden character.                      *)
(***************************************************************************)
EXTENDS Definitions

\* The ? operator, and a check that has no value.
AndThen(r, next(_)) == IF IsOk(r) THEN next(r.ok) ELSE r
Ensure(holds, e) == IF holds THEN Ok({}) ELSE Err(e)

-----------------------------------------------------------------------------
(* The caller.  A config is [lab, admin, edge, control], the secrets that  *)
(* are set; headers are [bearer, secret, named, tenant, project], each     *)
(* optional: a blank header counts as absent.                              *)

validate_tenant_id(t) == t \notin {"", "a b"}
PLACEHOLDER == "CHANGE_ME"
\* GatewayConfig::validate: what stops the process at boot.
Boots(c, lab_credentials) ==
  /\ PLACEHOLDER \notin c.admin \cup c.edge \cup c.control
  /\ lab_credentials \/ c.lab # {} => c.edge # {}

resolve_tenant_id(h, c) ==
  LET trusted == c.edge = {} \/ h.secret = c.edge
      raw == IF ~trusted THEN {} ELSE IF h.tenant # {} THEN h.tenant ELSE h.project
  IN IF \A t \in raw : validate_tenant_id(t) THEN Ok(raw) ELSE Err("InvalidTenant")

management_auth_enabled(c) == c.lab # {} \/ c.admin # {}
management_principal(c, bearer) ==
  CASE bearer # {} /\ bearer = c.lab -> {"Lab"}
    [] bearer # {} /\ bearer # c.lab /\ bearer = c.admin -> {"Admin"}
    [] OTHER -> {}

authorize(h, c) ==
  LET who == management_principal(c, h.bearer)
      Scope(principal, tenant) == [principal |-> principal, tenant |-> tenant]
  IN IF ~management_auth_enabled(c) THEN AndThen(resolve_tenant_id(h, c), LAMBDA t : Ok(Scope("Open", t)))
     ELSE AndThen(Ensure(who # {}, "Unauthorized"), LAMBDA u :
          AndThen(Ensure((\A t \in h.named : validate_tenant_id(t)) /\ (h.named = {} => who # {"Lab"}), "InvalidTenant"), LAMBDA v :
          Ok(Scope(Only(who), h.named))))

\* GET /jobs/{id}: the tenant the read is scoped to, {} for every job.
authorize_job_read(h, c) ==
  IF management_auth_enabled(c) /\ management_principal(c, h.bearer) # {} THEN AndThen(authorize(h, c), LAMBDA scope : Ok(scope.tenant))
  ELSE AndThen(resolve_tenant_id(h, c), LAMBDA t : IF management_auth_enabled(c) /\ t = {} THEN Err("Unauthorized") ELSE Ok(t))

-----------------------------------------------------------------------------
(* The control plane's errors, on their way to the client. *)

CpStatus(e) ==
  CASE e = "BadJson" -> 400
    [] e = "Unauthorized" -> 401
    [] e \in {"Builtin", "TokenRequired"} -> 403
    [] e = "InsufficientCredits" -> 402
    [] e = "LabUnavailable" -> 503
    [] e \in {"NotFound", "NoPipeline", "NoGateway"} -> 404
    [] e \in {"Validation", "UnknownPlugin"} -> 422
    [] OTHER -> 500
error_from(s) ==
  CASE s = 404 -> "NotFound" [] s = 403 -> "Forbidden" [] s = 400 -> "BadRequest" [] s = 422 -> "Invalid" [] s = 413 -> "TooLarge" [] OTHER -> "Upstream"
GatewayStatus(e) ==
  CASE e \in {"BadRequest", "InvalidTenant"} -> 400
    [] e = "Unauthorized" -> 401
    [] e = "Forbidden" -> 403
    [] e = "NotFound" -> 404
    [] e = "TooLarge" -> 413
    [] e \in {"Invalid", "Unprocessable"} -> 422
    [] OTHER -> 502
send_json(r) == IF IsOk(r) THEN r ELSE Err(error_from(CpStatus(r.err)))
reword(r) == IF r = Err("Invalid") THEN Err("Unprocessable") ELSE r
not_found_to_none(r) == CASE IsOk(r) -> Ok({r.ok}) [] r = Err("NotFound") -> Ok({}) [] OTHER -> r

-----------------------------------------------------------------------------
(* Pipelines.  A body is [text, builtin, keys, def]: what its text is, its *)
(* builtin flag, the keys it has, each [at, name], and its definition.     *)

\* JSON is YAML too, so the content type decides the parser and not what is accepted.
parse_pipeline(body) ==
  IF body.text \in {"json", "yaml"} THEN Ok([body.def EXCEPT !.steps = normalize(body.def.steps)]) ELSE Err("BadRequest")

apply_scope(scope, d) ==
  CASE scope.tenant # {} -> Ok([d EXCEPT !.tenant = scope.tenant])
    [] OTHER -> IF \A t \in d.tenant : validate_tenant_id(t) THEN Ok(d) ELSE Err("InvalidTenant")

\* POST /pipelines; the control plane is called without a tenant header.
post_pipeline(db, scope, body) ==
  AndThen(parse_pipeline(body), LAMBDA d :
  AndThen(Ensure(IsOk(validate(d)), "Invalid"), LAMBDA u :
  AndThen(Ensure(~body.builtin, "Forbidden"), LAMBDA v :
  AndThen(apply_scope(scope, d), LAMBDA scoped : send_json(create_pipeline(db, scoped, {}))))))

Known == [top |-> {"uid", "name", "description", "version", "trigger", "steps", "builtin", "tenant_id", "project_id", "scope"},
          trigger |-> {"content_types", "filename_pattern", "index_pattern"},
          step |-> {"id", "plugin", "depends_on", "fan_out", "config", "timeout_secs", "retry"},
          retry |-> {"max_attempts", "backoff", "initial_interval_secs"}]
ignored_keys(body) == {k \in body.keys : k.name \notin Known[k.at]}

\* POST /pipelines/validate: the control plane's verdict and the keys that are dropped.
check_pipeline(db, scope, body) ==
  AndThen(parse_pipeline(body), LAMBDA d :
  AndThen(apply_scope(scope, d), LAMBDA scoped :
  AndThen(send_json(validate_pipeline(db, scoped, {})), LAMBDA verdict : Ok([warnings |-> ignored_keys(body)]))))

RowScope(is_builtin, tenant) == IF is_builtin THEN "Builtin" ELSE IF tenant # {} THEN "Tenant" ELSE "Global"
PipelineView(p) == [pipeline |-> p, scope |-> RowScope(is_builtin_uid(p.uid), p.tenant)]
view_pipeline(rows, uid, scope) ==
  LET p == get_pipeline(rows, uid, scope.tenant) IN IF p = {} THEN send_json(Err("NotFound")) ELSE Ok(PipelineView(Only(p)))

-----------------------------------------------------------------------------
(* URL templates.  A template is a sequence of pieces: a text, an opening  *)
(* {{ that is never closed, or a token [head, colon, offset, fmt], the     *)
(* offset {} or [sign, digits, unit], digits {} when they are no number,   *)
(* "wide" a character of several bytes.                                    *)

Zones == [UTC |-> 0, CET |-> 1]
Units == [d |-> 4, h |-> 2, m |-> 1]   \* in ticks of the model
MaxOffset == 40                        \* the longest Duration
MaxTime == 20                          \* the last instant of chrono; dates before 0 exist too

\* An offset is cut by bytes: a wide character at its start or its end panics.
parse_offset(raw) ==
  IF raw.sign = "wide" \/ (raw.sign \in {"-", "+"} /\ raw.unit = "wide") THEN Err("Panic")
  ELSE IF raw.sign \in {"-", "+"} /\ raw.digits # {} /\ raw.unit \in DOMAIN Units /\ Only(raw.digits) * Units[raw.unit] <= MaxOffset
  THEN Ok((IF raw.sign = "-" THEN -1 ELSE 1) * Only(raw.digits) * Units[raw.unit])
  ELSE Err("Template")

\* Nor is an instant out of range or an unknown format specifier an error: the task panics.
expand(token, at, zone) ==
  LET offset == IF token.offset = {} THEN Ok(0) ELSE parse_offset(Only(token.offset))
      shifted == at + offset.ok
  IN CASE token.head = "timestamp" /\ ~token.colon -> Ok(<<"timestamp", at>>)
       [] ~token.colon /\ token.head # "timestamp" -> Err("Template")
       [] token.colon /\ token.head # "date" -> Err("Template")
       [] token.colon /\ token.head = "date" /\ ~IsOk(offset) -> offset
       [] OTHER -> IF shifted > MaxTime \/ token.fmt = "unknown" THEN Err("Panic") ELSE Ok(<<token.fmt, (shifted + zone) \div Units.d>>)

render(template, at, timezone) ==
  LET step1(out, p) == CASE ~IsOk(out) -> out
                         [] IsOk(out) /\ p.p = "open" -> Err("Template")
                         [] IsOk(out) /\ p.p = "text" -> Ok(Append(out.ok, <<"text", 0>>))
                         [] OTHER -> LET e == expand(p, at, Zones[timezone]) IN IF IsOk(e) THEN Ok(Append(out.ok, e.ok)) ELSE e
  IN IF timezone \notin DOMAIN Zones THEN Err("Template") ELSE FoldLeft(step1, Ok(<<>>), template)

-----------------------------------------------------------------------------
(* Sources.  A row is [name, description, pipeline, location, cron,        *)
(* timezone, index, auth, tenant]; a location [template, host].  The world *)
(* is [now, key, hosts, pipelines]: which hosts may be fetched, and which  *)
(* pipelines there are, pinned to a connection or not.  Without a secret   *)
(* key every request is refused before it does anything.                   *)

non_blank(v) == v \ {""}
check_cron(cron) == cron = "5 fields"

validate_location(world, location, timezone) ==
  LET Reworded(url) == CASE url = Err("Panic") -> url
                         [] url # Err("Panic") /\ ~IsOk(url) -> Err("Unprocessable")
                         [] OTHER -> Ensure(location.host \in world.hosts, "Unprocessable")
  IN Reworded(render(location.template, world.now, timezone))

schedulable_pipeline(world, uid) ==
  IF uid \in DOMAIN world.pipelines /\ world.pipelines[uid] THEN Ok(uid) ELSE Err("Unprocessable")

seal(key, auth) == [key |-> key, auth |-> auth]
open_json(key, sealed) == IF sealed.key = key THEN {sealed.auth} ELSE {}

\* The masked view of a credential: its kind and names, of its user or its headers.
redact(auth) == [kind |-> auth.kind, names |-> auth.names]
from_record(r, key) ==
  [pipeline |-> r.pipeline, location |-> r.location, cron |-> r.cron, timezone |-> r.timezone, index |-> r.index,
   auth |-> {LET a == open_json(key, s) IN IF a # {} THEN redact(Only(a)) ELSE [kind |-> "unknown", names |-> {}] : s \in r.auth},
   scope |-> RowScope(FALSE, r.tenant)]

\* POST /sources up to the insert; name falls back on the uid.
NewSource(world, scope, req) ==
  AndThen(Ensure(ValidUid(req.uid), "BadRequest"), LAMBDA a :
  AndThen(Ensure(check_cron(req.cron), "Unprocessable"), LAMBDA b :
  AndThen(validate_location(world, req.location, req.timezone), LAMBDA c :
  AndThen(schedulable_pipeline(world, req.pipeline), LAMBDA pipeline :
  Ok([name |-> Opt(non_blank(req.name), req.uid), description |-> non_blank(req.description), pipeline |-> pipeline, location |-> req.location,
      cron |-> req.cron, timezone |-> req.timezone, index |-> non_blank(req.index), auth |-> {seal(world.key, f) : f \in req.auth}, tenant |-> scope.tenant])))))

\* The scope of a write is exactly the caller's: no fallback on the global row.
owned(row, scope) == row.tenant = scope.tenant

\* PATCH /sources/{uid} on the row it read: what it sends to the control plane.  index
\* and auth are absent, {{}} for null, or a value.
SourcePatch(world, scope, row, req) ==
  LET moved == req.location # {} \/ req.timezone # {}
  IN AndThen(Ensure(\A c \in req.cron : check_cron(c), "Unprocessable"), LAMBDA a :
     AndThen(Ensure(owned(row, scope), "NotFound"), LAMBDA b :
     AndThen(IF moved THEN validate_location(world, Opt(req.location, row.location), Opt(req.timezone, row.timezone)) ELSE Ok({}), LAMBDA c :
     AndThen(Ensure(\A p \in req.pipeline : IsOk(schedulable_pipeline(world, p)), "Unprocessable"), LAMBDA d :
     Ok([req EXCEPT !.name = non_blank(@), !.index = {non_blank(i) : i \in @}, !.auth = {{seal(world.key, f) : f \in v} : v \in @}])))))

\* SourceRepo::update: COALESCE keeps a column; index and credential have a flag of their own.
update(row, patch) ==
  [row EXCEPT !.name = Opt(patch.name, @), !.description = IF patch.description # {} THEN patch.description ELSE @,
              !.pipeline = Opt(patch.pipeline, @), !.location = Opt(patch.location, @), !.cron = Opt(patch.cron, @),
              !.timezone = Opt(patch.timezone, @), !.index = Opt(patch.index, @), !.auth = Opt(patch.auth, @)]

-----------------------------------------------------------------------------
(* What has to hold of them.                                               *)

\* Behind a gateway that booted, nobody acts for a tenant without proof: with management
\* secrets set a caller shows one, the Lab for one tenant only, and a job is read across
\* tenants by an admin alone; an edge tenant counts only with the edge's secret.
CallerScoped(h, c, lab_credentials) ==
  LET Proved(t) == \/ t = h.named /\ h.bearer # {} /\ h.bearer \in {c.lab, c.admin}
                   \/ t \subseteq h.tenant \cup h.project /\ (t # {} => h.secret = c.edge \/ (c.edge = {} /\ ~lab_credentials))
      Manages(scope) == /\ Proved(scope.tenant) /\ \A t \in scope.tenant : validate_tenant_id(t)
                        /\ scope.principal = "Lab" => Cardinality(scope.tenant) = 1 /\ h.bearer = c.lab
                        /\ management_auth_enabled(c) => h.bearer # {} /\ h.bearer \in {c.lab, c.admin}
      Reads(tenant) == /\ Proved(tenant) /\ \A t \in tenant : validate_tenant_id(t)
                       /\ tenant = {} /\ management_auth_enabled(c) => h.bearer = c.admin
  IN Boots(c, lab_credentials) => /\ \A a \in {authorize(h, c)} : IsOk(a) => Manages(a.ok)
                                  /\ \A j \in {authorize_job_read(h, c)} : IsOk(j) => Reads(j.ok)

\* The gateway passes a refusal of a definition on as the same refusal, and never blames
\* the client for what the control plane or the Lab could not do.
StatusKept(e) ==
  \A r \in {send_json(Err(e))} :
    /\ GatewayStatus(r.err) = CpStatus(e) \/ (CpStatus(e) \in {401, 402, 500, 503} /\ GatewayStatus(r.err) = 502)
    /\ not_found_to_none(r) = Ok({}) <=> CpStatus(e) = 404
    /\ ~IsOk(reword(r)) /\ GatewayStatus(reword(r).err) = GatewayStatus(r.err)

\* A pipeline that POST takes is one that validate approved, it is read back with its
\* caller's scope and touches no other tenant's; a refusal after an approval is either
\* the builtin flag or the database, and a dropped key is a key nobody reads.
PipelineSaved(db, scope, body) ==
  LET tenant == IF scope.tenant # {} THEN scope.tenant ELSE body.def.tenant
      ReadBack(after, view) == /\ {r \in after : r.tenant # tenant} = {r \in db.rows : r.tenant # tenant}
                               /\ view.scope = (IF tenant = {} THEN "Global" ELSE "Tenant")
                               /\ validate(view.pipeline) = validate(parse_pipeline(body).ok)
  IN \A made \in {post_pipeline(db, scope, body)}, checked \in {check_pipeline(db, scope, body)} :
       /\ IsOk(made) => IsOk(checked) /\ ReadBack(made.ok, view_pipeline(made.ok, body.def.uid, [tenant |-> tenant]).ok)
       /\ ~IsOk(made) => GatewayStatus(made.err) # 404 /\ (IsOk(checked) => made.err = "Upstream" \/ (body.builtin /\ made.err = "Forbidden"))
       /\ IsOk(checked) => \A k \in body.keys : k \in checked.ok.warnings \/ k.name \in Known[k.at]

\* A source that was saved can be fetched at every later tick, also when two PATCHes of
\* it overlap and each checked its own half against the row both read.
RendersLater(row, ticks) == \A at \in ticks : IsOk(render(row.location.template, at, row.timezone))
SourceSaved(world, scope, req, ticks) ==
  \A made \in {NewSource(world, scope, req)} :
    IsOk(made) => /\ RendersLater(made.ok, ticks) /\ made.ok.location.host \in world.hosts /\ world.pipelines[made.ok.pipeline]
                  /\ made.ok.name # "" /\ made.ok.tenant = scope.tenant

\* What a PATCH does not name stays, null and blank clear an index, null a credential;
\* the caller never sees more of a credential than its kind and its names.
Changed(old, new, req, key) ==
  /\ \A f \in {"pipeline", "location", "cron", "timezone"} : new[f] = Opt(req[f], old[f])
  /\ new.index = Opt(req.index, old.index) \ {""}
  /\ req.auth = {} => new.auth = old.auth
  /\ \A v \in req.auth : v = UNION {open_json(key, s) : s \in new.auth} /\ Cardinality(v) = Cardinality(new.auth)
  /\ \A a \in from_record(new, key).auth : DOMAIN a = {"kind", "names"}
SourcePatched(world, scope, row, first, second, ticks) ==
  \A p \in {SourcePatch(world, scope, row, first)}, q \in {SourcePatch(world, scope, row, second)} :
    /\ IsOk(p) \/ IsOk(q) => owned(row, scope)
    /\ IsOk(p) => \A one \in {update(row, p.ok)} :
         /\ Changed(row, one, first, world.key) /\ RendersLater(one, ticks)
         /\ IsOk(q) => \A after \in {update(one, q.ok)} :
              /\ RendersLater(after, ticks) /\ after.location.host \in world.hosts /\ world.pipelines[after.pipeline]
              /\ after.name # "" /\ Changed(one, after, second, world.key)

=============================================================================
