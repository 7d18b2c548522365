------------------------------ MODULE Connections ------------------------------
(***************************************************************************)
(* The Meilisearch connections a tenant stores: the gateway validates and  *)
(* writes them (gateway/src/handlers/connections.rs, connections.rs), the  *)
(* control plane keeps them (control-plane/src/connections.rs) and the     *)
(* worker resolves the one an indexer step names                           *)
(* (worker/src/connection.rs).  Requests overlap: each is a read, a probe  *)
(* and a write.                                                            *)
(*                                                                         *)
(* One uid is used; the rows of it differ by tenant, "" for the global     *)
(* one.  A host is "" when it is no url and "q" when it has a query.       *)
(***************************************************************************)
EXTENDS Integers, FiniteSets

CONSTANTS
  Tenants,     \* "" and the tenants
  Requests,    \* the requests: a function of their names to [kind, tenant, uid, host, api_key, name], the last three {} when absent
  Readers,     \* the jobs that resolve the connection: a function of their names to their tenants
  Works,       \* the pairs <<host, key>> Meilisearch answers to
  Hosts        \* the hosts

VARIABLES
  conns,       \* function: tenant -> {} or the stored row
  refused,     \* the hosts the policy refuses now: names resolve to other addresses over time
  call,        \* function: request -> where it is
  job,         \* function: reader -> where it is
  proven,      \* history: the pairs validate_destination accepted
  was,         \* history: <<tenant, host, key>> of every row that was stored
  overlapped   \* history: a row changed between a patch's read and its write

connections == <<conns, refused, call, job, proven, was, overlapped>>

-----------------------------------------------------------------------------
Only(s) == CHOOSE x \in s : TRUE
Opt(s, d) == IF s # {} THEN Only(s) ELSE d

valid_uid(uid) == uid \notin {"", "a/b"}
normalize_host(h) == h \notin {"", "q"}

\* ConnectionRepo::get: the tenant's row, else the global one; get_owned: the tenant's only.
get(t) == IF conns[t] # {} THEN conns[t] ELSE conns[""]
get_owned(t) == conns[t]
get_connection(t, scope) == IF scope = "tenant" THEN get_owned(t) ELSE get(t)

\* COALESCE: what a patch leaves out stays.
update(row, p) == [id |-> row.id, tenant |-> row.tenant, host |-> Opt(p.host, row.host),
                   api_key |-> Opt(p.api_key, row.api_key), name |-> Opt(p.name, row.name)]
Stored(t, row) == was' = was \cup {<<t, row.host, row.api_key>>}

Init ==
  /\ conns = [t \in Tenants |-> {}] /\ refused = {} /\ was = {} /\ proven = {} /\ overlapped = FALSE
  /\ call = [r \in DOMAIN Requests |-> [at |-> "new"]]
  /\ job = [j \in DOMAIN Readers |-> [at |-> "new"]]

Go(r, to) == call' = [call EXCEPT ![r] = to]
At(r, a) == call[r].at = a
Answer(x) == [at |-> "done", status |-> x]

-----------------------------------------------------------------------------
(* The handlers of the gateway, one action per await. *)

\* Checks before anything is awaited: uid, key and host of the body.
BadBody(q) ==
  \/ ~valid_uid(q.uid)
  \/ q.kind = "create" /\ q.api_key = {}
  \/ q.kind # "patch" /\ \E h \in q.host : ~normalize_host(h)

create_connection(r) ==
  LET q == Requests[r]
  IN /\ At(r, "new") /\ q.kind = "create"
     /\ Go(r, IF BadBody(q) THEN Answer("BadRequest") ELSE [at |-> "probe", host |-> Only(q.host), api_key |-> Only(q.api_key), read |-> {}])
     /\ UNCHANGED <<conns, refused, job, proven, was, overlapped>>

\* The row as it is read; rows outside the caller's exact scope are not found.
read_connection(r) ==
  LET q == Requests[r]
      stored == {row \in get(q.tenant) : row.tenant = q.tenant}
      row == Only(stored)
  IN /\ At(r, "new") /\ q.kind \in {"patch", "delete"}
     /\ Go(r, CASE BadBody(q) -> Answer("BadRequest")
                [] ~BadBody(q) /\ stored = {} -> Answer("NotFound")
                [] ~BadBody(q) /\ stored # {} /\ q.kind = "delete" -> [at |-> "delete"]
                [] ~BadBody(q) /\ stored # {} /\ q.kind = "patch" /\ (\E h \in q.host : ~normalize_host(h)) -> Answer("Unprocessable")
                [] ~BadBody(q) /\ stored # {} /\ q.kind = "patch" /\ q.host = {} /\ q.api_key = {} -> [at |-> "update", read |-> stored]
                [] OTHER -> [at |-> "probe", host |-> Opt(q.host, row.host), api_key |-> Opt(q.api_key, row.api_key), read |-> stored])
     /\ UNCHANGED <<conns, refused, job, proven, was, overlapped>>

\* The host policy, /health and one call with the key.
validate_destination(r) ==
  LET c == call[r]
      ok == c.host \notin refused /\ <<c.host, c.api_key>> \in Works
  IN /\ At(r, "probe")
     /\ proven' = IF ok THEN proven \cup {<<c.host, c.api_key>>} ELSE proven
     /\ Go(r, IF ok THEN [c EXCEPT !.at = IF Requests[r].kind = "create" THEN "insert" ELSE "update"] ELSE Answer("Unprocessable"))
     /\ UNCHANGED <<conns, refused, job, was, overlapped>>

\* ConnectionRepo::insert: a uid already taken in the same scope is refused.
insert(r) ==
  LET t == Requests[r].tenant
      row == [id |-> r, tenant |-> t, host |-> call[r].host, api_key |-> call[r].api_key, name |-> Opt(Requests[r].name, Requests[r].uid)]
  IN /\ At(r, "insert")
     /\ IF conns[t] # {} THEN Go(r, Answer("Unprocessable")) /\ UNCHANGED <<conns, was>>
        ELSE conns' = [conns EXCEPT ![t] = {row}] /\ Stored(t, row) /\ Go(r, Answer("Created"))
     /\ UNCHANGED <<refused, job, proven, overlapped>>

patch_connection(r) ==
  LET t == Requests[r].tenant
      row == update(Only(conns[t]), Requests[r])
  IN /\ At(r, "update")
     /\ IF conns[t] = {} THEN Go(r, Answer("NotFound")) /\ UNCHANGED <<conns, was, overlapped>>
        ELSE /\ conns' = [conns EXCEPT ![t] = {row}] /\ Stored(t, row) /\ Go(r, Answer("Ok"))
             /\ overlapped' = (overlapped \/ conns[t] # call[r].read)
     /\ UNCHANGED <<refused, job, proven>>

\* ConnectionRepo::delete: the row of exactly this scope, by uid.
delete(t) == conns' = [conns EXCEPT ![t] = {}]
delete_connection(r) ==
  LET t == Requests[r].tenant
  IN /\ At(r, "delete")
     /\ delete(t)
     /\ Go(r, [at |-> "done", status |-> IF conns[t] = {} THEN "NotFound" ELSE "NoContent", row |-> conns[t]])
     /\ UNCHANGED <<refused, job, proven, was, overlapped>>

-----------------------------------------------------------------------------
(* resolve_connection in a worker: fetch the row, open the key, check the  *)
(* host again and only then use both.  open is FALSE for a worker whose    *)
(* SOURCE_SECRET_KEY is not the one the row was sealed with.               *)

fetch(j, open) ==
  LET t == Readers[j]
      row == get_connection(t, IF t # "" THEN "tenant" ELSE "")
  IN /\ job[j].at = "new"
     /\ job' = [job EXCEPT ![j] = IF row = {} \/ ~open THEN [at |-> "failed", error |-> "NonRetryable"] ELSE [at |-> "check", row |-> Only(row)]]
     /\ UNCHANGED <<conns, refused, call, proven, was, overlapped>>

resolve_connection(j, dns) ==
  /\ job[j].at = "check"
  /\ job' = [job EXCEPT ![j] = IF ~dns THEN [at |-> "failed", error |-> "Retryable"]
                               ELSE IF @.row.host \in refused THEN [at |-> "failed", error |-> "NonRetryable"]
                               ELSE [at |-> "uses", host |-> @.row.host, api_key |-> @.row.api_key, refused |-> refused]]
  /\ UNCHANGED <<conns, refused, call, proven, was, overlapped>>

\* Temporal tries a step again after a retryable error.
retry(j) ==
  /\ job[j].at = "failed" /\ job[j].error = "Retryable"
  /\ job' = [job EXCEPT ![j] = [at |-> "new"]]
  /\ UNCHANGED <<conns, refused, call, proven, was, overlapped>>

\* A name resolves to another address.
DnsChanges(h) == h \notin refused /\ refused' = refused \cup {h} /\ UNCHANGED <<conns, call, job, proven, was, overlapped>>

Next ==
  \/ \E r \in DOMAIN Requests : create_connection(r) \/ read_connection(r) \/ validate_destination(r) \/ insert(r) \/ patch_connection(r) \/ delete_connection(r)
  \/ \E j \in DOMAIN Readers, ok \in BOOLEAN : fetch(j, ok) \/ resolve_connection(j, ok)
  \/ \E j \in DOMAIN Readers : retry(j)
  \/ \E h \in Hosts : DnsChanges(h)

-----------------------------------------------------------------------------
(* A step writes with a host and a key that were stored together, in the   *)
(* row of its own tenant, and with a host that passed the policy when it   *)
(* was used; and a stored pair was proven, unless a row changed between    *)
(* the read and the write of a patch; a row that was deleted stays gone,   *)
(* also when a patch read it before (patch_connection,                     *)
(* resolve_connection).                                                    *)
ConnectionsSound ==
  /\ \A j \in DOMAIN Readers : job[j].at = "uses" => <<Readers[j], job[j].host, job[j].api_key>> \in was /\ job[j].host \notin job[j].refused
  /\ \A t \in Tenants : \A row \in conns[t] : row.tenant = t /\ (<<row.host, row.api_key>> \in proven \/ overlapped)
  /\ \A r \in DOMAIN Requests : Requests[r].kind = "delete" /\ At(r, "done") /\ call[r].status = "NoContent" =>
       \A gone \in call[r].row : \A row \in conns[gone.tenant] : row.id # gone.id

(* What is stored was proven to work (gateway/src/connections.rs:228,      *)
(* "Prove a destination works before it is saved").                        *)
SavedIsProven == \A t \in Tenants : \A row \in conns[t] : <<row.host, row.api_key>> \in proven
=============================================================================
