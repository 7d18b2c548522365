------------------------------- MODULE Fetching -------------------------------
(***************************************************************************)
(* What is fetched on a tenant's behalf: the address guard and the host    *)
(* policy (source/src/guard.rs, host_policy.rs), the url connector of a    *)
(* source (source/src/url.rs), and the blob store's guarded fetch and the  *)
(* objects of other stores that a tenant names (blob/src/lib.rs),          *)
(* as operators.                                                           *)
(*                                                                         *)
(* A url is [scheme, host, port, file].  The world is what the network     *)
(* answers: world.dns a function of the host, world.web of the url.  A     *)
(* response is [sent, status, location, etag, modified, mime, body]; a     *)
(* body is [hash, chunks, gzip], chunks the sizes in which it arrives and  *)
(* gzip the sizes of its members, <<>> when it is no gzip.                 *)
(***************************************************************************)
EXTENDS Documents

-----------------------------------------------------------------------------
(* Addresses: [v, o], o the four octets, or the eight segments of an IPv6. *)

classify_v4(o) ==
  CASE o = <<0, 0, 0, 0>> -> "unspecified"
    [] o[1] = 127 -> "loopback"
    [] o[1] = 169 /\ o[2] = 254 -> "link_local"
    [] o[1] = 100 /\ o[2] \in 64..127 -> "cgnat"
    [] o[1] = 10 \/ (o[1] = 172 /\ o[2] \in 16..31) \/ (o[1] = 192 /\ o[2] = 168) -> "private"
    [] o[1] \in 224..239 \/ o = <<255, 255, 255, 255>> -> "multicast"
    [] OTHER -> "public"

classify_v6(o) ==
  CASE \A i \in 1..8 : o[i] = 0 -> "unspecified"
    [] o[8] = 1 /\ \A i \in 1..7 : o[i] = 0 -> "loopback"
    [] o[1] \div 64 = 1018 -> "link_local"        \* fe80::/10
    [] o[1] \div 512 = 126 -> "unique_local"      \* fc00::/7
    [] o[1] \div 256 = 255 -> "multicast"         \* ff00::/8
    [] OTHER -> "public"

Mapped(o) == (\A i \in 1..5 : o[i] = 0) /\ o[6] = 65535
classify(ip) ==
  CASE ip.v = 4 -> classify_v4(ip.o)
    [] ip.v = 6 /\ Mapped(ip.o) -> classify_v4(<<ip.o[7] \div 256, ip.o[7] % 256, ip.o[8] \div 256, ip.o[8] % 256>>)
    [] OTHER -> classify_v6(ip.o)
is_allowed(class) == class = "public"

check_scheme(u) == u.scheme = "https"
check_http_scheme(u) == u.scheme \in {"http", "https"}

\* UrlGuard::check_url: "ok" or the error; every address the host has must be public.
check_url(world, u) ==
  CASE ~check_scheme(u) \/ u.host = "" -> "Blocked"
    [] check_scheme(u) /\ u.host # "" /\ u.host \notin DOMAIN world.dns -> "Dns"
    [] check_scheme(u) /\ u.host \in DOMAIN world.dns /\ world.dns[u.host] = {} -> "Dns"
    [] check_scheme(u) /\ u.host \in DOMAIN world.dns /\ world.dns[u.host] # {} ->
         IF \A ip \in world.dns[u.host] : is_allowed(classify(ip)) THEN "ok" ELSE "Blocked"

-----------------------------------------------------------------------------
(* The host policy: "public", "any" or a set of [host, port], port {} for any. *)

\* An entry of the variable is [bare, host, port]; bare when it is a host, not a url.
parse_entry(e) == IF ~e.bare \/ e.host = "" THEN {} ELSE {[host |-> e.host, port |-> e.port]}
parse_policy(raw) ==
  CASE raw = <<>> \/ raw = <<"public">> -> Ok([kind |-> "public"])
    [] raw = <<"any">> -> Ok([kind |-> "any"])
    [] OTHER -> LET entries == Map(parse_entry, raw)
                IN IF {} \in ToSet(entries) THEN Err("Blocked") ELSE Ok([kind |-> "allow", entries |-> UNION ToSet(entries)])

check(world, policy, u) ==
  CASE policy.kind = "public" -> check_url(world, u)
    [] policy.kind = "any" -> IF check_http_scheme(u) THEN "ok" ELSE "Blocked"
    [] OTHER -> IF /\ check_http_scheme(u) /\ u.host # ""
                   /\ \E e \in policy.entries : e.host = u.host /\ (e.port = {} \/ e.port = {u.port})
                THEN "ok" ELSE "Blocked"

-----------------------------------------------------------------------------
(* Redirects are followed here and not by the client.  A get ends with     *)
(* [result, asked]: the requests that were sent, each [url, method, auth].  *)

IsRedirect(status) == status \in 300..399
originHost(u) == <<u.host>>
origin(u) == <<u.scheme, u.host, u.port>>
transient(status) == ~(status \in 400..499) \/ status \in {408, 429}
NextMethod(status, method) == IF status = 303 \/ (status \in {301, 302} /\ method # "HEAD") THEN "GET" ELSE method

RECURSIVE Hop(_, _, _, _, _)
Hop(world, start, cur, method, asked) ==
  LET refused == IF start.policy = {} THEN "ok" ELSE check(world, Only(start.policy), cur)
      now == Append(asked, [url |-> cur, method |-> method, auth |-> start.auth /\ origin(cur) = origin(start.url)])
      r == world.web[cur]
      End(result) == [result |-> result, asked |-> now]
  IN CASE refused # "ok" -> [result |-> Err(refused), asked |-> asked]
       [] refused = "ok" /\ ~r.sent -> End(Err("Fetch"))
       [] refused = "ok" /\ r.sent /\ (~IsRedirect(r.status) \/ (r.status = 304 /\ start.conditional)) -> End(Ok(r))
       [] refused = "ok" /\ r.sent /\ IsRedirect(r.status) /\ ~(r.status = 304 /\ start.conditional)
            /\ (Len(asked) >= start.max_redirects \/ r.location = {}) -> End(Err("Fetch"))
       [] OTHER -> Hop(world, start, Only(r.location), NextMethod(r.status, method), now)

-----------------------------------------------------------------------------
(* The url connector of a source. *)

\* The body as it streams in: the cap is checked before a chunk is kept.
ReadBody(body, max) ==
  FoldLeft(LAMBDA n, c : IF n = {} \/ Only(n) + c > max THEN {} ELSE {Only(n) + c}, {0}, body.chunks)

\* The first member of a gzip; its output is capped like the download.
maybe_gunzip(body, size, name, max) ==
  CASE body.gzip = <<>> -> Ok([size |-> size, name |-> name, parts |-> 1])
    [] body.gzip # <<>> /\ body.gzip[1] > max -> Err("TooLarge")
    [] OTHER -> Ok([size |-> body.gzip[1], parts |-> 1,
                    name |-> {IF Last(n) = "gz" /\ Len(n) > 1 THEN Front(n) ELSE n : n \in name}])

\* A .json of several JSON lines is ndjson.
detect_mime(lines, name) ==
  LET ext == {Last(n) : n \in {n \in name : Len(n) > 1}} \cap {"json", "ndjson", "csv", "pdf", "txt"}
  IN IF ext = {"json"} /\ lines >= 2 THEN {"ndjson"} ELSE ext

\* UrlConnector::resolve: [result, asked]; a result holds the item and the state to save.
url_resolve(world, src, state, limits) ==
  LET start == [url |-> src.url, auth |-> src.auth, policy |-> limits.policy, max_redirects |-> limits.max_redirects, conditional |-> TRUE]
      got == Hop(world, start, src.url, src.method, <<>>)
      r == got.result.ok
      size == ReadBody(r.body, limits.max_bytes)
      unzipped == maybe_gunzip(r.body, Only(size), NonEmpty(src.url.file), limits.max_bytes)
      item == unzipped.ok
      With(x) == [result |-> x, asked |-> got.asked]
  IN CASE ~IsOk(got.result) -> got
       [] IsOk(got.result) /\ r.status = 304 -> With(Ok([kind |-> "unchanged"]))
       [] IsOk(got.result) /\ r.status \notin {304} \cup 200..299 -> With(Err(IF transient(r.status) THEN "Fetch" ELSE "Rejected"))
       [] IsOk(got.result) /\ r.status \in 200..299 /\ size = {} -> With(Err("TooLarge"))
       [] IsOk(got.result) /\ r.status \in 200..299 /\ size # {} /\ state.hash = {r.body.hash} -> With(Ok([kind |-> "unchanged"]))
       [] IsOk(got.result) /\ r.status \in 200..299 /\ size # {} /\ state.hash # {r.body.hash} /\ ~IsOk(unzipped) -> With(unzipped)
       [] OTHER -> With(Ok([kind |-> "items", body |-> r.body, size |-> item.size, parts |-> item.parts,
                            mime |-> Opt(r.mime \ {"octet"}, Opt(detect_mime(r.body.lines, item.name), "octet")),
                            state |-> [etag |-> r.etag, modified |-> r.modified, hash |-> {r.body.hash}]]))

-----------------------------------------------------------------------------
(* FetchGuard::get and the url branch of fetch_ref. *)

guarded_get(world, u, policy, max) ==
  LET got == Hop(world, [url |-> u, auth |-> FALSE, policy |-> policy, max_redirects |-> max, conditional |-> FALSE], u, "GET", <<>>)
      Renamed(e) == CASE e \in {"Blocked", "Dns"} -> "Blocked" [] OTHER -> "Http"
  IN IF IsOk(got.result) THEN got ELSE [got EXCEPT !.result = Err(Renamed(got.result.err))]

fetch_url(world, r, policy, max) ==
  LET got == guarded_get(world, r.url, policy, max)
      resp == got.result.ok
      name == IF r.name # {} THEN r.name ELSE NonEmpty(r.url.file)
      With(x) == [result |-> x, asked |-> got.asked]
  IN CASE ~check_http_scheme(r.url) -> [result |-> Err("Unsupported"), asked |-> <<>>]
       [] check_http_scheme(r.url) /\ ~IsOk(got.result) -> got
       [] check_http_scheme(r.url) /\ IsOk(got.result) /\ resp.status \notin 200..299 -> With(Err(IF transient(resp.status) THEN "Http" ELSE "Rejected"))
       [] OTHER -> With(Ok([body |-> resp.body, name |-> name, mime |-> Opt(r.mime, Opt(resp.mime, Opt(detect_mime(0, name), "octet")))]))

-----------------------------------------------------------------------------
(* What has to hold of a fetch.                                            *)

MayAsk(world, policy, u) ==
  CASE policy.kind = "public" -> u.scheme = "https" /\ world.dns[u.host] # {} /\ \A ip \in world.dns[u.host] : classify(ip) = "public"
    [] policy.kind = "any" -> u.scheme \in {"http", "https"}
    [] OTHER -> u.scheme \in {"http", "https"} /\ \E e \in policy.entries : e.host = u.host /\ e.port \in {{}, {u.port}}

\* Whatever the servers answer, every hop was one the policy allows, there were at most
\* max_redirects of them after the first, and none but the source's own scheme, host and
\* port was shown the credentials.
HopsBounded(world, start, policy, max_redirects, asked) ==
  /\ Len(asked) <= max_redirects + 1
  /\ \A i \in DOMAIN asked :
       LET u == asked[i].url
       IN /\ \A p \in policy : MayAsk(world, p, u)
          /\ asked[i].auth => u.scheme = start.scheme /\ u.host = start.host /\ u.port = start.port

\* What is handed on is the last answer and within the cap, also when it was compressed;
\* a run is unchanged only when a server said so or the bytes are those of the last run;
\* and it fails for good only for what a retry cannot change.
AnswerBounded(world, got, state, limits) ==
  LET r == world.web[Last(got.asked).url]
      res == got.result
  IN /\ IsOk(res) /\ res.ok.kind = "items" =>
          res.ok.body = r.body /\ res.ok.size <= limits.max_bytes /\ FoldLeft(+, 0, r.body.chunks) <= limits.max_bytes /\ res.ok.state.hash = {r.body.hash}
     /\ IsOk(res) /\ res.ok.kind = "unchanged" => r.status = 304 \/ state.hash = {r.body.hash}
     /\ ~IsOk(res) /\ res.err = "Rejected" => r.status \in 400..499 \ {408, 429}
SourceFetched(world, src, state, limits, got) ==
  HopsBounded(world, src.url, limits.policy, limits.max_redirects, got.asked) /\ (got.asked # <<>> => AnswerBounded(world, got, state, limits))

\* An url a tenant submits is fetched under the same bounds, without credentials.
RefFetched(world, r, policy, max, got) ==
  /\ HopsBounded(world, r.url, policy, max, got.asked)
  /\ IsOk(got.result) => got.result.ok.body = world.web[Last(got.asked).url].body
  /\ ~IsOk(got.result) /\ got.result.err = "Rejected" => world.web[Last(got.asked).url].status \in 400..499 \ {408, 429}

-----------------------------------------------------------------------------
(* Objects a tenant names.  A uri is [scheme, user, host, path].           *)

S3Schemes == {"s3", "s3a"}
AzureSchemes == {"az", "adl", "azure", "abfs", "abfss"}
OBJECT_REF_SCHEMES == S3Schemes \cup AzureSchemes \cup {"gs"}

check_object_ref(uri) ==
  CASE uri.scheme = "" -> "Url"
    [] uri.scheme # "" /\ (uri.scheme \notin OBJECT_REF_SCHEMES \/ uri.host = "") -> "Blocked"
    [] OTHER -> "ok"

Lower(name) == IF name = "OWN" THEN "own" ELSE name

bucket_of(uri) ==
  LET provider == CASE uri.scheme \in S3Schemes -> {"S3"} [] uri.scheme = "gs" -> {"Gcs"} [] uri.scheme \in AzureSchemes -> {"Azure"} [] OTHER -> {}
      name == IF provider = {"Azure"} /\ uri.user # "" THEN uri.user ELSE uri.host
  IN IF name = "" THEN {} ELSE {[provider |-> p, name |-> Lower(name)] : p \in provider}

\* ObjectRefPolicy::parse: the flag must be one of the words, the list holds names and no uris.
ObjectRefPolicy(ambient, buckets) ==
  LET names == ToSet(buckets) \ {""}
  IN IF ambient \notin {"", "0", "1", "false", "true"} \/ "s3://b" \in names THEN Err("Config")
     ELSE Ok([ambient_credentials |-> ambient \in {"1", "true"}, buckets |-> IF buckets = <<>> THEN {} ELSE {{Lower(n) : n \in names}}])

aws_custom_endpoint(env) == \E k \in DOMAIN env \cap {"AWS_ENDPOINT", "AWS_ENDPOINT_URL", "AWS_ENDPOINT_URL_S3"} : env[k] # ""

\* What is asked of the provider: where, and signed or not.  A plain http store has no bucket.
cloud_store(uri, env, anonymous, region) ==
  [provider |-> IF bucket_of(uri) = {} THEN "Http" ELSE Only(bucket_of(uri)).provider,
   region |-> IF region # {} THEN region ELSE Get(env, "AWS_REGION"), signed |-> ~anonymous, path |-> uri.path]

tenant_store(uri, bucket, ambient, env, regions) ==
  cloud_store(uri, env, ~ambient, IF bucket.provider = "S3" /\ ~aws_custom_endpoint(env) THEN Get(regions, bucket.name) ELSE {})

\* BlobStore::from_url and with_object_ref_policy; the bucket of a store reached over http is not known.
from_url(uri, policy) == [own_bucket |-> IF uri.scheme \in {"memory", "file"} THEN {} ELSE bucket_of(uri), object_refs |-> policy]

authorize(blob, uri) ==
  LET bucket == bucket_of(uri)
  IN CASE check_object_ref(uri) # "ok" -> Err(check_object_ref(uri))
       [] check_object_ref(uri) = "ok" /\ (blob.own_bucket = bucket \/ \E b \in blob.object_refs.buckets : Only(bucket).name \notin b) -> Err("Blocked")
       [] OTHER -> Ok(Only(bucket))

\* The S3 branch of fetch_ref up to the request.
fetch_object(blob, uri, env, regions) ==
  LET bucket == authorize(blob, uri)
  IN IF ~IsOk(bucket) THEN bucket ELSE Ok(tenant_store(uri, bucket.ok, blob.object_refs.ambient_credentials, env, regions))

\* An object a tenant names is never in the store's own bucket nor outside the list of
\* the deployment, and it is read with the deployment's credentials only when it said so.
ObjectAllowed(own, policy, uri, got) ==
  IsOk(policy) /\ IsOk(got) =>
    /\ uri.scheme \in OBJECT_REF_SCHEMES /\ bucket_of(uri) # {} /\ bucket_of(uri) # bucket_of(own)
    /\ \A names \in policy.ok.buckets : Only(bucket_of(uri)).name \in names
    /\ got.ok.signed = policy.ok.ambient_credentials
=============================================================================
