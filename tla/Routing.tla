-------------------------------- MODULE Routing --------------------------------
(***************************************************************************)
(* How a file finds its pipeline and its index: media types                *)
(* (router/src/lib.rs), triggers (plugin-sdk/src/types.rs) and resolution  *)
(* (router/src/lib.rs, control-plane/src/resolver.rs), as operators.       *)
(*                                                                         *)
(* A media type is a pair <<type, subtype>>, a pattern may have "*" in     *)
(* either place, and an optional value is a set of at most one element.    *)
(* A pipeline is a record [uid, tenant, builtin, types, glob, pattern,     *)
(* indexers]; a list of pipelines is a sequence.                           *)
(***************************************************************************)
EXTENDS Integers, Sequences, FiniteSets

OctetStream == <<"application", "octet-stream">>
ZIP  == <<"application", "zip">>
GZIP == <<"application", "gzip">>
TAR  == <<"application", "x-tar">>
M4A  == <<"audio", "mp4">>
CSV  == <<"text", "csv">>
HTML == <<"text", "html">>
DOCX == <<"application", "docx">>

The(s) == CHOOSE x \in s : TRUE
OrElse(s, d) == IF s # {} THEN The(s) ELSE d

\* One spelling per type.  The table's other lines are of the same kind.
canonical_mime(m) ==
  CASE m \in {<<"audio", "m4a">>, <<"audio", "x-m4a">>, <<"audio", "aac">>} -> M4A
    [] m \in {<<"application", "x-zip-compressed">>, <<"multipart", "x-zip">>} -> ZIP
    [] m \in {<<"application", "x-gzip">>, <<"application", "x-tgz">>} -> GZIP
    [] OTHER -> m

is_archive(m) == m \in {ZIP, GZIP, TAR}
is_zip_based_office(m) == m = DOCX

\* detect_mime's evidence: f = [marker, magic, ext, text, hint], each {} or {a type}:
\* the markers of the record formats, the magic bytes, the extension, what the text
\* looks like, and the caller's content type.
usable_hint(h) == {m \in h : m # OctetStream /\ m[1] # "multipart"}

detect_mime_raw(f) ==
  CASE f.marker # {} -> The(f.marker)
    [] f.marker = {} /\ f.magic # {} ->
         IF The(f.magic) = ZIP /\ \E m \in f.ext : is_zip_based_office(m) THEN The(f.ext) ELSE The(f.magic)
    [] f.marker = {} /\ f.magic = {} /\ f.ext # {} -> The(f.ext)
    [] f.marker = {} /\ f.magic = {} /\ f.ext = {} /\ f.text # {} -> The(f.text)
    [] OTHER -> OrElse(usable_hint(f.hint), OctetStream)

detect_mime(f) == canonical_mime(detect_mime_raw(f))

\* The default index of a type; "documents" stands for the deployment's own default.
mime_to_default_index(m) ==
  CASE m[1] = "video" -> "videos"
    [] m[1] = "audio" -> "audio"
    [] m[1] = "image" -> "images"
    [] m = HTML -> "pages"
    [] m = CSV -> "datasets"
    [] OTHER -> "documents"

-----------------------------------------------------------------------------
mime_matches(p, m) == p = <<"*", "*">> \/ (p[2] = "*" /\ p[1] = m[1]) \/ p = m

\* names is the set of file names a glob stands for; a pattern of {} is no pattern.
trigger_matches(p, m, filename) ==
  LET mime_ok == \E ct \in p.types : mime_matches(ct, m)
  IN /\ mime_ok \/ p.types = {}
     /\ IF p.glob = {} THEN mime_ok ELSE filename # {} /\ filename \subseteq p.glob

visible_to(p, tenant) == p.tenant = "" \/ p.tenant = tenant
tier(p) == IF p.builtin THEN 2 ELSE IF p.tenant # "" THEN 0 ELSE 1

\* The first of list, in the order of key, among the positions that satisfy ok.
Before(a, b) == \E i \in 1..Len(a) : a[i] < b[i] /\ \A j \in 1..(i - 1) : a[j] = b[j]
MinByKey(list, ok(_), key(_)) ==
  LET c == {i \in 1..Len(list) : ok(i)}
  IN {list[i] : i \in {i \in c : \A j \in c \ {i} : Before(key(i), key(j))}}

\* PipelineRouter::resolve and by_uid: {} or {the pipeline}.
RouterResolve(list, m, filename, tenant) ==
  MinByKey(list, LAMBDA i : visible_to(list[i], tenant) /\ trigger_matches(list[i], m, filename),
                 LAMBDA i : <<tier(list[i]), IF list[i].glob # {} THEN 0 ELSE 1, i>>)

RouterByUid(list, uid, tenant) ==
  MinByKey(list, LAMBDA i : list[i].uid = uid /\ visible_to(list[i], tenant), LAMBDA i : <<tier(list[i]), i>>)

\* POST /internal/resolve: the tenant's and the global pipelines, then the built-ins; a
\* built-in uid is looked up among the built-ins only.
scope_pipelines(all, tenant) == SelectSeq(all, LAMBDA p : visible_to(p, tenant))

resolve(all, builtins, m, filename, tenant, uid) ==
  LET list == scope_pipelines(all, tenant) \o builtins
  IN CASE uid = {} -> RouterResolve(list, m, filename, tenant)
       [] uid # {} /\ \E i \in 1..Len(builtins) : {builtins[i].uid} = uid -> RouterByUid(builtins, The(uid), tenant)
       [] OTHER -> RouterByUid(list, The(uid), tenant)

-----------------------------------------------------------------------------
(* Where a pipeline writes.  indexers is the sequence of its meili_indexer *)
(* steps, each [connection, index], optional both.                         *)

Indexers(p) == {p.indexers[i] : i \in 1..Len(p.indexers)}
pins_destination(p) == p.indexers # <<>> /\ \A s \in Indexers(p) : s.connection # {}
step_indexes(p) == UNION {s.index : s \in Indexers(p)}
fixed_index(p) ==
  IF p.indexers # <<>> /\ Cardinality(step_indexes(p)) = 1 /\ \A s \in Indexers(p) : s.index # {}
  THEN step_indexes(p) ELSE {}
=============================================================================
