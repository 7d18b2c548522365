------------------------------ MODULE Documents ------------------------------
(***************************************************************************)
(* The documents that flow between the steps of a pipeline and what a step *)
(* takes and gives (plugin-sdk/src/types.rs), as operators.                *)
(*                                                                         *)
(* A text is a sequence of words; a key is the sequence of its parts       *)
(* between dots.  A JSON value is a scalar [t, w], an array [t, items] or  *)
(* an object [t, kv], kv in key order.  The fields of a document are a     *)
(* function of the key (serde_json's Map; its order is left out).  An      *)
(* optional value is a set of at most one element; a Result is [ok |-> x]  *)
(* or [err |-> the PluginError].                                           *)
(***************************************************************************)
EXTENDS Integers, Sequences, FiniteSets, SequencesExt, TLC

Ok(x) == [ok |-> x]
Err(e) == [err |-> e]
IsOk(r) == "ok" \in DOMAIN r

Scalar(t, w) == [t |-> t, w |-> w]
Null == Scalar("null", <<>>)
Str(w) == Scalar("str", w)
Num(w) == Scalar("num", w)
Arr(items) == [t |-> "arr", items |-> items]
Obj(kv) == [t |-> "obj", kv |-> kv]
KV(k, v) == [k |-> k, v |-> v]

Only(s) == CHOOSE x \in s : TRUE
Opt(s, d) == IF s # {} THEN Only(s) ELSE d
NonEmpty(w) == {w} \ {<<>>}
Map(op(_), s) == [i \in DOMAIN s |-> op(s[i])]
Prefix(s, limit) == IF limit = {} \/ Len(s) <= Only(limit) THEN s ELSE SubSeq(s, 1, Only(limit))

\* serde_json's Map: insert replaces the value of a key that is there.
NoFields == <<>>
Insert(fields, k, v) == (k :> v) @@ fields
Get(fields, k) == {fields[x] : x \in DOMAIN fields \cap {k}}
Without(fields, ks) == [k \in DOMAIN fields \ ks |-> fields[k]]
InsertAll(kv) == FoldLeft(LAMBDA f, e : Insert(f, e.k, e.v), NoFields, kv)

\* ctx.check_cancelled(): the flag is up from the stop-th check on.
Never == 99
Cancellable(stop, checks, r) == IF stop <= checks THEN Err("Cancelled") ELSE r

-----------------------------------------------------------------------------
(* Documents and their ids. *)

MaxId == 6                  \* stands for the 511 bytes of an id
Unsafe == {" ", "/", "."}   \* the words that are no [a-zA-Z0-9_-]

sanitize_id(w) ==
  LET safe == [i \in DOMAIN w |-> IF w[i] \in Unsafe THEN "_" ELSE w[i]]
  IN Prefix(IF safe = <<>> THEN <<"uuid">> ELSE safe, {MaxId})

\* A file name is [dir, stem, ext]: the folders stay in the stem, the extension goes.
filename_id_stem(name) ==
  UNION {IF n.stem = <<>> THEN {} ELSE {sanitize_id(IF n.dir = <<>> THEN n.stem ELSE n.dir \o <<"/">> \o n.stem)} : n \in name}

Document(id, title, content, fields) == [id |-> id, title |-> title, content |-> content, fields |-> fields]
with_id(id, content) == Document(sanitize_id(id), {}, content, NoFields)

\* What Meilisearch gets: a field may replace the title, but not the id, the content or _meta.
Reserved == {<<"id">>, <<"content">>, <<"_meta">>}
to_index_json(d) ==
  Without(d.fields, Reserved)
    @@ InsertAll(<<KV(<<"id">>, Str(d.id)), KV(<<"content">>, Str(d.content)), KV(<<"_meta">>, Null)>>)
    @@ (IF d.title = {} THEN NoFields ELSE <<"title">> :> Str(Only(d.title)))

-----------------------------------------------------------------------------
(* What a plugin receives and returns.  Bytes, a reference and nothing at  *)
(* all have no documents to look at.                                       *)

Bytes(blob) == [kind |-> "bytes", blob |-> blob]
Documents(docs) == [kind |-> "documents", docs |-> docs]
Many(outs) == [kind |-> "many", outs |-> outs]
Indexed(n) == [kind |-> "indexed", count |-> n]
Empty == [kind |-> "empty"]

into_bytes(input) == IF input.kind = "bytes" THEN Ok(input.blob) ELSE Err("InvalidInput")

\* The documents of an input or of an output, the branches of a fan-out one after the other.
RECURSIVE into_documents(_)
into_documents(x) ==
  CASE x.kind = "documents" -> Ok(x.docs)
    [] x.kind \in {"indexed", "empty"} -> Ok(<<>>)
    [] x.kind = "many" -> LET each == Map(into_documents, x.outs)
                          IN IF \A i \in DOMAIN each : IsOk(each[i])
                             THEN Ok(FlattenSeq([i \in DOMAIN each |-> each[i].ok])) ELSE Err("InvalidInput")
    [] OTHER -> Err("InvalidInput")

RECURSIVE document_count(_)
document_count(x) ==
  CASE x.kind = "documents" -> Len(x.docs)
    [] x.kind = "indexed" -> x.count
    [] x.kind = "many" -> FoldLeft(LAMBDA n, o : n + document_count(o), 0, x.outs)
    [] OTHER -> 0

\* An output becomes the next step's input: the indexer's report is nothing to work on.
input_from(output) == IF output.kind = "indexed" THEN Empty ELSE output
=============================================================================
