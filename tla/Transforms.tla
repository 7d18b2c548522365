------------------------------ MODULE Transforms ------------------------------
(***************************************************************************)
(* The plugins that work on documents alone: chunker and document_script.  *)
(*                                                                         *)
(* The content the chunker cuts is a sequence of characters [c, at]: c     *)
(* tells blanks, line ends and full stops from the rest, at is the place   *)
(* in the text, 0 for a separator the chunker adds.  The rhai engine is    *)
(* external: a run of the script on a document is an error, or the map it  *)
(* leaves in `doc` (nothing when `doc` is no map any more) and its value.  *)
(***************************************************************************)
EXTENDS Documents

Char(c, at) == [c |-> c, at |-> at]
Blank(ch) == ch.c \in {" ", "\n"}
Min2(a, b) == IF a < b THEN a ELSE b
Max2(a, b) == IF a > b THEN a ELSE b

trim_start(s) == LET ink == {i \in DOMAIN s : ~Blank(s[i])}
                 IN IF ink = {} THEN <<>> ELSE SubSeq(s, CHOOSE i \in ink : \A j \in ink : i <= j, Len(s))
trim(s) == Reverse(trim_start(Reverse(trim_start(s))))

\* Windows of at most size characters from start on, as pairs (first, last).
RECURSIVE fixed_ranges(_, _, _, _)
fixed_ranges(s, start, size, overlap) ==
  IF start >= Len(s) THEN <<>>
  ELSE IF Len(s) - start <= size THEN <<<<start + 1, Len(s)>>>>
  ELSE LET end == start + size
           lower == Min2(start + Max2(size \div 2, overlap + 1), end)
           cuts == {i \in lower..end : i > start /\ Blank(s[i])}
           cut == IF cuts = {} THEN end ELSE CHOOSE i \in cuts : \A j \in cuts : i >= j
       IN <<<<start + 1, cut>>>> \o fixed_ranges(s, cut - overlap, size, overlap)

push_unit(units, cur) == units \o (IF trim(cur) = <<>> THEN <<>> ELSE <<trim(cur)>>)

\* One pass over the text: a unit ends where Ends says so.
Units(s, Dropped(_), Ends(_)) ==
  LET step(a, i) == LET cur == IF Dropped(i) THEN a.cur ELSE Append(a.cur, s[i])
                    IN IF Ends(i) THEN [units |-> push_unit(a.units, cur), cur |-> <<>>] ELSE [a EXCEPT !.cur = cur]
      all == FoldLeft(step, [units |-> <<>>, cur |-> <<>>], [i \in DOMAIN s |-> i])
  IN push_unit(all.units, all.cur)

split_sentences(s) ==
  Units(s, LAMBDA i : s[i].c = "\n",
        LAMBDA i : s[i].c = "\n" \/ (s[i].c = "." /\ (i = Len(s) \/ Blank(s[i + 1]))))

\* A line end that is followed by a blank line ends the paragraph.
split_paragraphs(s) ==
  LET LineBlank(i) == LET ends == {j \in (i + 1)..Len(s) : s[j].c = "\n"}
                          last == IF ends = {} THEN Len(s) ELSE (CHOOSE j \in ends : \A k \in ends : j <= k) - 1
                      IN \A j \in (i + 1)..last : Blank(s[j])
  IN Units(s, LAMBDA i : FALSE, LAMBDA i : s[i].c = "\n" /\ LineBlank(i))

cap_units(units, size) ==
  FlattenSeq(Map(LAMBDA u : IF Len(u) <= size THEN <<u>>
                            ELSE SelectSeq(Map(LAMBDA r : trim(SubSeq(u, r[1], r[2])), fixed_ranges(u, 0, size, 0)), LAMBDA p : p # <<>>), units))

\* The end of a text, from a word boundary on.
tail_overlap(s, overlap) ==
  IF overlap = 0 THEN <<>>
  ELSE IF Len(s) <= overlap THEN s
  ELSE LET start == Len(s) - overlap
           blanks == {i \in (start + 1)..Len(s) : Blank(s[i])}
       IN IF Blank(s[start]) THEN trim_start(SubSeq(s, start + 1, Len(s)))
          ELSE IF blanks = {} THEN <<>>
          ELSE trim_start(SubSeq(s, CHOOSE i \in blanks : \A j \in blanks : i <= j, Len(s)))

\* What the next chunk takes over from the last one, so that the unit still fits.
SeedWhole(last, unit, sep, size, overlap) == tail_overlap(last, overlap)
Seed(last, unit, sep, size, overlap) ==
  LET prefix == tail_overlap(last, overlap)
      budget == Max2(0, size - (Len(unit) + Len(sep)))
  IN IF Len(prefix) > budget THEN tail_overlap(prefix, budget) ELSE prefix

pack_units(units, sep, size, overlap) ==
  LET step(a, unit) ==
        LET joined == IF a.cur = <<>> THEN Len(unit) ELSE Len(a.cur) + Len(sep) + Len(unit)
            full == a.units > 0 /\ joined > size
            seed == IF full THEN Seed(a.cur, unit, sep, size, overlap) ELSE a.cur
        IN [chunks |-> IF full THEN Append(a.chunks, [text |-> a.cur, overlap_len |-> a.overlap_len]) ELSE a.chunks,
            overlap_len |-> IF full THEN Len(seed) ELSE a.overlap_len,
            cur |-> (IF seed = <<>> THEN <<>> ELSE seed \o sep) \o unit, units |-> 1]
      all == FoldLeft(step, [chunks |-> <<>>, cur |-> <<>>, overlap_len |-> 0, units |-> 0], units)
  IN all.chunks \o (IF all.units > 0 THEN <<[text |-> all.cur, overlap_len |-> all.overlap_len]>> ELSE <<>>)

merge_short_tail(chunks, sep, min) ==
  LET texts == Map(LAMBDA c : c.text, chunks)
      last == chunks[Len(chunks)]
      fresh == trim_start(SubSeq(last.text, last.overlap_len + 1, Len(last.text)))
      merged == [SubSeq(texts, 1, Len(texts) - 1) EXCEPT ![Len(texts) - 1] = IF fresh = <<>> THEN @ ELSE @ \o sep \o fresh]
  IN IF Len(chunks) >= 2 /\ Len(last.text) < min THEN merged ELSE texts

Sep(strategy) == IF strategy = "sentence" THEN <<Char(" ", 0)>> ELSE <<Char("\n", 0), Char("\n", 0)>>

chunk_text(content, cfg) ==
  LET text == trim(content)
      ranges == fixed_ranges(text, 0, cfg.chunk_size, cfg.overlap)
      n == Len(ranges)
      short == n >= 2 /\ ranges[n][2] - ranges[n][1] + 1 < cfg.min_chunk_size
      merged == IF short THEN Append(SubSeq(ranges, 1, n - 2), <<ranges[n - 1][1], ranges[n][2]>>) ELSE ranges
      units == cap_units(IF cfg.strategy = "sentence" THEN split_sentences(text) ELSE split_paragraphs(text), cfg.chunk_size)
  IN IF text = <<>> THEN <<>>
     ELSE IF Len(text) <= cfg.chunk_size THEN <<text>>
     ELSE IF cfg.strategy = "fixed"
          THEN SelectSeq(Map(LAMBDA r : trim(SubSeq(text, r[1], r[2])), merged), LAMBDA c : c # <<>>)
          ELSE merge_short_tail(pack_units(units, Sep(cfg.strategy), cfg.chunk_size, cfg.overlap), Sep(cfg.strategy), cfg.min_chunk_size)

chunk_document(parent, cfg) ==
  LET chunks == chunk_text(parent.content, cfg)
  IN [i \in DOMAIN chunks |->
        Document(parent.id \o <<"_", ToString(i - 1)>>, IF cfg.keep_parent_fields THEN parent.title ELSE {}, chunks[i],
                 IF cfg.keep_parent_fields THEN parent.fields ELSE NoFields)]

document_from_text(blob) ==
  IF blob.data = {} THEN Err("InvalidInput") ELSE Ok(with_id(Opt(filename_id_stem(blob.filename), <<>>), Only(blob.data)))

chunker_execute(stop, input, cfg) ==
  LET one == document_from_text(input.blob)
      docs == IF input.kind = "bytes" THEN (IF IsOk(one) THEN Ok(<<one.ok>>) ELSE one) ELSE into_documents(input)
  IN IF ~IsOk(docs) THEN docs
     ELSE Cancellable(stop, Len(docs.ok), Ok(FlattenSeq(Map(LAMBDA d : chunk_document(d, cfg), docs.ok))))

-----------------------------------------------------------------------------
(* document_script.  NotFinite is a float that JSON does not have, NotJson *)
(* a rhai value that is no JSON at all.                                    *)

NotFinite == Scalar("nan", <<"nan">>)
NotJson == Scalar("fn", <<"fn">>)

to_scope_map(d) ==
  (<<"id">> :> Str(d.id)) @@ (<<"content">> :> Str(d.content)) @@ (<<"title">> :> IF d.title = {} THEN Null ELSE Str(Only(d.title)))
    @@ (<<"fields">> :> Obj(SetToSeq({KV(k, d.fields[k]) : k \in DOMAIN d.fields})))

RECURSIVE Holds(_, _)
Holds(v, bad) == \/ v = bad
                 \/ v.t = "obj" /\ \E i \in DOMAIN v.kv : Holds(v.kv[i].v, bad)
                 \/ v.t = "arr" /\ \E i \in DOMAIN v.items : Holds(v.items[i], bad)
reject_non_finite(map) == \E k \in DOMAIN map : Holds(map[k], NotFinite)
dynamic_to_json(v) == IF Holds(v, NotJson) THEN Err("InvalidInput") ELSE Ok(v)
JsonText(v) == IF v.t = "str" THEN v.w ELSE <<v.t>>

\* Key by key: an error leaves the keys before it written.
from_scope_map(map, d) ==
  LET has(k) == k \in DOMAIN map
      bad(k) == has(k) /\ ~IsOk(dynamic_to_json(map[k]))
      withId == IF has(<<"id">>) THEN [d EXCEPT !.id = sanitize_id(JsonText(map[<<"id">>]))] ELSE d
      withTitle == [withId EXCEPT !.title = IF ~has(<<"title">>) \/ map[<<"title">>] = Null THEN {} ELSE {JsonText(map[<<"title">>])}]
      withContent == IF ~has(<<"content">>) THEN withTitle
                     ELSE [withTitle EXCEPT !.content = IF map[<<"content">>] = Null THEN <<>> ELSE JsonText(map[<<"content">>])]
      withFields == [withContent EXCEPT !.fields = IF has(<<"fields">>) THEN InsertAll(map[<<"fields">>].kv) ELSE NoFields]
  IN CASE reject_non_finite(map) \/ bad(<<"id">>) -> [doc |-> d, ok |-> FALSE]
       [] bad(<<"title">>) -> [doc |-> withId, ok |-> FALSE]
       [] bad(<<"content">>) -> [doc |-> withTitle, ok |-> FALSE]
       [] bad(<<"fields">>) \/ (has(<<"fields">>) /\ map[<<"fields">>].t # "obj") -> [doc |-> withContent, ok |-> FALSE]
       [] OTHER -> [doc |-> withFields, ok |-> TRUE]

\* script is [compiles, effect]: what the engine does with a document.  A document that
\* takes too many operations or too long is stopped with an error.
Runner_run(script, d) ==
  LET effect == script.effect[to_scope_map(d)[<<"id">>].w]
      back == from_scope_map(Only(effect.doc), d)
  IN IF effect.error \/ effect.doc = {} THEN [doc |-> d, verdict |-> "Err"]
     ELSE [doc |-> back.doc, verdict |-> IF ~back.ok THEN "Err" ELSE IF effect.returns_false THEN "Drop" ELSE "Keep"]

script_execute(stop, input, cfg) ==
  LET docs == into_documents(input)
      runs == Map(LAMBDA d : Runner_run(cfg.script, d), docs.ok)
      kept(r) == r.verdict = "Keep" \/ (r.verdict = "Err" /\ cfg.on_error = "keep")
  IN IF ~IsOk(docs) THEN docs
     ELSE IF ~cfg.script.compiles THEN Err("InvalidConfig")
     ELSE Cancellable(stop, IF docs.ok = <<>> THEN 0 ELSE 1,
            IF cfg.on_error = "fail" /\ \E i \in DOMAIN runs : runs[i].verdict = "Err" THEN Err("NonRetryable")
            ELSE Ok(Map(LAMBDA r : r.doc, SelectSeq(runs, kept))))
=============================================================================
