------------------------------ MODULE MCPlugins ------------------------------
(***************************************************************************)
(* The plugins on small inputs: a step x (its plugin, its config, its      *)
(* input and the check at which a cancel is seen) and its result.          *)
(***************************************************************************)
EXTENDS Integers, Sequences, FiniteSets

INSTANCE Records
Configs == INSTANCE PluginConfigs
T == INSTANCE TextSections
X == INSTANCE Transforms
E == INSTANCE Enrichers
M == INSTANCE Media

VARIABLES x, out

-----------------------------------------------------------------------------
(* Records. *)

s1 == Str(<<"u">>)
s2 == Str(<<"v", "/">>)
n1 == Num(<<"7">>)
one(k, v) == Obj(<<KV(k, v)>>)
Values == {s1, Null, Obj(<<>>), one(<<"id">>, s2), one(<<"a">>, s1), one(<<"a">>, one(<<"b">>, s2)), one(<<"a">>, Arr(<<s1, n1>>)),
           one(<<"a">>, Arr(<<one(<<"b">>, s1), s2>>)),
           Obj(<<KV(<<"a">>, one(<<"b">>, s1)), KV(<<"a", "b">>, s2)>>), Obj(<<KV(<<"a">>, n1), KV(<<"id">>, one(<<"c">>, s1))>>)}
Name(stem) == {[dir |-> <<>>, stem |-> stem]}
Names == {{}, Name(<<"f">>), {[dir |-> <<"d">>, stem |-> <<"f", " ">>]}, Name(<<"a", "b", "c", "d", "e", "f", "g">>)}
FlattenCfg == [id_field : {<<"id">>, <<"a", "b">>}, content_fields : {{}, {<<<<"a">>, <<"a", "b">>, <<"a">>>>}}, title_field : {{}, {<<"a">>}},
               flatten_arrays : BOOLEAN, max_depth : {1, 2}, max : {{}}, columns : {{}}]
PlainCfg == [id_field |-> <<"id">>, content_fields |-> {}, title_field |-> {}, flatten_arrays |-> FALSE, max_depth |-> 8, max |-> {}, columns |-> {}]
Limited(Cs) == {[PlainCfg EXCEPT !.max = m, !.columns = c] : m \in {{}, {1}, {2}}, c \in Cs}
Step(p, data, names, cfgs, stops) ==
  [plugin : {p}, input : {Bytes([data |-> d, filename |-> n]) : d \in data, n \in names}, cfg : cfgs, stop : stops]

line(v) == [blank |-> FALSE, v |-> v]
JsonData == {[single |-> {v}, utf8 |-> TRUE, lines |-> <<line({v})>>] : v \in Values \cup {Arr(<<s1, s2>>), one(<<"items">>, Arr(<<n1>>)), one(<<"data">>, s1)}}
            \cup {[single |-> {}, utf8 |-> u, lines |-> <<line({v}), [blank |-> TRUE, v |-> {}], w>>]
                    : u \in BOOLEAN, v \in Values, w \in {line({}), line({s2}), line({one(<<"id">>, s2)})}}
            \cup {[single |-> {}, utf8 |-> TRUE, lines |-> <<>>]}
Fields == {InsertAll(<<KV(<<"a">>, v)>>) : v \in Values} \cup {NoFields, InsertAll(<<KV(<<"a">>, s1), KV(<<"id">>, s2)>>)}
Docs == {Document(<<"d">>, {<<"t">>}, <<"w">>, f) : f \in Fields}
Inputs == {Documents(<<d>>) : d \in Docs} \cup {Many(<<Documents(<<d>>), Indexed(1), Empty>>) : d \in Docs} \cup {Empty, Many(<<[kind |-> "ref"]>>)}
Json == Step("json", JsonData, Names, {PlainCfg}, {1, 2, Never}) \cup Step("json", JsonData, {Name(<<"f">>)}, FlattenCfg, {Never}) \cup
        {[plugin |-> "json", input |-> i, cfg |-> c, stop |-> Never] : i \in Inputs, c \in FlattenCfg}

mp(v) == IF v.t = "obj" THEN [t |-> "map", entries |-> [i \in DOMAIN v.kv |-> KV(Str(v.kv[i].k), v.kv[i].v)]] ELSE v
Packed == {mp(v) : v \in {u \in Values : u.t = "obj" => \A i \in DOMAIN u.kv : is_scalar(u.kv[i].v)}}
          \cup {[t |-> "map", entries |-> <<KV(n1, s1), KV(Str(<<"7">>), [t |-> "bin", w |-> <<"b">>]), KV(Arr(<<n1>>), [t |-> "time", w |-> <<"t">>])>>],
                Arr(<<s1, [t |-> "nan", w |-> <<"i">>]>>)}
Msgpack == Step("msgpack", {<<>>, <<{}>>} \cup {<<{v}>> : v \in Packed} \cup {<<{v}, w>> : v \in Packed, w \in {{}, {s2}}}, Names, Limited({{}}), {1, 2, Never})

dec(u) == [t |-> "decimal", unscaled |-> u]
AvroSchema == [t |-> "record", fields |-> InsertAll(<<KV(<<"a">>, [t |-> "decimal", scale |-> 2]), KV(<<"b">>, [t |-> "union", variants |-> <<[t |-> "null"], [t |-> "decimal", scale |-> 1]>>])>>)]
AvroRecs == {[t |-> "record", kv |-> <<KV(<<"a">>, v), KV(<<"b">>, w)>>]
               : v \in {dec(-5), dec(123), s1}, w \in {dec(7), [t |-> "union", index |-> 2, value |-> dec(10)], [t |-> "union", index |-> 3, value |-> dec(4)], [t |-> "arr", items |-> <<dec(1)>>]}}
Avro == Step("avro", {[readable |-> r, schema |-> AvroSchema, records |-> <<{v}, w>>] : r \in BOOLEAN, v \in AvroRecs, w \in {{}, {s1}}}, {{}, Name(<<"f">>)}, Limited({{}}), {1, 2, 3, Never})

ParquetRows == <<Obj(<<KV(<<"a">>, one(<<"b">>, s1)), KV(<<"id">>, s2)>>), Obj(<<KV(<<"a">>, Obj(<<KV(<<"b">>, s1), KV(<<"c">>, n1)>>))>>), one(<<"id">>, n1)>>
Parquet == Step("parquet", {[marker |-> m, readable |-> r, columns |-> {<<"a", "b">>, <<"a", "c">>, <<"id">>}, batches |-> b]
                             : m \in BOOLEAN, r \in BOOLEAN, b \in {<<{ParquetRows}>>, <<{ParquetRows}, {ParquetRows}>>, <<{ParquetRows}, {}>>, <<>>}},
                {Name(<<"f">>)}, Limited({{}, {<<<<"a">>>>}, {<<<<"a", "b">>>>}, {<<<<"z">>>>}}), {1, 2, 3, Never})

cell(w, form) == [w |-> w, form |-> form]
Cells == {cell(<<>>, "text"), cell(<<"u", " ">>, "text"), cell(<<"7">>, "int")}
Tables == {[head |-> h, rows |-> <<{<<c, d>>}, r>>] : h \in {<<<<"a">>, <<"b">>>>, <<<<"a">>, <<"a">>>>, <<<<>>, <<"_row">>>>}, c \in Cells, d \in Cells, r \in {{}, {<<cell(<<"u", " ">>, "text")>>}, {<<>>}}}
CsvCfg == [delimiter : {{}, {";"}}, has_headers : BOOLEAN, id_column : {{}, {<<"a">>}, {col(1)}}, content_columns : {{}, {<<<<"b">>>>}}, max : {{}, {1}}]
Csv == Step("csv", {[counts |-> [d \in {",", ";"} |-> IF d = ";" THEN n ELSE 1], table |-> [d \in {",", ";"} |-> t]] : n \in {0, 2}, t \in Tables}, {{}, Name(<<"f">>)}, CsvCfg, {1, 2, Never})

XCells == {[t |-> "empty", w |-> <<>>], [t |-> "error", w |-> <<"e">>], s1, n1}
Sheets == {[name |-> n, rows |-> r] : n \in {<<"p">>, <<"p", " ">>, <<"p", "_">>}, r \in {{}, {<<>>}} \cup {{<<<<s1, s2>>, <<c, d>>>>} : c \in XCells, d \in XCells}}
Xlsx == Step("xlsx", {{}} \cup {{<<[name |-> <<"p", "/">>, rows |-> {<<<<s1>>, <<s2>>, <<n1>>>>}], s>>} : s \in Sheets}, {{}, Name(<<"f">>)},
             [mode : {"row", "sheet"}, has_headers : BOOLEAN, sheets : {{}, {{<<"p">>}}}, max : {{}, {1}}], {2, Never})

-----------------------------------------------------------------------------
(* Formatted text: every word names its piece and its place.               *)

Kinds(S) == UNION {[1..n -> S] : n \in 0..3}
w(k, i) == <<k, ToString(i)>>
para(style, i) == [n |-> "paragraph", style |-> style, children |-> <<[n |-> "run", w |-> w(style, i)], [n |-> "delete", w |-> <<"gone">>]>>]
DocxNode(k, i) == CASE k = "table" -> [n |-> "table", children |-> <<<<<<para("table", i)>>, <<>>>>>>]
                    [] k = "sdt" -> [n |-> "sdt", children |-> <<para("sdt", i)>>]
                    [] k = "blank" -> [n |-> "paragraph", style |-> "heading", children |-> <<>>]
                    [] OTHER -> para(k, i)
DocxKinds == {"none", "heading", "title", "table", "sdt", "blank"}
Docx == Step("docx", {{}} \cup {{[title |-> t, body |-> [i \in DOMAIN ks |-> DocxNode(ks[i], i)], kinds |-> ks]} : t \in {{}, {<<"core">>}}, ks \in Kinds(DocxKinds)},
             {{}, Name(<<"f">>)}, [split_on_headings : BOOLEAN], {2, Never})

ev(e) == [e |-> e]
Events(k, i) == CASE k \in {1, 2} -> <<[e |-> "heading", level |-> k], [e |-> "text", w |-> w(ToString(k), i)], [e |-> "end_heading", level |-> k]>>
                  [] k = 3 -> <<[e |-> "text", w |-> w("p", i)], ev("html")>>
                  [] k = 4 -> <<[e |-> "list", start |-> {1}], ev("item"), [e |-> "list", start |-> {}], ev("item"), [e |-> "text", w |-> w("p", i)], ev("end_list"), ev("item"), ev("end_list")>>
                  [] k = 5 -> <<[e |-> "heading", level |-> 1], [e |-> "end_heading", level |-> 1]>>
Front1 == {{}, {[yaml |-> {}]}, {[yaml |-> {InsertAll(<<KV(<<"title">>, s1), KV(<<"a">>, n1)>>)}]}}
MdFile(ks, f) == LET evs == FlattenSeq([i \in DOMAIN ks |-> Events(ks[i], i)])
                 IN [front |-> f, kinds |-> ks, events |-> evs, raw |-> IF f = {} THEN evs ELSE <<[e |-> "text", w |-> <<"fm">>]>> \o evs]
Markdown == Step("markdown", {MdFile(ks, f) : ks \in Kinds(1..5), f \in Front1}, {Name(<<"f">>)},
                 [split_on_headings : BOOLEAN, heading_level : {1, 2}, front_matter : BOOLEAN], {1, Never})

el(n, children) == [n |-> n, href |-> <<>>, children |-> children]
txt(t) == [n |-> "text", w |-> <<t>>]
HtmlBodies == {<<txt("b")>>, <<el("main", <<el("h1", <<txt("h")>>), el("nav", <<txt("n")>>), txt("m")>>), txt("b")>>, <<el("article", <<txt("m")>>), el("article", <<el("main", <<>>)>>)>>,
               <<[el("a", <<txt("l")>>) EXCEPT !.href = <<"u">>], [el("a", <<>>) EXCEPT !.href = <<"u">>], el("header", <<el("h1", <<txt("n")>>)>>)>>, <<>>}
HtmlDocs == {el("html", <<el("title", t), el("body", b)>>) : t \in {<<>>, <<txt("t")>>}, b \in HtmlBodies} \cup {el("html", b) : b \in HtmlBodies}
Html == Step("html", {[doc |-> d, description |-> m] : d \in HtmlDocs, m \in {{}, {<<"d">>}}}, {{}}, [extract_links : BOOLEAN, include_meta_description : BOOLEAN], {2, Never})

Pdf == Step("pdf", {{}} \cup {{[pages |-> [i \in DOMAIN ps |-> IF ps[i] THEN <<>> ELSE w("p", i)], counted |-> n]} : ps \in Kinds(BOOLEAN), n \in {0, 3}},
            {Name(<<"f">>)}, [per_page : BOOLEAN, max_pages : {{}, {0}, {1}, {2}}], {1, 3, Never})

Xml(k, i) == <<[e |-> "sp"], [e |-> "ph", type |-> k], [e |-> "p"], [e |-> "t"], [e |-> "text", w |-> w("s", i)], [e |-> "end_t"], [e |-> "text", w |-> <<"gap">>], [e |-> "end_p"], [e |-> "end_sp"]>>
PptxParts(size) == {[kind |-> "slide", number |-> n, declared |-> 1, size |-> size, xml |-> {Xml({}, n) \o Xml({"title"}, n + 1) \o Xml({"dt"}, n)}] : n \in {2, 9}}
                   \cup {[kind |-> "notes", number |-> 9, declared |-> 1, size |-> 1, xml |-> {Xml({}, 7)}]}
PptxExtra == {[kind |-> "slide", number |-> 10, declared |-> d, size |-> z, xml |-> e] : d \in {2, 3}, z \in {0, 1, 2, 3}, e \in {{}, {<<>>}, {Xml({"ctrtitle"}, 10)}}}
Pptx == Step("pptx", {{}} \cup {{PptxParts(z) \cup p} : z \in {1, 2}, p \in {{}} \cup {{q} : q \in PptxExtra}}, {Name(<<"f">>)},
             [per_slide : BOOLEAN, include_notes : BOOLEAN, notes_in_content : BOOLEAN, skip_empty_slides : BOOLEAN, max_slides : {{}, {2}}], {2, Never})

-----------------------------------------------------------------------------
(* Chunks and scripts. *)

Text(ks) == [i \in DOMAIN ks |-> X!Char(ks[i], i)]
Texts == {Text(ks) : ks \in UNION {[1..n -> {"a", " ", ".", "\n"}] : n \in 0..4} \cup [1..6 -> {"a", " "}] \cup [1..6 -> {"a", "\n"}] \cup {<<"a", " ">> \o t \o <<" ", "a">> : t \in [1..4 -> {"a", " ", "."}]}}
ChunkCfg(keep) == {c \in [strategy : {"sentence", "fixed", "paragraph"}, chunk_size : {2, 3, 4}, overlap : 0..3, min_chunk_size : {0, 3}, keep_parent_fields : {keep}]
                     : c.overlap < c.chunk_size}
Chunker == {[plugin |-> "chunker", input |-> Bytes([data |-> {t}, filename |-> {}]), cfg |-> c, stop |-> Never] : t \in Texts, c \in ChunkCfg(TRUE)}
           \cup {[plugin |-> "chunker", input |-> i, cfg |-> c, stop |-> st] : st \in {2, Never}, c \in ChunkCfg(FALSE),
                   i \in {Empty, Bytes([data |-> {}, filename |-> {}]), Documents(<<Document(<<"d">>, {<<"t">>}, Text(<<"a", "a", "a", " ", "a">>), NoFields), Document(<<"d", "_", "0">>, {}, Text(<<"a", ".">>), NoFields)>>)}}

scope == X!to_scope_map(Document(<<"d">>, {<<"t">>}, <<"c">>, <<"k">> :> n1))
ScriptMaps == {(k :> v) @@ scope : k \in DOMAIN scope \ {<<"fields">>}, v \in {s2, n1, Null, X!NotFinite, X!NotJson}}
              \cup {(<<"fields">> :> v) @@ (<<"id">> :> s2) @@ scope : v \in {Obj(<<KV(<<"k">>, v)>>) : v \in {s1, X!NotFinite, Arr(<<X!NotFinite>>), X!NotJson}} \cup {Null, Arr(<<s1>>)}}
              \cup {Without(scope, {k}) : k \in DOMAIN scope}
Effects == {[error |-> TRUE, doc |-> {}, returns_false |-> FALSE], [error |-> FALSE, doc |-> {}, returns_false |-> FALSE]}
           \cup {[error |-> FALSE, doc |-> {m}, returns_false |-> f] : m \in ScriptMaps, f \in BOOLEAN}
ScriptDocs == <<Document(<<"d">>, {<<"t">>}, <<"c">>, <<"k">> :> n1), Document(<<"e">>, {}, <<"c">>, NoFields)>>
Script == [plugin : {"script"}, input : {Documents(ScriptDocs)}, stop : {1, Never},
           cfg : [on_error : {"fail", "skip", "keep"},
                  script : [compiles : BOOLEAN, effect : {(<<"d">> :> a) @@ (<<"e">> :> b) : a \in Effects, b \in {[error |-> FALSE, doc |-> {scope}, returns_false |-> FALSE], [error |-> TRUE, doc |-> {}, returns_false |-> FALSE]}}]]]

-----------------------------------------------------------------------------
(* Models and sound: the reply to a document names it. *)

Target == [base_url |-> "lab", api_key |-> "k", default_model |-> E!DefaultModel("lab-llm"), decision_model |-> {}, vision_model |-> E!DefaultModel("lab-vision")]
Envs == {<<>>, ("LLM_API_KEY" :> "k") @@ ("TYPESAFE_API_KEY" :> "") , ("LLM_API_KEY" :> "k") @@ ("TYPESAFE_API_KEY" :> "k") @@ ("LLM_BASE_URL" :> "other")}
answer(sent, status, body) == [sent |-> sent, status |-> status, body |-> body]
Bad == {answer(FALSE, 200, {}), answer(TRUE, 200, {})} \cup {answer(TRUE, c, {}) : c \in {400, 401, 402, 403, 429, 503}}
tag(i) == Str(<<ToString(i)>>)
Chat(i) == {answer(TRUE, 200, {[usage |-> u, content |-> c]}) : u \in {{}, {<<i, 1>>}},
              c \in {{}, {[json |-> FALSE, kv |-> <<>>, w |-> <<ToString(i)>>]}, {[json |-> TRUE, kv |-> <<KV(<<"title">>, tag(i)), KV(<<"language">>, tag(i)), KV(<<"k">>, tag(i)), KV(<<"new">>, tag(i))>>, w |-> <<"{">>]}}}
none == [noul |-> {}, choice |-> {}, score |-> {}, confidence |-> {}]
Jev(i) == {answer(TRUE, 200, {[usage |-> {}, answers |-> a]}) : a \in {<<>>, <<"k">> :> none, <<"k">> :> [none EXCEPT !.noul = {i}, !.confidence = {<<ToString(i)>>}], <<"k">> :> [none EXCEPT !.choice = {<<ToString(i)>>}]}}
EDoc(id, title, f) == [id |-> id, title |-> title, content |-> <<"c">>, fields |-> f, language |-> {}]
EDocs == <<EDoc(<<"d">>, {<<"t">>}, <<"k">> :> n1), EDoc(<<"e">>, {}, NoFields), EDoc(<<"f">>, {}, NoFields)>>

\* The orders in which calls may end with max of them under way.
Orders(n, max) == {o \in [1..n -> 1..n] : (\A i, j \in 1..n : o[i] = o[j] => i = j) /\ \A i \in 1..n : o[i] <= i - 1 + max}
Worlds(Good(_), two) == [env : Envs, target : {{}, {Target}}, replies : {<<a, b, c>> : a \in Good(1) \cup Bad, b \in Good(2) \cup two, c \in Good(3)}, order : Orders(3, 2)]
Models == {{}, {[provider |-> "openai", name |-> "m"]}}
LlmCfg == [replace : BOOLEAN, model : Models]
JevCfg == [replace : BOOLEAN, model : {{}}, threshold : {2}, include_confidence : BOOLEAN, questions : {<<[key |-> <<"k">>, type |-> "noul"]>>, <<[key |-> <<"k">>, type |-> "choice"]>>}]
GoodChat(i) == IF i = 3 THEN {answer(TRUE, 200, {[usage |-> {<<3, 1>>}, content |-> {[json |-> TRUE, kv |-> <<KV(<<"new">>, tag(3))>>, w |-> <<>>]}]})} ELSE Chat(i)
GoodJev(i) == IF i = 3 THEN {answer(TRUE, 200, {[usage |-> {}, answers |-> <<"k">> :> [none EXCEPT !.noul = {3}, !.choice = {<<"3">>}]]})} ELSE Jev(i)
Llm == [plugin : {"llm"}, input : {Documents(EDocs)}, cfg : LlmCfg, stop : {2, Never}, world : Worlds(GoodChat, {answer(TRUE, 401, {})})]
JevSteps == [plugin : {"jev"}, input : {Documents(EDocs)}, cfg : JevCfg, stop : {2, Never}, world : Worlds(GoodJev, {answer(TRUE, 529, {})})]
ImageReplies == Bad \cup {answer(TRUE, 200, {[usage |-> {<<1, 1>>}, content |-> {[json |-> j, kv |-> kv, w |-> <<"{">>]}]})
                            : j \in BOOLEAN, kv \in {<<>>, <<KV(<<"caption">>, s1), KV(<<"text_in_image">>, s2)>>, <<KV(<<"caption">>, n1), KV(<<"text_in_image">>, Null)>>}}
Image == [plugin : {"image"}, input : {Bytes([data |-> <<>>, mime |-> m, size |-> z, filename |-> n]) : m \in {"image", "audio"}, z \in {0, 1}, n \in {{}, Name(<<"f", ".">>)}},
          cfg : [json : BOOLEAN, model : Models], stop : {1, Never}, world : [env : Envs, target : {{}, {Target}}, replies : {<<r>> : r \in ImageReplies}]]

Packet == [track : {1, 2}, state : {"ok", "corrupt"}, frames : {2, 5}] \cup {[track |-> 1, state |-> st, frames |-> 0] : st \in {"fatal", "unreadable"}}
VideoFile(m, r, d, dr, ps) ==
  Bytes([mime |-> m, size |-> 1, filename |-> {}, data |-> [readable |-> r, default_track |-> d, tracks |-> {1, 2}, decoder |-> TRUE, declared |-> dr, rate |-> 2, channels |-> 2, packets |-> ps]])
VideoStep(inputs, stops, tracks) == [plugin : {"video"}, stop : stops, input : inputs, cfg : [track : tracks, max_duration_secs : {{}, {2}}, mono : BOOLEAN, sample_rate : {1, 2, 4}]]
Video == VideoStep({VideoFile("video", TRUE, {1}, dr, <<p, q>>) : dr \in {{}, {1}, {2}, {4}}, p \in Packet, q \in Packet}, {Never}, {{}, {2}})
         \cup VideoStep({VideoFile(m, r, d, {2}, <<[track |-> 1, state |-> "ok", frames |-> 5]>>) : m \in {"video", "text"}, r \in BOOLEAN, d \in {{}, {1}}}, 1..4, {{}, {1}, {3}})
Wavs == {[riff |-> r, chunks |-> <<[M!Chunk("fmt", l, l) EXCEPT !.format = f, !.inner = 1, !.byte_rate = b], M!Chunk("data", 6, h)>>] : r \in BOOLEAN, l \in {14, 16, 26}, f \in {1, 2, 3, 65534}, b \in {0, 2}, h \in {4, 6}}
segment(w2) == [text |-> w2, start |-> {<<"0">>}, end |-> {}]
Audio == [plugin : {"audio"}, stop : {1, Never}, cfg : [segment_documents : BOOLEAN, max_bytes : {1}],
          input : {Bytes([mime |-> "audio", size |-> z, filename |-> Name(<<"f">>), data |-> wv]) : z \in {1, 2}, wv \in Wavs},
          world : [env : {<<>>, "LLM_API_KEY" :> "k"}, reply : {answer(TRUE, 429, {}), answer(TRUE, 200, {})} \cup
                     {answer(TRUE, 200, {[text |-> tx, segments |-> sg, duration |-> du]}) : tx \in {{}, {<<"a", "b">>}}, du \in {{}, {<<3, 1>>}}, sg \in {<<>>, <<segment({<<"a">>}), segment({}), segment({<<"b">>})>>}}]]

-----------------------------------------------------------------------------
(* Configs: any one key, or the two that are held against each other. *)

Keys(p) == DOMAIN Configs!Plugins[p][1].keys \cup DOMAIN Configs!Plugins[p][2].keys \cup {"other"}
Base(p) == CASE p = "script" -> "script" :> Configs!JStr(5, FALSE, "ascii")
             [] p = "jev" -> "questions" :> Configs!JQuestions({Configs!Question("q", "noul", "why", 0)})
             [] OTHER -> <<>>
Config(p) == {Base(p), <<>>} \cup {(k :> v) @@ Base(p) : k \in Keys(p), v \in IF p = "jev" THEN Configs!QV ELSE Configs!V}
             \cup (IF p # "chunker" THEN {} ELSE {("overlap" :> Configs!JInt(m)) @@ ("chunk_size" :> Configs!JInt(n)) : m \in {0, 1, 2, 256}, n \in {1, 2, 256}})
InitConfig == \E p \in DOMAIN Configs!Plugins : \E c \in Config(p) : x = [plugin |-> "config", of |-> p, cfg |-> c]

-----------------------------------------------------------------------------
Init == /\ \/ x \in Json \/ x \in Msgpack \/ x \in Avro \/ x \in Parquet \/ x \in Csv \/ x \in Xlsx \/ InitConfig
           \/ x \in Chunker \/ x \in Script \/ x \in Llm \/ x \in JevSteps \/ x \in Image \/ x \in Video \/ x \in Audio
           \/ x \in Docx \/ x \in Markdown \/ x \in Html \/ x \in Pdf \/ x \in Pptx
        /\ out = {}

Run(p, execute(_, _, _)) == x.plugin = p /\ out = {} /\ out' = {execute(x.stop, x.input, x.cfg)} /\ UNCHANGED x

json == Run("json", json_execute)
msgpack == Run("msgpack", msgpack_execute)
avro == Run("avro", avro_execute)
parquet == Run("parquet", parquet_execute)
csv == Run("csv", csv_execute)
xlsx == Run("xlsx", xlsx_execute)
docx == Run("docx", T!docx_execute)
markdown == Run("markdown", T!markdown_execute)
html == Run("html", T!html_execute)
pdf == Run("pdf", T!pdf_execute)
pptx == Run("pptx", T!pptx_execute)
chunker == Run("chunker", X!chunker_execute)
script == Run("script", X!script_execute)
llm == Run("llm", LAMBDA stop, input, cfg : E!llm_execute(stop, input, cfg, x.world))
jev == Run("jev", LAMBDA stop, input, cfg : E!jev_execute(stop, input, cfg, x.world))
image == Run("image", LAMBDA stop, input, cfg : E!image_execute(stop, input, cfg, x.world))
video == Run("video", M!video_execute)
audio == Run("audio", LAMBDA stop, input, cfg : M!audio_execute(stop, input, cfg, x.world))

config == x.plugin = "config" /\ out = {} /\ out' = {<<Configs!SchemaTakes(x.of, x.cfg), Configs!PluginTakes(x.of, x.cfg)>>} /\ UNCHANGED x

Next == config \/ json \/ msgpack \/ avro \/ parquet \/ csv \/ xlsx \/ docx \/ markdown \/ html \/ pdf \/ pptx
        \/ chunker \/ script \/ llm \/ jev \/ image \/ video \/ audio
Spec == Init /\ [][Next]_<<x, out>>

Done(p) == x.plugin \in p /\ out # {}
Result == Only(out)

\* The records of the payload, in the plugins that flatten them.
Roots == CASE x.plugin = "json" -> parse_payload(x.input.blob.data).ok
           [] x.plugin = "msgpack" -> decode_msgpack(x.input.blob.data).ok
           [] x.plugin = "avro" -> decode_avro(Never, x.input.blob.data, x.cfg.max).ok
           [] x.plugin = "parquet" -> decode_parquet(Never, x.input.blob.data, x.cfg).ok

Again(cfg) == CASE x.plugin = "msgpack" -> msgpack_execute(Never, x.input, cfg)
                [] x.plugin = "avro" -> avro_execute(Never, x.input, cfg)
                [] x.plugin = "parquet" -> parquet_execute(Never, x.input, cfg)
                [] x.plugin = "csv" -> csv_execute(Never, x.input, cfg)
                [] x.plugin = "xlsx" -> xlsx_execute(Never, x.input, cfg)

(* One document per record, no value of a record lost, no id made up twice,*)
(* and a limit that only cuts the end off; a field named like the id never *)
(* replaces it in what Meilisearch gets (json_flattener's flatten_into    *)
(* and build_document, and the decoders and row loops of the five others). *)
RecordsFaithful ==
  /\ Done({"json", "msgpack", "avro", "parquet"}) /\ IsOk(Result) /\ x.input.kind = "bytes" =>
       /\ Len(Result.ok) = Len(IF x.cfg.max = {} THEN Roots ELSE Prefix(Roots, x.cfg.max))
       /\ \A i \in DOMAIN Result.ok : RecordKept(Roots[i], x.cfg, Result.ok[i])
       /\ IdsApart(Result.ok, LAMBDA i : Get(flatten_root(Roots[i], x.cfg), x.cfg.id_field) # {})
  /\ Done({"msgpack", "avro", "parquet", "csv"}) => LimitCuts(Result, Again([x.cfg EXCEPT !.max = {}]))
  /\ Done({"xlsx"}) /\ x.cfg.mode = "row" /\ IsOk(Result) => ToSet(Result.ok) \subseteq ToSet(Again([x.cfg EXCEPT !.max = {}]).ok)
  /\ Done({"csv"}) /\ IsOk(Result) => IdsApart(Result.ok, LAMBDA i : x.cfg.id_column # {})
  /\ Done({"xlsx"}) /\ IsOk(Result) =>
       \A i, j \in DOMAIN Result.ok : i < j /\ Result.ok[i].id = Result.ok[j].id =>
         \/ Len(Result.ok[i].id) >= MaxId
         \/ \E s, t \in DOMAIN Only(x.input.blob.data) : s < t /\ sanitize_id(Only(x.input.blob.data)[s].name) = sanitize_id(Only(x.input.blob.data)[t].name)
  /\ Done({"json", "csv"}) /\ IsOk(Result) =>
       \A i \in DOMAIN Result.ok : LET sent == to_index_json(Result.ok[i])
                                  IN sent[<<"id">>] = Str(Result.ok[i].id) /\ \A k \in DOMAIN Result.ok[i].fields \ Reserved : sent[k] = Result.ok[i].fields[k]
  /\ x.plugin = "avro" => \A u \in {-205, -5, 0, 7, 99, 100, 1234}, s \in 0..4 : DecimalExact(u, s)

(* What the editor is told before it saves a pipeline is what the run will *)
(* say: a config that satisfies the schema of its plugin is taken by the   *)
(* plugin, and the other way round, except for the differences named by    *)
(* Looser, Stricter and Crossed (config_errors against each plugin's       *)
(* parse).                                                                 *)
SchemasAgree ==
  Done({"config"}) /\ Result[1] # Result[2] =>
    \/ Result[1] /\ (Configs!Crossed(x.of, x.cfg) \/ \E k \in DOMAIN x.cfg : Configs!Looser(x.of, k, x.cfg[k]))
    \/ Result[2] /\ \E k \in DOMAIN x.cfg : Configs!Stricter(x.of, k, x.cfg[k])

-----------------------------------------------------------------------------
\* The pieces of a text file, in order: what is a section heading, what is text, what is neither.
Piece(kind, words) == [kind |-> kind, w |-> words]
DocxPieces(ks) ==
  LET titleAt == IF Only(x.input.blob.data).title # {} THEN {} ELSE {i \in DOMAIN ks : ks[i] = "title" /\ \A j \in 1..(i - 1) : ks[j] # "title"}
  IN [i \in DOMAIN ks |-> Piece(CASE i \in titleAt \/ ks[i] = "blank" -> "none"
                                 [] ks[i] = "heading" /\ x.cfg.split_on_headings -> "heading"
                                 [] OTHER -> "text", w(ks[i], i))]
MdPieces(ks) ==
  (IF x.input.blob.data.front # {} /\ (~x.cfg.front_matter \/ x.input.blob.data.front = {[yaml |-> {}]}) THEN <<Piece("text", <<"fm">>)>> ELSE <<>>)
  \o [i \in DOMAIN ks |-> CASE ks[i] \in {1, 2} -> Piece(IF x.cfg.split_on_headings /\ ks[i] <= x.cfg.heading_level THEN "heading" ELSE "text", w(ToString(ks[i]), i))
                            [] ks[i] = 3 -> Piece("text", w("p", i))
                            [] ks[i] = 4 -> Piece("text", <<"1", "-">> \o w("p", i) \o <<"2">>)
                            [] OTHER -> Piece("none", <<>>)]

\* A heading shows when there is text under it.
Shown(ps) ==
  LET real == SelectSeq(ps, LAMBDA p : p.kind # "none")
      kept == {i \in DOMAIN real : real[i].kind = "text" \/ (i < Len(real) /\ real[i + 1].kind = "text")}
  IN FlattenSeq([i \in DOMAIN real |-> IF i \in kept THEN real[i].w ELSE <<>>])
Headings(ps) == {ps[i].w : i \in {i \in DOMAIN ps : ps[i].kind = "heading"}}
Told(docs, headings) == FlattenSeq([i \in DOMAIN docs |-> (IF docs[i].title \cap headings # {} THEN Only(docs[i].title) ELSE <<>>) \o docs[i].content])

SlidesInOrder == SetToSortSeq({p \in Only(x.input.blob.data) : p.kind = "slide"}, LAMBDA p, q : p.number < q.number)
PartsRead == LET slides == Prefix(SlidesInOrder, x.cfg.max_slides)
             IN ToSet(slides) \cup {p \in Only(x.input.blob.data) : x.cfg.include_notes /\ p.kind = "notes" /\ \E q \in ToSet(slides) : q.number = p.number}
Size(parts) == FoldLeft(LAMBDA n, p : n + p.size, 0, SetToSeq(parts))

(* Every word of a file is told once and in order, a heading with the text *)
(* under it, whatever the file is split into; a page's text is the same by *)
(* page and as a whole, and the pages that are read are the ones billed; a *)
(* deck is read in the order of its slide numbers and as long as its parts *)
(* fit the limits, each slide with its own notes (the execute of docx,     *)
(* markdown, html, pdf and pptx).                                          *)
SectionsFaithful ==
  /\ Done({"docx"}) /\ IsOk(Result) => LET ps == DocxPieces(Only(x.input.blob.data).kinds) IN Told(Result.ok.docs, Headings(ps)) = Shown(ps)
  /\ Done({"markdown"}) /\ IsOk(Result) => LET ps == MdPieces(x.input.blob.data.kinds) IN Told(Result.ok.docs, Headings(ps)) = Shown(ps)
  /\ Done({"html"}) /\ IsOk(Result) => \A i \in DOMAIN Result.ok.docs : "n" \notin ToSet(Result.ok.docs[i].content) \cup UNION {ToSet(t) : t \in Result.ok.docs[i].title}
  /\ Done({"pdf"}) /\ IsOk(Result) =>
       LET other == T!pdf_execute(Never, x.input, [x.cfg EXCEPT !.per_page = ~@]).ok
       IN /\ Told(Result.ok.docs, {}) = Told(other.docs, {})
          /\ x.cfg.per_page \/ x.cfg.max_pages # {} => Result.ok.pages = Len(Prefix(Only(x.input.blob.data).pages, x.cfg.max_pages))
  /\ Done({"pptx"}) /\ x.input.blob.data # {} /\ x.stop = Never =>
       LET fits == Size(PartsRead) <= T!MAX_TOTAL_BYTES /\ \A p \in PartsRead : p.declared <= T!MAX_PART_BYTES /\ p.size <= T!MAX_PART_BYTES /\ p.xml # {}
           told == FlattenSeq(Map(LAMBDA p : IF p.xml = {<<>>} THEN <<>> ELSE IF p.number = 10 THEN w("s", 10) ELSE w("s", p.number) \o w("s", p.number + 1)
                                             \o (IF p.number = 9 /\ x.cfg.include_notes /\ x.cfg.notes_in_content THEN w("s", 7) ELSE <<>>), Prefix(SlidesInOrder, x.cfg.max_slides)))
       IN /\ IsOk(Result) <=> fits
          /\ IsOk(Result) => Told(Result.ok.docs, {}) = told /\ Result.ok.pages = Len(Prefix(SlidesInOrder, x.cfg.max_slides))

-----------------------------------------------------------------------------
Ink(s) == SelectSeq(s, LAMBDA ch : ~X!Blank(ch))
At(s) == Map(LAMBDA ch : ch.at, Ink(s))
ChunkList == Map(LAMBDA d : d.content, Result.ok)
TextCut == Only(x.input.blob.data)

(* The chunks of a text cover it: each is a run of its words, starts no    *)
(* later than the end of the one before and ends after it, takes over no   *)
(* more than `overlap` characters and never half a word, and is no longer  *)
(* than chunk_size, the last one by less than what was merged into it; the *)
(* chunks of different documents have different ids (chunk_text,           *)
(* pack_units, merge_short_tail).                                          *)
ChunksFaithful ==
  /\ Done({"chunker"}) /\ x.input.kind = "bytes" /\ IsOk(Result) =>
       LET c == ChunkList
           n == Len(c)
           all == At(TextCut)
           Place(i, k) == CHOOSE p \in DOMAIN all : all[p] = At(c[i])[k]
           From(i) == Place(i, 1)
           Upto(i) == Place(i, Len(At(c[i])))
       IN /\ (n = 0) = (all = <<>>)
          /\ \A i \in 1..n : At(c[i]) # <<>> /\ At(c[i]) = SubSeq(all, From(i), Upto(i))
          /\ n > 0 => From(1) = 1 /\ Upto(n) = Len(all)
          /\ \A i \in 2..n : From(i - 1) <= From(i) /\ From(i) <= Upto(i - 1) + 1 /\ Upto(i - 1) <= Upto(i) /\ (Upto(i - 1) < Upto(i) \/ x.cfg.strategy = "fixed")
          /\ \A i \in 2..n : Upto(i - 1) - From(i) + 1 <= x.cfg.overlap
          /\ \A i \in 1..n : Len(c[i]) <= x.cfg.chunk_size + (IF i = n /\ x.cfg.min_chunk_size > 0 THEN x.cfg.min_chunk_size + 1 ELSE 0)
          /\ x.cfg.strategy # "fixed" => \A i \in 2..n : From(i) <= Upto(i - 1) =>
               From(i) = From(i - 1) \/ From(i) = 1 \/ \E p \in (all[From(i) - 1] + 1)..all[From(i)] : X!Blank(TextCut[p])
  /\ Done({"chunker"}) /\ IsOk(Result) => \A i, j \in DOMAIN Result.ok : i # j => Result.ok[i].id # Result.ok[j].id

-----------------------------------------------------------------------------
\* The calls that were answered and read before the step ended.
Answered(reply(_)) == LET o == x.world.order
                        fails == {k \in DOMAIN o : ~IsOk(reply(o[k])) \/ x.stop <= k}
                        last == IF fails = {} THEN Len(o) ELSE CHOOSE k \in fails : \A j \in fails : k <= j
                    IN {o[k] : k \in 1..last}
LlmOk(i) == E!complete([lab |-> x.world.target # {}], x.world.replies[i])
JevOk(i) == E!systemone([lab |-> x.world.target # {}], x.world.replies[i])
JevUsed(i) == E!jev_enrich([lab |-> x.world.target # {}], x.cfg, EDocs[i], x.world.replies[i]).result
CallsEnded == IF x.plugin = "llm" THEN Answered(LlmOk) ELSE Answered(JevUsed)
Metered(i) == IF x.world.replies[i].body # {} /\ Only(x.world.replies[i].body).usage # {} THEN i ELSE 0
SumOver(S) == FoldLeft(LAMBDA n, i : n + Metered(i), 0, SetToSeq(S))
Kept(d, was) == d.id = was.id /\ d.content = was.content /\ (x.cfg.replace \/ ((was.title # {} => d.title = was.title) /\ \A k \in DOMAIN was.fields : k \in DOMAIN d.fields /\ d.fields[k] = was.fields[k]))
Words(v) == IF v.t \in {"str", "num"} THEN v.w ELSE <<>>

(* A model's reply lands on the document it was asked about, in the order  *)
(* of the input whatever the order of the replies, and takes nothing away  *)
(* that a merge must keep; what is metered is what was answered and read,  *)
(* also when the step fails; a refused key of the Lab is marked, also when *)
(* a cancel is seen with the refusal, and tried again, and one of the      *)
(* worker is not.  A script changes a document as a whole or    *)
(* the step's policy applies, and no number JSON lacks gets through.  The  *)
(* seconds metered for a sound are the seconds it lasts, from the video it *)
(* was cut from to the WAV that is sent (execute of llm_enricher,          *)
(* jev_enricher, image_captioner, document_script, video_audio_extractor   *)
(* and whisper_transcriber).                                               *)
EnrichersFaithful ==
  /\ Done({"llm"}) /\ IsOk(Result.result) =>
       LET docs == Result.result.ok
       IN /\ Len(docs) = 3
          /\ \A i \in 1..3 : Kept(docs[i], EDocs[i]) /\ \E k \in {<<"new">>, <<"llm_raw">>} : k \in DOMAIN docs[i].fields /\ docs[i].fields[k] = tag(i)
          /\ Result.asked = {IF x.cfg.model = {} THEN IF x.world.target # {} THEN Target.default_model ELSE E!DefaultModel("llm")
                             ELSE IF x.world.target = {} /\ "LLM_BASE_URL" \notin DOMAIN x.world.env THEN [provider |-> "", name |-> "m"] ELSE Only(x.cfg.model)}
  /\ Done({"llm"}) /\ Result.asked # {} => Result.usage.input = SumOver({i \in Answered(LlmOk) : IsOk(LlmOk(i))}) /\ Result.usage.requests = Cardinality({i \in Answered(LlmOk) : IsOk(LlmOk(i))})
  /\ Done({"jev"}) /\ IsOk(Result.result) =>
       \A i \in 1..3 : /\ Kept(Result.result.ok[i], EDocs[i])
                       /\ x.cfg.replace /\ x.cfg.questions[1].type = "choice" => Result.result.ok[i].fields[<<"k">>] = tag(i)
                       /\ x.cfg.questions[1].type = "noul" /\ i > 1 => Result.result.ok[i].fields[<<"k">>] = Scalar("bool", <<"true">>)
  /\ Done({"jev"}) /\ Result.asked # {} => Result.usage.requests = Cardinality({i \in CallsEnded : IsOk(JevOk(i))})
  /\ Done({"llm", "jev"}) /\ Result.asked # {} =>
       /\ Result.rejected = (x.world.target # {} /\ \E i \in CallsEnded : x.world.replies[i].sent /\ x.world.replies[i].status = 401)
       /\ Result.rejected => Result.result = Err(IF x.stop <= Cardinality(CallsEnded) THEN "Cancelled" ELSE "Retryable")
  /\ Done({"image"}) /\ Result.rejected => x.world.target # {} /\ Result.result = Err("Retryable")
  /\ Done({"llm", "jev", "image"}) /\ x.world.target = {} /\ Result.result = Err("Retryable") => \E i \in DOMAIN x.world.replies : ~x.world.replies[i].sent \/ x.world.replies[i].status \in {429, 503, 529}
  /\ Done({"image"}) /\ IsOk(Result.result) => Result.result.ok[1].content # <<>> /\ Result.usage.images = 1
  /\ Done({"script"}) /\ IsOk(Result) =>
       /\ \A i \in DOMAIN Result.ok : \A k \in DOMAIN Result.ok[i].fields : ~X!Holds(Result.ok[i].fields[k], X!NotFinite)
       /\ x.cfg.on_error = "skip" => \A i \in DOMAIN Result.ok : \E d \in ToSet(ScriptDocs) : LET e == x.cfg.script.effect[d.id] IN ~e.error /\ e.doc # {} /\ X!from_scope_map(Only(e.doc), d) = [doc |-> Result.ok[i], ok |-> TRUE]
       /\ x.cfg.on_error = "keep" => Len(Result.ok) = Cardinality({i \in 1..2 : LET e == x.cfg.script.effect[ScriptDocs[i].id] IN ~(e.returns_false /\ X!from_scope_map(Only(e.doc), ScriptDocs[i]).ok)})
  /\ Done({"video"}) /\ IsOk(Result) =>
       LET sec == M!wav_duration_secs(Result.ok.wav)
           f == x.input.blob.data
           all == FoldLeft(LAMBDA n, p : n + M!PacketFrames(p, Opt(x.cfg.track, 1)), 0, f.packets)
       IN /\ sec # {}
          /\ x.cfg.sample_rate % 2 = 0 => Only(sec)[1] * Result.ok.audio_seconds[2] = Result.ok.audio_seconds[1] * Only(sec)[2]
          /\ \A m \in x.cfg.max_duration_secs : Result.ok.audio_seconds[1] <= m * Result.ok.audio_seconds[2]
          /\ Opt(f.declared, 48) >= f.rate \/ x.cfg.max_duration_secs = {} =>
               Result.ok.audio_seconds = <<IF x.cfg.max_duration_secs # {} /\ all > 4 THEN 4 ELSE all, 2>>
  /\ Done({"audio"}) => /\ Result.usage.external_requests = IF x.world.reply.body # {} /\ x.stop > 1 /\ x.input.blob.size = 1 /\ x.world.env # <<>> THEN 1 ELSE 0
                        /\ IsOk(Result.result) => FlattenSeq(Map(LAMBDA d : d.content, Result.result.ok)) = <<"a", "b">>
=============================================================================
