---------------------------- MODULE PluginConfigs ----------------------------
(***************************************************************************)
(* The `config:` block of a step, seen twice: by the JSON Schema of the    *)
(* plugin's manifest, which the control plane holds a pipeline against     *)
(* before it is saved (config_errors), and by the plugin, which parses it  *)
(* with serde and checks it when the step runs.                            *)
(*                                                                         *)
(* A config is a function from its keys to JSON values.  A schema or a     *)
(* parser is [keys, required, closed]: the values each key may have, the   *)
(* keys that must be there, and whether any other key is refused.          *)
(***************************************************************************)
EXTENDS Integers, Sequences, FiniteSets

MaxU32 == 2000000   \* stands for 2^32 - 1
JInt(n) == [t |-> "int", n |-> n]
JFloat(n, frac) == [t |-> "float", n |-> n, frac |-> frac]        \* n.0 or n.5
JStr(len, blank, form) == [t |-> "str", len |-> len, blank |-> blank, form |-> form]
JArr(len, items) == [t |-> "arr", len |-> len, items |-> items]
JNull == [t |-> "null"]
JBool == [t |-> "bool"]
JObj == [t |-> "obj"]
Question(key, type, instructions, n) == [key |-> key, type |-> type, instructions |-> instructions, n |-> n]
JQuestions(qs) == [t |-> "obj", qs |-> qs]

Text == {JStr(0, TRUE, "ascii"), JStr(1, TRUE, "ascii"), JStr(1, FALSE, "ascii"), JStr(1, FALSE, "wide"), JStr(5, FALSE, "ascii"), JStr(5, FALSE, "enum")}
Numbers == {JInt(n) : n \in {-1, 0, 1, 2, 6, 7, 256, 1000, 384000, 384001, MaxU32 + 1}} \cup {JFloat(n, f) : n \in {0, 1, 2}, f \in BOOLEAN}
Lists == {JArr(0, "str"), JArr(1, "str"), JArr(1, "int")}
V == {JNull, JBool, JObj} \cup Text \cup Numbers \cup Lists

\* The questions of jev_enricher: a blank key or text is " ", an empty one "".
SampleQuestions ==
  {Question(k, t, i, n) : k \in {"q", " "}, t \in {"noul", "choice", "score"}, i \in {"", " ", "why"}, n \in {0, 1, 2, 11, 256}}
QV == V \cup {JQuestions({})} \cup {JQuestions({q}) : q \in SampleQuestions}

-----------------------------------------------------------------------------
(* JSON Schema. *)

null == {JNull}
boolean == {JBool}
string == Text
stringMin1 == {v \in Text : v.len >= 1}
char == {v \in Text : v.len = 1}
enum == {v \in Text : v.form = "enum"}
strings == {v \in Lists : v.items = "str"}
Whole(v) == v.t = "int" \/ (v.t = "float" /\ ~v.frac)             \* 1.0 is an integer
integer(min) == {v \in Numbers : Whole(v) /\ v.n >= min}
integerIn(min, max) == {v \in integer(min) : v.n <= max}
anyInteger == {v \in Numbers : Whole(v)}
number(min, max) == {v \in Numbers : v.n >= min /\ (v.n < max \/ (v.n = max /\ Whole(v)))}
nullable(s) == s \cup null

-----------------------------------------------------------------------------
(* serde. *)

String == Text
Char == char
Bool == boolean
usize == {v \in Numbers : v.t = "int" /\ v.n >= 0}                \* 1.0 is no integer
u64 == usize
u32 == {v \in usize : v.n <= MaxU32}
u8 == {v \in usize : v.n <= 255}
f32 == Numbers
VecString == strings
Option(T) == T \cup null
NonZero(T) == {v \in T : v.t = "null" \/ v.n # 0}
NonEmptyText(T) == {v \in T : v.t = "null" \/ v.len > 0}
NotBlank(T) == {v \in T : v.t = "null" \/ ~v.blank}
Ascii(T) == {v \in T : v.t = "null" \/ v.form # "wide"}
InRange(T, min, max) == {v \in T : v.t = "null" \/ (v.n >= min /\ (v.n < max \/ (v.n = max /\ Whole(v))))}

Closed(keys) == [keys |-> keys, required |-> {}, closed |-> TRUE]
Open(keys) == [keys |-> keys, required |-> {}, closed |-> FALSE]
Requires(ks, s) == [s EXCEPT !.required = ks]

\* What the schema validator, or the plugin, says to a config.
Satisfies(s, c) ==
  /\ s.required \subseteq DOMAIN c
  /\ \A k \in DOMAIN c : IF k \in DOMAIN s.keys THEN c[k] \in s.keys[k] ELSE ~s.closed

-----------------------------------------------------------------------------
(* The converters. *)

flatten_schema == [id_field |-> string, content_fields |-> nullable(strings), title_field |-> nullable(string), flatten_arrays |-> boolean, max_depth |-> integer(1)]
FlattenConfig == [id_field |-> NonEmptyText(String), content_fields |-> Option(VecString), title_field |-> Option(String), flatten_arrays |-> Bool, max_depth |-> NonZero(usize)]
And(a, b) == [k \in DOMAIN a \cup DOMAIN b |-> IF k \in DOMAIN b THEN b[k] ELSE a[k]]

json_manifest == Closed(flatten_schema)
json_Config == Closed(FlattenConfig)
msgpack_manifest == Closed(And(flatten_schema, [max_records |-> nullable(integer(1))]))
msgpack_Config == Closed(And(FlattenConfig, [max_records |-> NonZero(Option(usize))]))
avro_manifest == Closed(And(flatten_schema, [max_records |-> nullable(integer(1))]))
avro_Config == Closed(And(FlattenConfig, [max_records |-> NonZero(Option(usize))]))
parquet_manifest == Closed(And(flatten_schema, [columns |-> nullable(strings), max_rows |-> nullable(integer(1)), batch_size |-> integer(1)]))
parquet_Config == Closed(And(FlattenConfig, [columns |-> Option({v \in VecString : v.len > 0}), max_rows |-> NonZero(Option(usize)), batch_size |-> NonZero(usize)]))
csv_manifest == Closed([delimiter |-> nullable(char), has_headers |-> boolean, id_column |-> nullable(string), content_columns |-> nullable(strings), max_rows |-> nullable(integer(1)), trim |-> boolean])
\* A mutant: max_rows = 0 is not refused.
csv_ConfigZero == Closed([delimiter |-> Ascii(Option(Char)), has_headers |-> Bool, id_column |-> Option(String), content_columns |-> Option(VecString), max_rows |-> Option(usize), trim |-> Bool])
csv_Config == Closed([delimiter |-> Ascii(Option(Char)), has_headers |-> Bool, id_column |-> Option(String), content_columns |-> Option(VecString), max_rows |-> NonZero(Option(usize)), trim |-> Bool])
xlsx_manifest == Closed([mode |-> enum, has_headers |-> boolean, sheets |-> nullable(strings), max_rows |-> nullable(integer(0))])
xlsx_Config == Closed([mode |-> enum, has_headers |-> Bool, sheets |-> Option(VecString), max_rows |-> Option(usize)])
docx_manifest == Closed([split_on_headings |-> boolean])
docx_Config == Closed([split_on_headings |-> Bool])
pptx_manifest == Closed([per_slide |-> boolean, include_notes |-> boolean, notes_in_content |-> boolean, skip_empty_slides |-> boolean, max_slides |-> nullable(integer(0))])
pptx_Config == Closed([per_slide |-> Bool, include_notes |-> Bool, notes_in_content |-> Bool, skip_empty_slides |-> Bool, max_slides |-> Option(u32)])
html_manifest == Closed([extract_links |-> boolean, include_meta_description |-> boolean])
html_Config == Closed([extract_links |-> Bool, include_meta_description |-> Bool])
markdown_manifest == Closed([split_on_headings |-> boolean, heading_level |-> integerIn(1, 6), front_matter |-> boolean])
markdown_Config == Closed([split_on_headings |-> Bool, heading_level |-> InRange(u8, 1, 6), front_matter |-> Bool])
pdf_manifest == Closed([per_page |-> boolean, max_pages |-> nullable(integer(1))])
pdf_Config == Closed([per_page |-> Bool, max_pages |-> Option(u32)])

-----------------------------------------------------------------------------
(* The enrichers, the media plugins, the chunker and the indexer. *)

chunker_manifest == Closed([strategy |-> enum, chunk_size |-> integer(1), overlap |-> integer(0), min_chunk_size |-> integer(0), keep_parent_fields |-> boolean])
chunker_Config == Closed([strategy |-> enum, chunk_size |-> NonZero(usize), overlap |-> usize, min_chunk_size |-> usize, keep_parent_fields |-> Bool])
\* The defaults, and the check of one key against another.
chunker_checks(c) == LET at(k, d) == IF k \in DOMAIN c THEN c[k].n ELSE d IN at("overlap", 64) < at("chunk_size", 512)

script_manifest == Requires({"script"}, Closed([script |-> stringMin1, on_error |-> enum, max_ops |-> integer(1), timeout_ms |-> integer(1)]))
script_Config == Requires({"script"}, Closed([script |-> NotBlank(String), on_error |-> enum, max_ops |-> NonZero(u64), timeout_ms |-> NonZero(u64)]))

llm_manifest == Closed([prompt |-> string, max_concurrent |-> integer(1), temperature |-> number(0, 2), max_tokens |-> integer(1), max_input_chars |-> integer(1), merge_strategy |-> enum, system_prompt |-> string])
llm_Config == Open([model |-> Option(String), prompt |-> String, max_concurrent |-> NonZero(usize), temperature |-> InRange(f32, 0, 2), max_tokens |-> Option(u32),
                    max_input_chars |-> NonZero(usize), merge_strategy |-> enum, system_prompt |-> Option(String)])

\* choice has 2..255 options and score 2..10 levels; a noul's criteria are left out.
Sized(q) == q.type = "noul" \/ (q.n >= 2 /\ q.n <= (IF q.type = "choice" THEN 255 ELSE 10))
jev_questions_schema == {v \in QV : v.t = "obj" /\ "qs" \in DOMAIN v /\ v.qs # {} /\ \A q \in v.qs : q.instructions # "" /\ Sized(q)}
jev_questions == {v \in QV : v.t = "obj" /\ "qs" \in DOMAIN v /\ v.qs # {} /\ \A q \in v.qs : q.instructions \notin {"", " "} /\ q.key # " " /\ Sized(q)}
jev_manifest == Requires({"questions"}, Closed([questions |-> jev_questions_schema, include_confidence |-> boolean, noul_threshold |-> number(0, 1),
                                                merge_strategy |-> enum, max_concurrent |-> integer(1), max_input_chars |-> integer(1)]))
jev_Config == Requires({"questions"}, Closed([questions |-> jev_questions, model |-> Option(String), include_confidence |-> Bool, noul_threshold |-> InRange(f32, 0, 1),
                                              merge_strategy |-> enum, max_concurrent |-> NonZero(usize), max_input_chars |-> NonZero(usize)]))

image_manifest == Closed([prompt |-> string, detail |-> enum, max_tokens |-> integer(1), json |-> boolean])
image_Config == Open([model |-> Option(String), prompt |-> String, detail |-> enum, max_tokens |-> NonZero(u32), json |-> Bool])
audio_manifest == Closed([model |-> string, language |-> string, prompt |-> string, temperature |-> number(0, 1), segment_documents |-> boolean, timeout_secs |-> integer(1), max_bytes |-> integer(1)])
audio_Config == Closed([model |-> Option(String), language |-> Option(String), prompt |-> Option(String), temperature |-> Option(f32), segment_documents |-> Bool, timeout_secs |-> NonZero(u64), max_bytes |-> NonZero(usize)])
video_manifest == Closed([sample_rate |-> integerIn(1000, 384000), mono |-> boolean, max_duration_secs |-> nullable(integer(1)), track |-> nullable(anyInteger)])
video_Config == Closed([sample_rate |-> InRange(u32, 1000, 384000), mono |-> Bool, max_duration_secs |-> NonZero(Option(u64)), track |-> Option(u32)])

\* The host and the API key, which the worker puts in, are left out of both.
indexer_manifest == Open([connection |-> string, index |-> string, tenant_id |-> nullable(string), region |-> nullable(string), primary_key |-> string, auto_create_index |-> boolean,
                          batch_size |-> integer(1), max_batch_bytes |-> integer(1), wait_for_completion |-> boolean, task_timeout_secs |-> integer(1)])
indexer_Config == Open([connection |-> Option(String), index |-> NotBlank(Option(String)), tenant_id |-> Option(String), region |-> Option(String), primary_key |-> NotBlank(String), auto_create_index |-> Bool,
                        batch_size |-> NonZero(usize), max_batch_bytes |-> NonZero(u64), wait_for_completion |-> Bool, task_timeout_secs |-> Option(u64)])

Plugins == [json |-> <<json_manifest, json_Config>>, msgpack |-> <<msgpack_manifest, msgpack_Config>>, avro |-> <<avro_manifest, avro_Config>>,
            parquet |-> <<parquet_manifest, parquet_Config>>, csv |-> <<csv_manifest, csv_Config>>, xlsx |-> <<xlsx_manifest, xlsx_Config>>,
            docx |-> <<docx_manifest, docx_Config>>, pptx |-> <<pptx_manifest, pptx_Config>>, html |-> <<html_manifest, html_Config>>,
            markdown |-> <<markdown_manifest, markdown_Config>>, pdf |-> <<pdf_manifest, pdf_Config>>, chunker |-> <<chunker_manifest, chunker_Config>>,
            script |-> <<script_manifest, script_Config>>, llm |-> <<llm_manifest, llm_Config>>, jev |-> <<jev_manifest, jev_Config>>,
            image |-> <<image_manifest, image_Config>>, audio |-> <<audio_manifest, audio_Config>>, video |-> <<video_manifest, video_Config>>,
            indexer |-> <<indexer_manifest, indexer_Config>>]

SchemaTakes(p, c) == Satisfies(Plugins[p][1], c)
PluginTakes(p, c) == Satisfies(Plugins[p][2], c) /\ (p = "chunker" => chunker_checks(c))

-----------------------------------------------------------------------------
(* Where the two are known to differ. *)

\* The schema is looser: 1.0 for an integer, a number too wide, a text that is too empty,
\* a delimiter that is not ASCII, no columns, a negative track.
Looser(p, k, v) ==
  \/ v.t = "float" /\ k \notin {"temperature", "noul_threshold"}
  \/ v = JInt(MaxU32 + 1) /\ <<p, k>> \in {<<"pptx", "max_slides">>, <<"pdf", "max_pages">>, <<"llm", "max_tokens">>, <<"image", "max_tokens">>, <<"video", "track">>}
  \/ v = JInt(-1) /\ <<p, k>> = <<"video", "track">>
  \/ v = JStr(0, TRUE, "ascii") /\ k = "id_field"
  \/ v = JStr(1, FALSE, "wide") /\ k = "delimiter"
  \/ v = JArr(0, "str") /\ k = "columns"
  \/ v = JStr(1, TRUE, "ascii") /\ k = "script"
  \/ v \in Text /\ v.blank /\ k \in {"primary_key", "index"} /\ p = "indexer"
  \/ v.t = "obj" /\ k = "questions" /\ \E q \in v.qs : q.key = " " \/ q.instructions = " "

\* The plugin is looser: null for an option, a model, an unlisted key, a zero it can live with.
Stricter(p, k, v) ==
  \/ v = JNull /\ <<p, k>> \in {<<"llm", "max_tokens">>, <<"llm", "system_prompt">>, <<"indexer", "connection">>, <<"indexer", "index">>, <<"indexer", "task_timeout_secs">>}
                               \cup ({"audio"} \X {"model", "language", "prompt", "temperature"})
  \/ p \in {"llm", "image"} /\ k \notin DOMAIN Plugins[p][1].keys
  \/ p = "jev" /\ k = "model"
  \/ v = JInt(0) /\ <<p, k>> \in {<<"pdf", "max_pages">>, <<"llm", "max_tokens">>, <<"indexer", "task_timeout_secs">>}
  \/ p = "audio" /\ k = "temperature"

\* The overlap of a chunker is held against the chunk size only by the plugin.
Crossed(p, c) == p = "chunker" /\ {"overlap", "chunk_size"} \cap DOMAIN c # {} /\ ~chunker_checks(c)
=============================================================================
