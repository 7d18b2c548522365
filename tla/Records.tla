------------------------------- MODULE Records -------------------------------
(***************************************************************************)
(* The converters that make one document per record: json_flattener and    *)
(* the formats that decode to JSON values and flatten by its rules         *)
(* (msgpack, avro, parquet), csv_parser and xlsx_extractor.                *)
(*                                                                         *)
(* A payload says what the format's decoder finds in the bytes; the        *)
(* decoders themselves are libraries.                                      *)
(***************************************************************************)
EXTENDS Documents

-----------------------------------------------------------------------------
(* json_flattener.  cfg is [id_field, content_fields, title_field,         *)
(* flatten_arrays, max_depth].                                             *)

WRAPPER_KEYS == <<<<"documents">>, <<"items">>, <<"data">>, <<"results">>, <<"hits">>>>
select_roots(v) ==
  LET held(key) == {v.kv[i].v : i \in {i \in DOMAIN v.kv : v.kv[i].k = key /\ v.kv[i].v.t = "arr"}}
      keys == SelectSeq(WRAPPER_KEYS, LAMBDA key : held(key) # {})
  IN CASE v.t = "arr" -> v.items
       [] v.t = "obj" /\ keys # <<>> -> Only(held(keys[1])).items
       [] OTHER -> <<v>>

\* One JSON value, or one value per line that is not blank: [single, utf8, lines].
parse_payload(p) ==
  LET lines == SelectSeq(p.lines, LAMBDA l : ~l.blank)
  IN CASE p.single # {} -> Ok(select_roots(Only(p.single)))
       [] p.single = {} /\ p.utf8 /\ lines # <<>> /\ (\A i \in DOMAIN lines : lines[i].v # {})
            -> Ok(Map(LAMBDA l : Only(l.v), lines))
       [] OTHER -> Err("InvalidInput")

is_scalar(v) == v.t \notin {"obj", "arr"}

\* The entries a value leaves in the map of fields, in the order of their insertion.
RECURSIVE flatten_into(_, _, _, _)
flatten_into(prefix, v, depth, cfg) ==
  LET deep == depth >= cfg.max_depth
      whole == <<KV(prefix, v)>>
  IN CASE v.t = "obj" -> IF deep \/ v.kv = <<>> THEN whole
                         ELSE FlattenSeq([i \in DOMAIN v.kv |-> flatten_into(prefix \o v.kv[i].k, v.kv[i].v, depth + 1, cfg)])
       [] v.t = "arr" -> IF deep \/ ~cfg.flatten_arrays \/ (\A i \in DOMAIN v.items : is_scalar(v.items[i])) THEN whole
                         ELSE FlattenSeq([i \in DOMAIN v.items |-> flatten_into(Append(prefix, ToString(i - 1)), v.items[i], depth + 1, cfg)])
       [] OTHER -> whole

flatten_root(root, cfg) ==
  InsertAll(IF root.t = "obj"
            THEN FlattenSeq([i \in DOMAIN root.kv |-> flatten_into(root.kv[i].k, root.kv[i].v, 1, cfg)])
            ELSE flatten_into(<<"value">>, root, 1, cfg))

value_text(v) ==
  CASE is_scalar(v) -> v.w
    [] v.t = "arr" /\ (\A i \in DOMAIN v.items : is_scalar(v.items[i])) -> FlattenSeq(Map(LAMBDA x : x.w, v.items))
    [] OTHER -> <<"json">>

string_leaves(fields) ==
  LET leaves(v) == CASE v.t = "str" -> v.w
                     [] v.t = "arr" -> FlattenSeq(Map(LAMBDA x : x.w, SelectSeq(v.items, LAMBDA x : x.t = "str")))
                     [] OTHER -> <<>>
  IN FlattenSeq(Map(LAMBDA k : leaves(fields[k]), SetToSeq(DOMAIN fields)))

NoFallback == [id |-> {}, title |-> {}, content |-> <<>>]

build_document(root, cfg, generated_id, fallback) ==
  LET all == flatten_root(root, cfg)
      claimed == UNION {NonEmpty(value_text(v)) : v \in Get(all, cfg.id_field)}
      rest == Without(all, {cfg.id_field})
      titled == UNION {NonEmpty(value_text(v)) : v \in UNION {Get(rest, t) : t \in cfg.title_field}}
      body == Without(rest, cfg.title_field)
      asked == Only(cfg.content_fields)
      firsts == SelectSeq([i \in DOMAIN asked |-> [i |-> i, k |-> asked[i]]],
                          LAMBDA a : \A j \in 1..(a.i - 1) : asked[j] # a.k)
      content == IF cfg.content_fields = {} THEN string_leaves(body)
                 ELSE FlattenSeq(Map(LAMBDA a : IF a.k \in DOMAIN body THEN value_text(body[a.k]) ELSE <<>>, firsts))
  IN Document(IF claimed # {} THEN sanitize_id(Only(claimed)) ELSE Opt(fallback.id, generated_id),
              IF titled # {} THEN titled ELSE fallback.title,
              IF content # <<>> THEN content ELSE fallback.content,
              IF cfg.content_fields = {} THEN body ELSE Without(body, ToSet(asked)))

build_documents(stop, items, cfg) ==
  Cancellable(stop, Len(items), Ok(Map(LAMBDA x : build_document(x.root, cfg, x.id, x.fallback), items)))

id_stem(filename, fallback) == Opt(filename_id_stem(filename), sanitize_id(fallback))
from0(stem, i) == stem \o <<"_" , ToString(i - 1)>>   \* json and msgpack count from 0
from1(stem, i) == stem \o <<"_r", ToString(i)>>       \* the others count rows from 1

documents_from_values(stop, roots, cfg, ids) ==
  build_documents(stop, [i \in DOMAIN roots |-> [root |-> roots[i], id |-> ids[i], fallback |-> NoFallback]], cfg)

json_execute(stop, input, cfg) ==
  IF input.kind = "bytes"
  THEN LET roots == parse_payload(input.blob.data)
           stem == id_stem(input.blob.filename, <<"json">>)
       IN IF ~IsOk(roots) THEN roots ELSE documents_from_values(stop, roots.ok, cfg, [i \in DOMAIN roots.ok |-> from0(stem, i)])
  ELSE LET docs == into_documents(input)
           item(d) == [root |-> Obj(Map(LAMBDA k : KV(k, d.fields[k]), SetToSeq(DOMAIN d.fields))), id |-> d.id,
                       fallback |-> [id |-> {d.id}, title |-> d.title, content |-> d.content]]
       IN IF ~IsOk(docs) THEN docs ELSE build_documents(stop, Map(item, docs.ok), cfg)

-----------------------------------------------------------------------------
(* msgpack_parser.  A decoded value is a scalar, "bin", "ext" (both become *)
(* base64), "time", "arr" or "map", whose keys are values of any kind.     *)

RECURSIVE convert_msgpack(_)
convert_msgpack(v) ==
  LET map_key(k) == IF k.t \in {"arr", "map"} THEN <<"json">> ELSE convert_msgpack(k).w
  IN CASE v.t \in {"null", "bool", "num", "str"} -> v
       [] v.t = "nan" -> Null
       [] v.t \in {"bin", "ext"} -> Str(<<"base64">> \o v.w)
       [] v.t = "time" -> Str(v.w)
       [] v.t = "arr" -> Arr(Map(convert_msgpack, v.items))
       [] v.t = "map" -> LET f == InsertAll(Map(LAMBDA e : KV(map_key(e.k), convert_msgpack(e.v)), v.entries))
                         IN Obj(Map(LAMBDA k : KV(k, f[k]), SetToSeq(DOMAIN f)))

\* data is the sequence of the concatenated values, {} for one that does not decode.
decode_msgpack(data) ==
  LET values == Map(LAMBDA v : convert_msgpack(Only(v)), data)
  IN CASE data = <<>> \/ (\E i \in DOMAIN data : data[i] = {}) -> Err("InvalidInput")
       [] Len(data) = 1 /\ data[1] # {} -> Ok(select_roots(values[1]))
       [] OTHER -> Ok(values)

msgpack_execute(stop, input, cfg) ==
  LET blob == into_bytes(input)
      roots == decode_msgpack(blob.ok.data)
      stem == id_stem(blob.ok.filename, <<"msgpack">>)
  IN CASE ~IsOk(blob) -> blob
       [] IsOk(blob) /\ stop <= 1 -> Err("Cancelled")
       [] IsOk(blob) /\ stop > 1 /\ ~IsOk(roots) -> roots
       [] OTHER -> documents_from_values(stop - 1, Prefix(roots.ok, cfg.max), cfg, [i \in DOMAIN roots.ok |-> from0(stem, i)])

-----------------------------------------------------------------------------
(* avro_parser.  A decimal is its unscaled integer; the schema, when it    *)
(* lines up, gives the scale.  A schema is [t, ...] or nothing.            *)

RECURSIVE Digits(_)
Digits(n) == IF n < 10 THEN <<n>> ELSE Append(Digits(n \div 10), n % 10)

\* A mutant: as many digits as decimals leave nothing before the point.
PadOneShort(unscaled, scale) ==
  LET digits == Digits(IF unscaled < 0 THEN -unscaled ELSE unscaled)
      short == Len(digits) < scale
  IN [negative |-> unscaled < 0,
      int |-> IF short THEN <<0>> ELSE SubSeq(digits, 1, Len(digits) - scale),
      frac |-> IF short THEN [i \in 1..(scale - Len(digits)) |-> 0] \o digits ELSE SubSeq(digits, Len(digits) - scale + 1, Len(digits))]
\* The text of a scaled integer as [negative, int, frac].
format_scaled(unscaled, scale) ==
  LET digits == Digits(IF unscaled < 0 THEN -unscaled ELSE unscaled)
      short == Len(digits) <= scale
  IN [negative |-> unscaled < 0,
      int |-> IF short /\ scale > 0 THEN <<0>> ELSE SubSeq(digits, 1, Len(digits) - scale),
      frac |-> IF short THEN [i \in 1..(scale - Len(digits)) |-> 0] \o digits ELSE SubSeq(digits, Len(digits) - scale + 1, Len(digits))]

ScaledText(f) == (IF f.negative THEN <<"-">> ELSE <<>>) \o Map(ToString, f.int)
                   \o (IF f.frac = <<>> THEN <<>> ELSE <<".">> \o Map(ToString, f.frac))

RECURSIVE convert_avro(_, _)
convert_avro(v, schema) ==
  LET lines_up(t) == {s \in schema : s.t = t}
  IN CASE v.t \in {"null", "bool", "num", "str"} -> v
       [] v.t = "nan" -> Null
       [] v.t = "bytes" -> Str(<<"base64">> \o v.w)
       [] v.t = "time" -> Str(v.w)                  \* dates, times, timestamps and uuids, as text
       [] v.t = "decimal" -> Str(ScaledText(format_scaled(v.unscaled, Opt({s.scale : s \in lines_up("decimal")}, 0))))
       [] v.t = "union" -> convert_avro(v.value, UNION {IF v.index \in DOMAIN s.variants THEN {s.variants[v.index]} ELSE {}
                                                        : s \in lines_up("union")})
       [] v.t = "arr" -> Arr(Map(LAMBDA x : convert_avro(x, {s.items : s \in lines_up("arr")}), v.items))
       [] v.t = "record" -> Obj(Map(LAMBDA e : KV(e.k, convert_avro(e.v, UNION {Get(s.fields, e.k) : s \in lines_up("record")})), v.kv))

\* A container file is [readable, schema, records], {} for a record that does not decode.
decode_avro(stop, data, max) ==
  LET read == Prefix(data.records, max)
  IN CASE ~data.readable -> Err("InvalidInput")
       [] data.readable /\ (\E i \in DOMAIN read : read[i] = {}) -> Err("InvalidInput")
       [] OTHER -> Cancellable(stop, IF data.records = <<>> \/ max = {0} THEN 0 ELSE 1,
                               Ok(Map(LAMBDA r : convert_avro(Only(r), {data.schema}), read)))

avro_execute(stop, input, cfg) ==
  LET blob == into_bytes(input)
      roots == decode_avro(stop - 1, blob.ok.data, cfg.max)
      stem == id_stem(blob.ok.filename, <<"avro">>)
  IN CASE ~IsOk(blob) -> blob
       [] IsOk(blob) /\ stop <= 1 -> Err("Cancelled")
       [] IsOk(blob) /\ stop > 1 /\ ~IsOk(roots) -> roots
       [] OTHER -> documents_from_values(stop - 2, roots.ok, cfg, [i \in DOMAIN roots.ok |-> from1(stem, i)])

-----------------------------------------------------------------------------
(* parquet_parser.  A file is [marker, readable, batches], a batch {} when *)
(* its row group is bad.  A leaf column is the path of keys to it.         *)

RECURSIVE LeafColumns(_, _)
LeafColumns(path, v) == IF v.t = "obj" THEN UNION {LeafColumns(path \o v.kv[i].k, v.kv[i].v) : i \in DOMAIN v.kv} ELSE {path}

RECURSIVE Project(_, _, _)
Project(path, v, names) ==
  IF v.t # "obj" THEN v
  ELSE Obj(Map(LAMBDA e : KV(e.k, Project(path \o e.k, e.v, names)),
               SelectSeq(v.kv, LAMBDA e : \E c \in LeafColumns(path \o e.k, e.v), n \in names : IsPrefix(n, c))))

\* The batches that are read: the one that fills max_rows is the last.
BatchesRead(data, cfg) ==
  LET full(n) == cfg.max # {} /\ Len(FlattenSeq([i \in 1..n |-> Opt(data.batches[i], <<>>)])) >= Only(cfg.max)
  IN Min({Len(data.batches)} \cup {n \in DOMAIN data.batches : full(n)})

decode_parquet(stop, data, cfg) ==
  LET names == UNION {ToSet(c) : c \in cfg.columns}
      projected(rows) == IF cfg.columns = {} THEN rows ELSE Map(LAMBDA r : Project(<<>>, r, names), rows)
      last == BatchesRead(data, cfg)
      bad == {n \in 1..last : data.batches[n] = {}}
  IN CASE ~data.marker \/ ~data.readable -> Err("InvalidInput")
       [] \E n \in names : ~\E c \in data.columns : IsPrefix(n, c) -> Err("InvalidConfig")
       [] OTHER -> Cancellable(stop, IF bad = {} THEN last ELSE Min(bad),
                     IF bad # {} THEN Err("InvalidInput")
                     ELSE Ok(Prefix(projected(FlattenSeq([n \in 1..last |-> Only(data.batches[n])])), cfg.max)))

parquet_execute(stop, input, cfg) ==
  LET blob == into_bytes(input)
      roots == decode_parquet(stop - 1, blob.ok.data, cfg)
      stem == id_stem(blob.ok.filename, <<"parquet">>)
  IN CASE ~IsOk(blob) -> blob
       [] IsOk(blob) /\ stop <= 1 -> Err("Cancelled")
       [] IsOk(blob) /\ stop > 1 /\ ~IsOk(roots) -> roots
       [] OTHER -> documents_from_values(stop - 1 - BatchesRead(blob.ok.data, cfg), roots.ok, cfg, [i \in DOMAIN roots.ok |-> from1(stem, i)])

-----------------------------------------------------------------------------
(* csv_parser.  The same bytes read as another table under another         *)
(* delimiter: data is [counts, table], both by delimiter, a table [head,   *)
(* rows], a row {} when it is not valid CSV.  A cell is [w, form].         *)

CANDIDATE_DELIMITERS == <<",", ";">>
sniff_delimiter(data) ==
  FoldLeft(LAMBDA best, c : IF data.counts[c] > best.count THEN [d |-> c, count |-> data.counts[c]] ELSE best,
           [d |-> ",", count |-> 0], CANDIDATE_DELIMITERS).d

\* Numbers with a leading zero and numbers that are not finite stay text.
typed_cell(cell) == Scalar(CASE cell.form \in {"int", "u64", "float"} -> "num"
                             [] cell.form = "bool" -> "bool"
                             [] OTHER -> "str", cell.w)

col(i) == <<"col_", ToString(i)>>
column_name(headers, i) == IF i \in DOMAIN headers THEN headers[i] ELSE col(i)
column_index(headers, name) == {i \in DOMAIN headers : headers[i] = name /\ \A j \in 1..(i - 1) : headers[j] # name}
parse_positional(name) == {i \in 1..9 : name = col(i)}

csv_row(headers, cells, row, id_idx, content_idx, stem) ==
  LET filled == SelectSeq([i \in DOMAIN cells |-> [i |-> i, c |-> cells[i]]], LAMBDA x : x.c.w # <<>>)
      fields == InsertAll(Map(LAMBDA x : KV(column_name(headers, x.i), typed_cell(x.c)), filled))
      content == SelectSeq(filled, LAMBDA x : content_idx = {} \/ x.i \in Only(content_idx))
      claimed == UNION {IF i \in DOMAIN cells THEN NonEmpty(cells[i].w) ELSE {} : i \in id_idx}
  IN IF filled = <<>> THEN <<>>
     ELSE <<Document(IF claimed # {} THEN sanitize_id(Only(claimed)) ELSE from1(stem, row), {},
                     FlattenSeq(Map(LAMBDA x : x.c.w, content)),
                     Insert(fields, <<"_row">>, Num(<<ToString(row)>>)))>>

csv_execute(stop, input, cfg) ==
  LET blob == into_bytes(input)
      table == blob.ok.data.table[Opt(cfg.delimiter, sniff_delimiter(blob.ok.data))]
      headers == IF cfg.has_headers THEN [i \in DOMAIN table.head |-> IF table.head[i] = <<>> THEN col(i) ELSE table.head[i]] ELSE <<>>
      index(name) == IF cfg.has_headers THEN column_index(headers, name) ELSE parse_positional(name)
      named == cfg.id_column \cup UNION {ToSet(c) : c \in cfg.content_columns}
      content_idx == {UNION {index(n) : n \in ToSet(c)} : c \in cfg.content_columns}
      rows == Prefix(table.rows, cfg.max)
      bad == {n \in DOMAIN rows : rows[n] = {}}
      stem == id_stem(blob.ok.filename, <<"csv">>)
  IN CASE ~IsOk(blob) -> blob
       [] IsOk(blob) /\ (\E n \in named : index(n) = {}) -> Err("InvalidConfig")
       [] OTHER -> Cancellable(stop, IF bad = {} THEN Len(rows) + 1 ELSE Min(bad),
                     IF bad # {} THEN Err("InvalidInput")
                     ELSE Ok(FlattenSeq([r \in DOMAIN rows |-> csv_row(headers, Only(rows[r]), r, UNION {index(n) : n \in cfg.id_column}, content_idx, stem)])))

-----------------------------------------------------------------------------
(* xlsx_extractor.  A workbook is {} when it does not open, else a         *)
(* sequence of sheets [name, rows], the rows {} when the sheet is broken;  *)
(* a cell is a value, or "empty" or "error" as its type.                   *)

cell_value(c) == IF c.t \in {"empty", "error"} \/ (c.t = "str" /\ c.w = <<>>) THEN {} ELSE {c}
cell_text(c) == UNION {{v.w} : v \in cell_value(c)}
header_name(headers, i) == IF i \in DOMAIN headers THEN Opt(headers[i], col(i)) ELSE col(i)

extract_rows(cfg, base, sheet, rows) ==
  LET headers == IF cfg.has_headers /\ rows # <<>> THEN Map(cell_text, rows[1]) ELSE <<>>
      data == Prefix(IF cfg.has_headers THEN SubSeq(rows, 2, Len(rows)) ELSE rows, cfg.max)
      number(i) == i + (IF cfg.has_headers THEN 1 ELSE 0)
      doc(i) ==
        LET filled == SelectSeq([j \in DOMAIN data[i] |-> [j |-> j, v |-> cell_value(data[i][j])]], LAMBDA x : x.v # {})
            fields == InsertAll(Map(LAMBDA x : KV(header_name(headers, x.j), Only(x.v)), filled))
            d == with_id(base \o <<"_">> \o sanitize_id(sheet) \o <<"_r", ToString(number(i))>>, FlattenSeq(Map(LAMBDA x : Only(x.v).w, filled)))
        IN IF filled = <<>> THEN <<>> ELSE <<[d EXCEPT !.fields = Insert(fields, <<"_row">>, Num(<<ToString(number(i))>>))]>>
  IN FlattenSeq([i \in DOMAIN data |-> doc(i)])

extract_sheet(cfg, base, sheet, rows) ==
  LET text(row) == FlattenSeq(Map(LAMBDA c : Opt(cell_text(c), <<>>), row))
      lines == SelectSeq(Map(text, Prefix(rows, cfg.max)), LAMBDA l : l # <<>>)
      d == with_id(base \o <<"_">> \o sanitize_id(sheet), FlattenSeq(lines))
  IN IF lines = <<>> THEN <<>>
     ELSE <<[d EXCEPT !.title = {sheet}, !.fields = InsertAll(<<KV(<<"_rows">>, Num(<<ToString(Len(lines))>>))>>)]>>

xlsx_execute(stop, input, cfg) ==
  LET blob == into_bytes(input)
      wanted(s) == cfg.sheets = {} \/ s.name \in Only(cfg.sheets)
      broken == {i \in DOMAIN Only(blob.ok.data) : wanted(Only(blob.ok.data)[i]) /\ Only(blob.ok.data)[i].rows = {}}
      seen == Prefix(Only(blob.ok.data), IF broken = {} THEN {} ELSE {Min(broken)})
      looks(s) == 1 + (IF wanted(s) /\ s.rows # {} THEN Len(Only(s.rows)) ELSE 0)   \* one check per sheet and per row
      base == Opt(filename_id_stem(blob.ok.filename), <<"uuid">>)
      each(s) == IF cfg.mode = "row" THEN extract_rows(cfg, base, s.name, Only(s.rows)) ELSE extract_sheet(cfg, base, s.name, Only(s.rows))
  IN CASE ~IsOk(blob) -> blob
       [] IsOk(blob) /\ blob.ok.data = {} -> Err("NonRetryable")
       [] OTHER -> Cancellable(stop, FoldLeft(LAMBDA n, s : n + looks(s), 0, seen),
                     IF broken # {} THEN Err("NonRetryable") ELSE Ok(FlattenSeq(Map(each, SelectSeq(seen, wanted)))))
-----------------------------------------------------------------------------
(* What a conversion must keep, defined without the code's own walk.       *)

RECURSIVE Leaves(_, _)
Leaves(path, v) ==
  CASE v.t = "obj" -> UNION {Leaves(path \o v.kv[i].k, v.kv[i].v) : i \in DOMAIN v.kv}
    [] v.t = "arr" -> UNION {Leaves(Append(path, ToString(i - 1)), v.items[i]) : i \in DOMAIN v.items}
    [] OTHER -> {KV(path, v)}

\* Every scalar of a record is under its own path in the fields, or in the id, the title
\* or the content when its key was made one of them, or another scalar has the same path.
RecordKept(root, cfg, doc) ==
  LET leaves == Leaves(IF root.t = "obj" THEN <<>> ELSE <<"value">>, root)
      found == UNION {Leaves(k, doc.fields[k]) : k \in DOMAIN doc.fields}
      taken == {cfg.id_field} \cup cfg.title_field \cup UNION {ToSet(c) : c \in cfg.content_fields}
  IN \A l \in leaves : \/ l \in found
                       \/ \E k \in taken : IsPrefix(k, l.k)
                       \/ \E m \in leaves \cup found : m # l /\ m.k = l.k

\* A limit cuts the end off and changes nothing before it.
LimitCuts(limited, all) == IsOk(limited) /\ IsOk(all) => IsPrefix(limited.ok, all.ok)

\* Two documents with one id: a record of theirs named it, or the id had to be cut.
IdsApart(docs, Claims(_)) ==
  \A i, j \in DOMAIN docs : i < j /\ docs[i].id = docs[j].id => Claims(i) \/ Claims(j) \/ Len(docs[i].id) >= MaxId

\* The text of a decimal is the decimal: no digit is lost, and the point is in its place.
DecimalExact(unscaled, scale) ==
  LET f == format_scaled(unscaled, scale)
      value(digits) == FoldLeft(LAMBDA n, d : 10 * n + d, 0, digits)
  IN /\ Len(f.frac) = scale /\ f.int # <<>>
     /\ value(f.int) * 10^scale + value(f.frac) = (IF f.negative THEN -unscaled ELSE unscaled)
=============================================================================
