----------------------------- MODULE TextSections -----------------------------
(***************************************************************************)
(* The converters of formatted text: docx, markdown, html, pdf and pptx.   *)
(*                                                                         *)
(* A text is a sequence of words: line breaks, markup and white space are  *)
(* left out, so a blank text is <<>>.  A file is what the format's parser  *)
(* (a library) finds in the bytes; {} stands for one it cannot read.  A    *)
(* result is [docs, pages], pages the usage that was recorded.             *)
(***************************************************************************)
EXTENDS Documents

Made(docs, pages) == Ok([docs |-> docs, pages |-> pages])
base_id(blob) == Opt(filename_id_stem(blob.filename), <<"uuid">>)
Titled(id, content, title) == [with_id(id, content) EXCEPT !.title = title]
Words(texts) == FlattenSeq(texts)
NotBlank(texts) == SelectSeq(texts, LAMBDA t : t # <<>>)

-----------------------------------------------------------------------------
(* docx_extractor.  A node is [n, w] or [n, children]; a table's children  *)
(* are rows, of cells, of nodes.                                           *)

RECURSIVE NodeText(_)
NodeText(node) ==
  CASE node.n \in {"run"} -> node.w
    [] node.n \in {"link", "insert", "sdt", "paragraph"} -> Words(Map(NodeText, node.children))
    [] node.n = "table" -> Words(Map(LAMBDA row : Words(Map(LAMBDA c : Words(Map(NodeText, c)), row)), node.children))
    [] OTHER -> <<>>           \* deletions, bookmarks, comments, page numbers, tables of contents

\* Blocks of the body: a paragraph with its style, a table, or a tagged region without one.
collect_blocks(body) ==
  LET kept == SelectSeq(body, LAMBDA node : node.n \in {"paragraph", "table", "sdt"})
  IN Map(LAMBDA node : [style |-> IF node.n = "paragraph" THEN node.style ELSE "none", text |-> NodeText(node), table |-> node.n = "table"], kept)

Section(heading) == [heading |-> heading, parts |-> <<>>]
AddPart(sections, text) == IF text = <<>> THEN sections ELSE [sections EXCEPT ![Len(sections)].parts = Append(@, text)]

docx_step(cfg, st, block) ==
  CASE block.table -> [st EXCEPT !.sections = AddPart(@, block.text)]
    [] ~block.table /\ block.text = <<>> -> st
    [] ~block.table /\ block.text # <<>> /\ st.title = {} /\ block.style = "title" -> [st EXCEPT !.title = {block.text}]
    [] ~block.table /\ block.text # <<>> /\ ~(st.title = {} /\ block.style = "title") /\ cfg.split_on_headings /\ block.style = "heading"
         -> [st EXCEPT !.sections = Append(@, Section({block.text}))]
    [] OTHER -> [st EXCEPT !.sections = AddPart(@, block.text)]

\* One document per section that has text, titled by its heading or the fallback, or one for the whole file.
SectionDocs(split, base, sections, fallback, fileTitle, fields) ==
  LET full == SelectSeq(sections, LAMBDA s : Words(s.parts) # <<>>)
      whole == Words(Map(LAMBDA s : Words(s.parts), full))
      doc(i) == [Titled(base \o <<"_s", ToString(i)>>, Words(full[i].parts), IF full[i].heading # {} THEN full[i].heading ELSE fallback) EXCEPT !.fields = fields]
  IN IF split THEN [i \in DOMAIN full |-> doc(i)]
     ELSE IF whole = <<>> THEN <<>> ELSE <<[Titled(base, whole, fileTitle) EXCEPT !.fields = fields]>>

docx_execute(stop, input, cfg) ==
  LET blob == into_bytes(input)
      file == Only(blob.ok.data)
      blocks == collect_blocks(file.body)
      st == FoldLeft(LAMBDA s, b : docx_step(cfg, s, b), [title |-> file.title, sections |-> <<Section({})>>], blocks)
  IN CASE ~IsOk(blob) -> blob
       [] IsOk(blob) /\ blob.ok.data = {} -> Err("NonRetryable")
       [] OTHER -> Cancellable(stop, Len(blocks),
                     Made(SectionDocs(cfg.split_on_headings, base_id(blob.ok), st.sections, st.title, st.title, NoFields), 0))

-----------------------------------------------------------------------------
(* markdown_extractor.  The parser's events are [e, ...]; the renderer's   *)
(* state leaves out the line breaks it keeps for the layout.               *)

\* Front matter is {} (none), or {[yaml |-> {} or the fields]}; yaml {} does not parse into a map.
front_matter(cfg, file) == IF cfg.front_matter THEN UNION {m.yaml : m \in file.front} ELSE {}
fm_title(fields) == UNION {NonEmpty(v.w) : v \in Get(fields, <<"title">>)}

Renderer == [sections |-> <<Section({})>>, heading |-> {}, lists |-> <<>>, first_h1 |-> {}]
text(r, w) == IF r.heading # {} THEN [r EXCEPT !.heading = {[l |-> h.l, w |-> h.w \o w] : h \in @}] ELSE [r EXCEPT !.sections = AddPart(@, w)]

end_heading(cfg, r, level) ==
  LET words == Only(r.heading).w
      closed == [r EXCEPT !.heading = {}]
      h1 == IF level = 1 /\ r.first_h1 = {} THEN [closed EXCEPT !.first_h1 = {words}] ELSE closed
  IN CASE r.heading = {} -> r
       [] r.heading # {} /\ words = <<>> -> closed
       [] r.heading # {} /\ words # <<>> /\ cfg.split_on_headings /\ level <= cfg.heading_level -> [h1 EXCEPT !.sections = Append(@, Section({words}))]
       [] OTHER -> [h1 EXCEPT !.sections = AddPart(@, words)]

\* An ordered list counts its items, whatever list is nested in one of them.
start_item(r) ==
  LET n == Len(r.lists)
      ordered == n > 0 /\ r.lists[n] # {}
      marked == [r EXCEPT !.sections = AddPart(@, IF ordered THEN <<ToString(Only(r.lists[n]))>> ELSE <<"-">>)]
  IN IF ordered THEN [marked EXCEPT !.lists[n] = {Only(@) + 1}] ELSE marked

event(cfg, r, ev) ==
  CASE ev.e = "heading" -> [r EXCEPT !.heading = {[l |-> ev.level, w |-> <<>>]}]
    [] ev.e = "end_heading" -> end_heading(cfg, r, ev.level)
    [] ev.e = "list" -> [r EXCEPT !.lists = Append(@, ev.start)]
    [] ev.e = "end_list" -> [r EXCEPT !.lists = Front(@)]
    [] ev.e = "item" -> start_item(r)
    [] ev.e = "text" -> text(r, ev.w)
    [] OTHER -> r                \* HTML is dropped, inline containers only keep their text

markdown_execute(stop, input, cfg) ==
  LET blob == into_bytes(input)
      file == blob.ok.data
      front == front_matter(cfg, file)
      fields == Opt(front, NoFields)
      events == IF front = {} THEN file.raw ELSE file.events      \* front matter that is not taken is text
      r == FoldLeft(LAMBDA st, ev : event(cfg, st, ev), Renderer, events)
      fm == fm_title(fields)
  IN IF ~IsOk(blob) THEN blob
     ELSE Cancellable(stop, IF events = <<>> THEN 1 ELSE 2,
            Made(SectionDocs(cfg.split_on_headings, base_id(blob.ok), r.sections, fm,
                             IF fm # {} THEN fm ELSE r.first_h1, Without(fields, {<<"title">>})), 0))

-----------------------------------------------------------------------------
(* html_extractor.  A node is a text [n |-> "text", w] or an element       *)
(* [n |-> its name, href, children].                                       *)

NOISE == {"script", "style", "noscript", "nav", "footer", "header", "aside", "template", "svg"}

RECURSIVE remove_noise(_)
remove_noise(node) ==
  IF node.n = "text" THEN node
  ELSE [node EXCEPT !.children = Map(remove_noise, SelectSeq(@, LAMBDA c : c.n \notin NOISE))]

RECURSIVE append_text(_)
append_text(node) == IF node.n = "text" THEN node.w ELSE Words(Map(append_text, node.children))

\* The elements of a name, in document order.
RECURSIVE select(_, _)
select(node, name) ==
  IF node.n = "text" THEN <<>>
  ELSE (IF node.n = name THEN <<node>> ELSE <<>>) \o FlattenSeq(Map(LAMBDA c : select(c, name), node.children))

first_text(node, name) == LET found == NotBlank(Map(append_text, select(node, name))) IN IF found = <<>> THEN {} ELSE {found[1]}
links_of(root) ==
  LET hrefs == SelectSeq(Map(LAMBDA a : a.href, select(root, "a")), LAMBDA h : h # <<>>)
  IN FoldLeft(LAMBDA seen, h : IF h \in ToSet(seen) THEN seen ELSE Append(seen, h), <<>>, hrefs)
content_root(doc) == LET found == select(doc, "main") \o select(doc, "article") \o select(doc, "body") IN IF found = <<>> THEN {} ELSE {found[1]}

html_execute(stop, input, cfg) ==
  LET blob == into_bytes(input)
      raw == blob.ok.data.doc
      doc == remove_noise(raw)
      title_tag == first_text(raw, "title")
      title == IF title_tag # {} THEN title_tag ELSE first_text(doc, "h1")
      root == content_root(doc)
      content == append_text(Opt(root, doc))
      links == IF root = {} THEN <<>> ELSE links_of(Only(root))
      described == IF cfg.include_meta_description THEN {KV(<<"description">>, Str(d)) : d \in blob.ok.data.description} ELSE {}
      linked == IF cfg.extract_links THEN {KV(<<"links">>, Arr(Map(Str, links)))} ELSE {}
  IN IF ~IsOk(blob) THEN blob
     ELSE Cancellable(stop, 2,
            Made(IF content = <<>> /\ title = {} THEN <<>>
                 ELSE <<[Titled(base_id(blob.ok), content, title) EXCEPT !.fields = InsertAll(SetToSeq(described) \o SetToSeq(linked))]>>, 0))

-----------------------------------------------------------------------------
(* pdf_extractor.  A file is the sequence of its pages' texts, and how     *)
(* many pages a second parse counts (0 when that parse fails).             *)

pdf_execute(stop, input, cfg) ==
  LET blob == into_bytes(input)
      pages == Only(blob.ok.data).pages
      read == Prefix(pages, cfg.max_pages)
      looked == Len(Prefix(pages, {Only(m) + 1 : m \in {cfg.max_pages} \ {{}}}))   \* a check per page, the one past the cap too
      filled == SelectSeq([i \in DOMAIN read |-> [i |-> i, w |-> read[i]]], LAMBDA p : p.w # <<>>)
      whole == Words(read)
      one == IF whole = <<>> THEN <<>> ELSE <<with_id(base_id(blob.ok), whole)>>
  IN CASE ~IsOk(blob) -> blob
       [] IsOk(blob) /\ blob.ok.data = {} -> Err("NonRetryable")
       [] IsOk(blob) /\ blob.ok.data # {} /\ cfg.per_page
            -> Cancellable(stop, looked, Made(Map(LAMBDA p : with_id(base_id(blob.ok) \o <<"_p", ToString(p.i)>>, p.w), filled), Len(read)))
       [] IsOk(blob) /\ blob.ok.data # {} /\ ~cfg.per_page /\ cfg.max_pages = {} -> Cancellable(stop, 1, Made(one, Only(blob.ok.data).counted))
       [] OTHER -> Cancellable(stop, looked + 1, Made(one, Len(read)))

-----------------------------------------------------------------------------
(* pptx_extractor.  A deck is a set of parts [kind, number, declared,      *)
(* size, xml]; the xml is a sequence of events, or {} when malformed.      *)

MAX_PART_BYTES == 2
MAX_TOTAL_BYTES == 5

Shape == [placeholder |-> {}, lines |-> <<>>]
parse_step(st, ev) ==
  LET here == Last(st.open)
      at == st.par # {}
  IN CASE ev.e = "sp" -> [st EXCEPT !.shapes = Append(@, Shape), !.open = Append(@, Len(st.shapes) + 1)]
       [] ev.e = "end_sp" -> IF Len(st.open) > 1 THEN [st EXCEPT !.open = Front(@)] ELSE st
       [] ev.e = "ph" /\ st.shapes[here].placeholder = {} -> [st EXCEPT !.shapes[here].placeholder = ev.type]
       [] ev.e = "p" -> [st EXCEPT !.par = {<<>>}]
       [] ev.e = "end_p" /\ at -> [st EXCEPT !.par = {}, !.shapes[here].lines = IF Only(st.par) = <<>> THEN @ ELSE Append(@, Only(st.par))]
       [] ev.e = "t" -> [st EXCEPT !.depth = @ + 1]
       [] ev.e = "end_t" -> [st EXCEPT !.depth = IF @ = 0 THEN 0 ELSE @ - 1]
       [] ev.e = "text" /\ st.depth > 0 /\ at -> [st EXCEPT !.par = {Only(@) \o ev.w}]
       [] OTHER -> st
parse_part(events) == FoldLeft(parse_step, [shapes |-> <<Shape>>, open |-> <<1>>, depth |-> 0, par |-> {}], events).shapes

Chrome(shape) == shape.placeholder \cap {"sldnum", "dt", "ftr", "sldimg"} # {}
LinesOf(shapes) == FlattenSeq(Map(LAMBDA s : s.lines, SelectSeq(shapes, LAMBDA s : ~Chrome(s))))

\* The title placeholder's text, or the first line of the slide.
SlideTitle(shapes) ==
  LET titles == SelectSeq(shapes, LAMBDA s : s.placeholder \cap {"title", "ctrtitle"} # {} /\ s.lines # <<>>)
      lines == LinesOf(shapes)
  IN CASE titles # <<>> -> {Words(titles[1].lines)}
       [] titles = <<>> /\ lines # <<>> -> {lines[1]}
       [] OTHER -> {}

\* A mutant: each part is held against its own limit only.
OwnLimitOnly(part, budget) ==
  IF part.declared > MAX_PART_BYTES \/ part.size > MAX_PART_BYTES \/ part.xml = {} THEN {} ELSE {[left |-> budget - part.size, shapes |-> parse_part(Only(part.xml))]}
\* A part is read under its own limit and under what is left for the deck: {} when it is refused.
read_part(part, budget) ==
  LET cap == Min({MAX_PART_BYTES, budget})
  IN IF part.declared > MAX_PART_BYTES \/ part.size > cap \/ part.xml = {} THEN {} ELSE {[left |-> budget - part.size, shapes |-> parse_part(Only(part.xml))]}

\* The slides in the order of their numbers, each with its notes; "bad" once a part is refused.
read_slides(deck, cfg) ==
  LET numbers == Prefix(SetToSortSeq({p.number : p \in {p \in deck : p.kind = "slide"}}, <), cfg.max_slides)
      part(kind, n) == {p \in deck : p.kind = kind /\ p.number = n}
      read(acc, n) ==
        LET slide == UNION {read_part(p, acc.budget) : p \in part("slide", n)}
            notes == IF cfg.include_notes THEN part("notes", n) ELSE {}
            noted == UNION {UNION {read_part(p, s.left) : s \in slide} : p \in notes}
            left == IF notes = {} THEN Only(slide).left ELSE Only(noted).left
            new == [page |-> Len(acc.slides) + 1, title |-> SlideTitle(Only(slide).shapes), lines |-> Words(LinesOf(Only(slide).shapes)),
                    notes |-> IF notes = {} THEN <<>> ELSE Words(LinesOf(Only(noted).shapes))]
        IN IF acc.bad \/ slide = {} \/ (notes # {} /\ noted = {})
           THEN [acc EXCEPT !.bad = TRUE, !.checks = @ + (IF acc.bad THEN 0 ELSE 1)]
           ELSE [acc EXCEPT !.budget = left, !.slides = Append(@, new), !.checks = @ + 1]
  IN FoldLeft(read, [budget |-> MAX_TOTAL_BYTES, slides |-> <<>>, bad |-> FALSE, checks |-> 0], numbers)

pptx_execute(stop, input, cfg) ==
  LET blob == into_bytes(input)
      r == read_slides(Only(blob.ok.data), cfg)
      base == base_id(blob.ok)
      content(s) == IF cfg.notes_in_content THEN s.lines \o s.notes ELSE s.lines
      noted(d, notes) == IF notes = <<>> THEN d ELSE [d EXCEPT !.fields = InsertAll(<<KV(<<"notes">>, Str(notes))>>)]
      shown == SelectSeq(r.slides, LAMBDA s : ~(cfg.skip_empty_slides /\ s.lines = <<>> /\ s.notes = <<>>))
      whole == Words(Map(content, r.slides))
      notes == Words(Map(LAMBDA s : s.notes, r.slides))
      titles == SelectSeq(r.slides, LAMBDA s : s.title # {})
      deckDoc == noted(Titled(base, whole, IF titles = <<>> THEN {} ELSE titles[1].title), notes)
      docs == IF cfg.per_slide THEN Map(LAMBDA s : noted(Titled(base \o <<"_s", ToString(s.page)>>, content(s), s.title), s.notes), shown)
              ELSE IF whole = <<>> /\ notes = <<>> THEN <<>> ELSE <<deckDoc>>
  IN CASE ~IsOk(blob) -> blob
       [] IsOk(blob) /\ blob.ok.data = {} -> Err("NonRetryable")
       [] OTHER -> Cancellable(stop, r.checks, IF r.bad THEN Err("NonRetryable") ELSE Made(docs, Len(r.slides)))
=============================================================================
