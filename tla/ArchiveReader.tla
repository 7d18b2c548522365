----------------------------- MODULE ArchiveReader -----------------------------
(***************************************************************************)
(* The walk over an archive (archive/src/lib.rs), as operators.            *)
(*                                                                         *)
(* A file's data is [f, size] and, for an archive, what it holds: a zip or *)
(* a tar its entries, a gzip stream its inner data.  An entry is [path,    *)
(* kind, safe, declared, readable, data].  A path is a sequence of names,  *)
(* a name the sequence of its parts between dots.  The walk threads        *)
(* [events, files, skipped, bytes, err]; the sink gives up after lim.stop  *)
(* events.                                                                 *)
(***************************************************************************)
EXTENDS Integers, Sequences, FiniteSets, SequencesExt

is_tar(d) == d.f = "tar"
sniff(d) == {d.f} \cap {"gzip", "zip", "tar"}

basename(path) == path[Len(path)]
has_extension(path, ext) == Len(basename(path)) > 1 /\ Last(basename(path)) = ext

\* Office documents are zips too: only .zip is a folder.
nested_format(d, path) == sniff(d) \ (IF has_extension(path, "zip") THEN {} ELSE {"zip"})

gunzipped_name(name) ==
  CASE Last(name) = "tgz" /\ Len(name) > 1 -> Append(Front(name), "tar")
    [] Last(name) = "gz" /\ Len(name) > 1 -> Front(name)
    [] OTHER -> name

Noise == {<<"", "DS_Store">>, <<"Thumbs", "db">>, <<"desktop", "ini">>}
is_noise(path) == <<"__MACOSX">> \in ToSet(path) \/ basename(path) \in Noise \/ (Len(basename(path)) > 1 /\ basename(path)[1] = "" /\ basename(path)[2] = "_")

-----------------------------------------------------------------------------
Walking == [events |-> <<>>, files |-> 0, skipped |-> 0, bytes |-> 0, err |-> "none"]
Fails(s, e) == [s EXCEPT !.err = e]
is_local(e) == e \in {"Corrupt", "FileTooLarge"}

\* What is handed to the sink; open says how many archives are open around a file.
Emit(s, event, lim) == IF Len(s.events) >= lim.stop THEN Fails(s, "Stopped") ELSE [s EXCEPT !.events = Append(@, event)]
skip(s, path, lim) == Emit([s EXCEPT !.skipped = @ + 1], [e |-> "skipped", path |-> path, open |-> 0], lim)

\* Reads a decompressing reader against the limits: [s, got], got "data", "large" or "io".
read_counted(s, size, readable, lim) ==
  LET left == IF lim.max_total_bytes > s.bytes THEN lim.max_total_bytes - s.bytes ELSE 0
      cap == IF lim.max_file_bytes < left THEN lim.max_file_bytes ELSE left
  IN CASE size > cap /\ cap + 1 > left -> [s |-> Fails(s, "TooLarge"), got |-> "fatal"]
       [] size > cap /\ cap + 1 <= left -> [s |-> s, got |-> "large"]
       [] size <= cap /\ ~readable -> [s |-> s, got |-> "io"]
       [] OTHER -> [s |-> [s EXCEPT !.bytes = @ + size], got |-> "data"]

RECURSIVE archive(_, _, _, _, _, _)

\* An archive inside: what is wrong with it alone is one skipped entry of the outer walk.
OpenNested(s, path, d, depth, lim) ==
  LET f == CHOOSE f \in nested_format(d, path) : TRUE
      prefix == IF f = "gzip" THEN Front(path) ELSE path
      end == archive(s, d, prefix, <<basename(path)>>, depth + 1, lim)
  IN IF is_local(end.err) THEN skip(Fails(end, "none"), path, lim) ELSE end

file(s, path, d, depth, lim) ==
  CASE d.size = 0 -> skip(s, path, lim)
    [] d.size > 0 /\ nested_format(d, path) # {} /\ depth >= lim.max_depth -> skip(s, path, lim)
    [] d.size > 0 /\ nested_format(d, path) # {} /\ depth < lim.max_depth -> OpenNested(s, path, d, depth, lim)
    [] d.size > 0 /\ nested_format(d, path) = {} /\ s.files >= lim.max_files -> Fails(s, "TooManyFiles")
    [] OTHER -> Emit([s EXCEPT !.files = @ + 1], [e |-> "file", path |-> path, open |-> depth], lim)

\* What every reader asks of an entry before it reads it.
Dropped(e, path) == e.kind = "dir" \/ (e.safe /\ is_noise(path))
Unfit(e, lim) == ~e.safe \/ e.kind = "link" \/ e.declared > lim.max_file_bytes

zip(s, d, prefix, depth, lim) ==
  IF ~d.readable THEN Fails(s, "Corrupt")
  ELSE FoldLeft(LAMBDA t, e :
         LET path == prefix \o e.path
             r == read_counted(t, e.data.size, e.readable, lim)
         IN CASE t.err # "none" \/ Dropped(e, path) -> t
              [] t.err = "none" /\ ~Dropped(e, path) /\ Unfit(e, lim) -> skip(t, path, lim)
              [] t.err = "none" /\ ~Dropped(e, path) /\ ~Unfit(e, lim) /\ r.got \in {"large", "io"} -> skip(t, path, lim)
              [] t.err = "none" /\ ~Dropped(e, path) /\ ~Unfit(e, lim) /\ r.got = "fatal" -> r.s
              [] OTHER -> file(r.s, path, e.data, depth, lim),
       s, d.entries)

\* A tar's bytes are not decompressed and not counted; devices and extension headers hold nothing.
tar(s, d, prefix, depth, lim) ==
  IF ~d.readable THEN Fails(s, "Corrupt")
  ELSE FoldLeft(LAMBDA t, e :
         LET path == prefix \o e.path
         IN CASE t.err # "none" \/ Dropped(e, path) \/ (e.kind = "other" /\ e.safe) -> t
              [] t.err = "none" /\ ~Dropped(e, path) /\ ~(e.kind = "other" /\ e.safe) /\ Unfit(e, lim) -> skip(t, path, lim)
              [] t.err = "none" /\ ~Dropped(e, path) /\ e.kind = "file" /\ ~Unfit(e, lim) /\ ~e.readable -> Fails(t, "Corrupt")
              [] OTHER -> file(t, path, e.data, depth, lim),
       s, d.entries)

\* A .tar.gz is one archive; any other stream is one file in the place of the stream.
gzip(s, d, prefix, name, depth, lim) ==
  LET r == read_counted(s, d.inner.size, d.readable, lim)
  IN CASE r.got = "large" -> Fails(s, "FileTooLarge")
       [] r.got = "io" -> Fails(s, "Corrupt")
       [] r.got = "fatal" -> r.s
       [] r.got = "data" /\ is_tar(d.inner) -> tar(r.s, d.inner, prefix, depth, lim)
       [] OTHER -> file(r.s, Append(prefix, IF name = <<>> THEN <<"file">> ELSE gunzipped_name(name[1])), d.inner, depth, lim)

archive(s, d, prefix, name, depth, lim) ==
  CASE d.f = "zip" -> zip(s, d, prefix, depth, lim)
    [] d.f = "tar" -> tar(s, d, prefix, depth, lim)
    [] OTHER -> gzip(s, d, prefix, name, depth, lim)

walk(d, name, lim) == archive(Walking, d, <<>>, name, 1, lim)

-----------------------------------------------------------------------------
Fits(e, path, depth, lim) == /\ ~Unfit(e, lim) /\ e.readable /\ e.data.readable /\ e.data.f \in {"zip", "tar"}
                             /\ e.data.size \in 1..lim.max_file_bytes /\ nested_format(e.data, path) # {} /\ depth < lim.max_depth

\* Each entry but folders and system files was told once, those of an archive inside under its path.
RECURSIVE Tells(_, _, _, _, _)
Tells(events, d, prefix, depth, lim) ==
  \A i \in DOMAIN d.entries :
    LET e == d.entries[i]
        path == prefix \o e.path
        names == IF e.data.f = "gzip" THEN {basename(path), gunzipped_name(basename(path))} ELSE {basename(path)}
        told == {k \in DOMAIN events : Front(events[k].path) = Front(path) /\ basename(events[k].path) \in names}
    IN \/ e.kind \in {"dir", "other"} \/ is_noise(path)
       \/ IF Fits(e, path, depth, lim) THEN Cardinality(told) = 1 \/ Tells(events, e.data, path, depth + 1, lim)
          ELSE Cardinality(told) = 1 \/ (e.data.f = "gzip" /\ is_tar(e.data.inner))
               \/ (Cardinality(told) = 0 /\ e.data.f \in {"zip", "tar"} /\ \E k \in DOMAIN events : IsPrefix(path, events[k].path))

(* A walk that ends well told of everything in the archive, each entry     *)
(* once, as a file or as skipped, except folders and system files; what it *)
(* counts is what it told; it never opens more than max_depth archives     *)
(* around a file, hands over more than max_files files or reads more than  *)
(* max_total_bytes of compressed content; an archive inside that is broken *)
(* costs that archive only (Walker::archive, file, read_counted).          *)
WalkTold(d, name, lim) ==
  LET end == walk(d, name, lim)
      n(kind) == Len(SelectSeq(end.events, LAMBDA e : e.e = kind))
  IN /\ end.err # "Stopped" => n("file") = end.files /\ n("skipped") = end.skipped
     /\ end.files <= lim.max_files /\ end.bytes <= lim.max_total_bytes
     /\ \A k \in DOMAIN end.events : end.events[k].open <= lim.max_depth
     /\ end.err = "none" /\ d.f \in {"zip", "tar"} => Tells(end.events, d, <<>>, 1, lim)
     /\ end.err = "TooManyFiles" => end.files = lim.max_files
     /\ end.err \in {"Corrupt", "FileTooLarge"} => ~d.readable \/ d.f = "gzip" \/ (d.f = "tar" /\ \E i \in DOMAIN d.entries : ~d.entries[i].readable)
=============================================================================
