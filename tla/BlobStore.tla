------------------------------- MODULE BlobStore -------------------------------
(***************************************************************************)
(* The blob store (blob/src/lib.rs): uploads staged by the gateway and     *)
(* step outputs spilled by the worker.  The state is one job: the attempts *)
(* of its steps put what they computed and a later step reads it back,     *)
(* object by object.  (The objects of other stores are in Fetching.)       *)
(*                                                                         *)
(* The id of a step, the name of an object and a key are sequences of      *)
(* words.  A slot is <<step, branch>>, branch {} or {its number, written   *)
(* out}; an attempt is <<slot, number>>.  A Result is [ok] or [err].       *)
(***************************************************************************)
EXTENDS Integers, Sequences

CONSTANTS
  Inputs,      \* the slots a later step reads, in the order its input lists them
  Attempts,    \* attempts of an activity
  Uploads,     \* the files that may be uploaded: [name, mime, size], name <<>> for none
  threshold,   \* outputs larger than this are spilled
  inline_max   \* uploads larger than this are staged

VARIABLES
  objects,     \* function: key -> what is stored there
  input,       \* the PluginInput the gateway made of the upload, {} before that
  attempt,     \* function: attempt -> [phase] and what it holds
  accepted,    \* function: slot -> {} or the output the workflow has
  reader       \* the step that reads them: what it has resolved so far

store == <<objects, input, attempt, accepted, reader>>

Ok(x) == [ok |-> x]
Err(e) == [err |-> e]
IsOk(r) == "ok" \in DOMAIN r
Only(s) == CHOOSE x \in s : TRUE

-----------------------------------------------------------------------------
(* Keys, names and what is stored. *)

staged_key(name) == <<"jobs", "id">> \o name
SPILLED_OUTPUT_MIME == "spilled"
Staged(key, mime, name) == [kind |-> "ref", key |-> key, mime |-> mime, name |-> name]
Bytes(blob) == [kind |-> "bytes", blob |-> blob]
FileBytes(blob) == [kind |-> "file", blob |-> blob]
Output(a, size) == [kind |-> "documents", docs |-> <<a>>, size |-> size]
Sizes == {threshold, threshold + 1}

guess_mime(name) == IF name # <<>> /\ name[Len(name)] = "pdf" THEN "pdf" ELSE "octet"

\* The last segment that is not empty.
last_segment(name) ==
  LET words == {i \in 1..Len(name) : name[i] # "/"}
      last == CHOOSE i \in words : \A j \in words : j <= i
      first == CHOOSE i \in 1..last : i..last \subseteq words /\ i - 1 \notin words
  IN IF words = {} THEN <<>> ELSE SubSeq(name, first, last)

spill_nameAlone(slot) == slot[1] \o <<".json">>    \* Mutant of spill_name: the branches of a step share one
spill_name(slot) == (IF slot[2] = {} THEN slot[1] ELSE slot[1] \o <<"-", Only(slot[2])>>) \o <<".json">>
spill_key(slot) == staged_key(spill_name(slot))

upload_key(blob) ==
  LET file == last_segment(blob.name)
  IN staged_key(<<"input", "/">> \o (IF file = <<>> THEN <<"upload.bin">> ELSE file))

-----------------------------------------------------------------------------
(* put, get, hydrate_output, the staged branch of fetch_ref, resolve_output. *)

put(key, value) == objects' = [k \in DOMAIN objects \cup {key} |-> IF k = key THEN value ELSE objects[k]]
get(key) == IF key \in DOMAIN objects THEN Ok(objects[key]) ELSE Err("NotFound")

\* One round of hydrate_output; hydrated is what it makes of a stored output.
Hydrate(output, hydrated) ==
  IF output.kind = "ref" /\ output.mime = {SPILLED_OUTPUT_MIME}
  THEN LET got == get(output.key) IN IF ~IsOk(got) THEN got ELSE IF got.ok.kind = "file" THEN Err("Json") ELSE hydrated[got.ok]
  ELSE Ok(output)
hydrate_output(output) ==
  LET hydrated[o \in {output} \cup {objects[k] : k \in DOMAIN objects}] == Hydrate(o, hydrated)
  IN hydrated[output]

fetch_staged(r) ==
  LET got == get(r.key)
      name == IF r.name # <<>> THEN r.name ELSE last_segment(r.key)
  IN IF ~IsOk(got) THEN got ELSE Ok(Bytes([data |-> got.ok, name |-> name, mime |-> IF r.mime # {} THEN Only(r.mime) ELSE guess_mime(name)]))
resolve_output(output) ==
  LET hydrated == hydrate_output(output) IN IF IsOk(hydrated) /\ hydrated.ok.kind = "ref" THEN fetch_staged(hydrated.ok) ELSE hydrated

-----------------------------------------------------------------------------
Slots == {Inputs[i] : i \in 1..Len(Inputs)}
Acts == Slots \X Attempts

Init ==
  /\ objects = <<>> /\ input = {} /\ reader = <<>>
  /\ attempt = [a \in Acts |-> [phase |-> "none"]]
  /\ accepted = [s \in Slots |-> {}]

\* stage_upload, in the gateway and in the archive activities.
stage_upload(blob) ==
  /\ input = {}
  /\ \/ /\ blob.size <= inline_max
        /\ input' = {Bytes([data |-> FileBytes(blob), name |-> blob.name, mime |-> blob.mime])}
        /\ UNCHANGED objects
     \/ /\ blob.size > inline_max
        /\ put(upload_key(blob), FileBytes(blob))
        /\ input' = {Staged(upload_key(blob), {blob.mime}, blob.name)}
  /\ UNCHANGED <<attempt, accepted, reader>>

\* An attempt starts when the one before is given up; it may still be running.
execute(a, size) ==
  /\ input # {} /\ attempt[a].phase = "none" /\ accepted[a[1]] = {}
  /\ \A n \in Attempts : n < a[2] => attempt[<<a[1], n>>].phase # "none"
  /\ attempt' = [attempt EXCEPT ![a] = [phase |-> "ran", output |-> Output(a, size)]]
  /\ UNCHANGED <<objects, input, accepted, reader>>

spill_output(a) ==
  /\ attempt[a].phase = "ran"
  /\ LET output == attempt[a].output
         Answers(o) == attempt' = [attempt EXCEPT ![a] = [phase |-> "answers", output |-> o]]
     IN \/ output.size <= threshold /\ Answers(output) /\ UNCHANGED objects
        \/ /\ output.size > threshold
           /\ put(spill_key(a[1]), output)
           /\ Answers(Staged(spill_key(a[1]), {SPILLED_OUTPUT_MIME}, <<>>))
  /\ UNCHANGED <<input, accepted, reader>>

\* Temporal takes the answer of the latest attempt and of no other.
accept(a) ==
  /\ attempt[a].phase = "answers" /\ accepted[a[1]] = {}
  /\ \A n \in Attempts : n > a[2] => attempt[<<a[1], n>>].phase = "none"
  /\ accepted' = [accepted EXCEPT ![a[1]] = {attempt[a].output}]
  /\ UNCHANGED <<objects, input, attempt, reader>>

\* resolve_input walks a Many in order; one object is read at a time.
resolve_input ==
  /\ \A s \in Slots : accepted[s] # {}
  /\ Len(reader) < Len(Inputs)
  /\ reader' = Append(reader, resolve_output(Only(accepted[Inputs[Len(reader) + 1]])))
  /\ UNCHANGED <<objects, input, attempt, accepted>>

\* The reader's own attempt is given up and tried again.
retry_reader == reader # <<>> /\ reader' = <<>> /\ UNCHANGED <<objects, input, attempt, accepted>>

Next ==
  \/ \E blob \in Uploads : stage_upload(blob)
  \/ \E a \in Acts : \/ \E size \in Sizes : execute(a, size)
                     \/ spill_output(a)
                     \/ accept(a)
  \/ resolve_input
  \/ retry_reader

-----------------------------------------------------------------------------
(* Properties. *)

\* What a slot is called.  Ids are free text: branch 1 of a step "a" and a step "a-1" are
\* called the same.
Called(slot) == IF slot[2] = {} THEN slot[1] ELSE slot[1] \o <<"-", Only(slot[2])>>
Namesakes(slot) == {s \in Slots : Called(s) = Called(slot)}

\* An upload that stays as it was put: no step spills over it, and it is not declared as a
\* spilled output.
Untouched(blob) ==
  /\ \A s \in Slots : spill_key(s) # upload_key(blob)
  /\ blob.mime # SPILLED_OUTPUT_MIME

InputOf(p, blob) == \/ p = Bytes([data |-> FileBytes(blob), name |-> blob.name, mime |-> blob.mime])
                    \/ p = Staged(upload_key(blob), {blob.mime}, blob.name)
AsSent(got, blob) == /\ IsOk(got) /\ got.ok.kind = "bytes"
                     /\ got.ok.blob.data = FileBytes(blob) /\ got.ok.blob.mime = blob.mime
                     /\ blob.name # <<>> => got.ok.blob.name = blob.name

(* What is read back is whole and the right one: branch by branch, in      *)
(* order, what an attempt of that very branch computed, also while a lost  *)
(* attempt still writes, and nothing is ever missing.  An output that was  *)
(* spilled may only be taken for one of a slot that is called the same.    *)
(* The upload is what was sent, with its type, under its name when it had  *)
(* one, unless a step spills over it or it poses as an output (spill_output,*)
(* hydrate_output, resolve_input, stage_upload).                           *)
StoreWhole ==
  /\ \A i \in 1..Len(reader) :
       /\ IsOk(reader[i])
       /\ \E s \in Namesakes(Inputs[i]), n \in Attempts, size \in Sizes :
            reader[i].ok = Output(<<s, n>>, size) /\ (s = Inputs[i] \/ size > threshold)
  /\ \A p \in input : \E blob \in Uploads :
       InputOf(p, blob) /\ (p.kind = "bytes" \/ Untouched(blob) => AsSent(resolve_output(p), blob))
=============================================================================
