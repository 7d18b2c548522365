----------------------------- MODULE PipelineCache -----------------------------
(***************************************************************************)
(* The user-pipeline list a control plane process keeps in memory          *)
(* (control-plane/src/resolver.rs) against the writes of that process,     *)
(* which drop it, and those of other processes, which do not.  The table   *)
(* is reduced to a version that every write increments; a list is the     *)
(* version it was read at.                                                 *)
(***************************************************************************)
EXTENDS Integers

CONSTANTS Readers,   \* POST /internal/resolve requests under way
          Writers,   \* POST and DELETE /pipelines requests under way
          TTL,       \* DEFAULT_CACHE_TTL
          MaxVersion, MaxNow  \* bounds on the writes and on the clock

VARIABLES now,      \* the clock
          table,    \* version of the pipelines table
          acked,    \* the last version whose write was answered by this process
          cache,    \* {} or {[at, list, began, ended]}; the last two are history
          writer,   \* per request {} or {the version it committed}
          reader    \* [pc, asked, list, began, ended]

vars == <<now, table, acked, cache, writer, reader>>

Versions == 0..MaxVersion
Idle == [pc |-> "idle", asked |-> 0, list |-> 0, began |-> 0, ended |-> 0]

TypeOK == /\ now \in 0..MaxNow /\ table \in Versions /\ acked \in Versions
          /\ cache \in SUBSET [at : 0..MaxNow, list : Versions, began : Versions, ended : Versions]
          /\ writer \in [Writers -> SUBSET Versions]
          /\ reader \in [Readers -> [pc : {"idle", "load", "store", "served"}, asked : Versions,
                                     list : Versions, began : Versions, ended : Versions]]

Init == /\ now = 0 /\ table = 0 /\ acked = 0 /\ cache = {}
        /\ writer = [w \in Writers |-> {}] /\ reader = [r \in Readers |-> Idle]

Tick == now < MaxNow /\ now' = now + 1 /\ UNCHANGED <<table, acked, cache, writer, reader>>

\* upsert or delete_cascading commits ...
Commit(w) == /\ writer[w] = {} /\ table < MaxVersion
             /\ table' = table + 1
             /\ writer' = [writer EXCEPT ![w] = {table'}]
             /\ UNCHANGED <<now, acked, cache, reader>>

\* Mutant of Invalidate: the write is answered without dropping the list.
AnswerOnly(w) == /\ writer[w] # {}
                 /\ acked' = IF \E v \in writer[w] : v > acked THEN CHOOSE v \in writer[w] : TRUE ELSE acked
                 /\ writer' = [writer EXCEPT ![w] = {}]
                 /\ UNCHANGED <<now, table, cache, reader>>

\* ... and then the list is dropped and the request answered.
Invalidate(w) == /\ writer[w] # {}
                 /\ cache' = {}
                 /\ acked' = IF \E v \in writer[w] : v > acked THEN CHOOSE v \in writer[w] : TRUE ELSE acked
                 /\ writer' = [writer EXCEPT ![w] = {}]
                 /\ UNCHANGED <<now, table, reader>>

\* A write of another control plane process, which drops only its own list.
WriteElsewhere == /\ table < MaxVersion
                  /\ table' = table + 1
                  /\ UNCHANGED <<now, acked, cache, writer, reader>>

\* get_or_load: a list younger than the TTL is served as it is.
Fresh == {e \in cache : now - e.at < TTL}

Read(r) == /\ reader[r].pc = "idle"
           /\ \/ \E e \in Fresh : reader' = [reader EXCEPT ![r] =
                    [pc |-> "served", asked |-> acked, list |-> e.list, began |-> e.began, ended |-> e.ended]]
              \/ /\ Fresh = {}
                 /\ reader' = [reader EXCEPT ![r] = [Idle EXCEPT !.pc = "load", !.asked = acked, !.began = acked]]
           /\ UNCHANGED <<now, table, acked, cache, writer>>

ListAll(r) == /\ reader[r].pc = "load"
              /\ \/ reader' = [reader EXCEPT ![r].pc = "store", ![r].list = table]
                 \/ reader' = [reader EXCEPT ![r] = Idle]   \* the query failed: the request fails
              /\ UNCHANGED <<now, table, acked, cache, writer>>

\* The list is stored, whatever was written since it was read, and dated now.
Store(r) == /\ reader[r].pc = "store"
            /\ cache' = {[at |-> now, list |-> reader[r].list, began |-> reader[r].began, ended |-> acked]}
            /\ reader' = [reader EXCEPT ![r].pc = "served", ![r].ended = acked]
            /\ UNCHANGED <<now, table, acked, writer>>

Resolved(r) == /\ reader[r].pc = "served"
               /\ reader' = [reader EXCEPT ![r] = Idle]
               /\ UNCHANGED <<now, table, acked, cache, writer>>

Next == \/ Tick \/ WriteElsewhere
        \/ \E w \in Writers : Commit(w) \/ Invalidate(w)
        \/ \E r \in Readers : Read(r) \/ ListAll(r) \/ Store(r) \/ Resolved(r)

Spec == Init /\ [][Next]_vars

-----------------------------------------------------------------------------
(* Routing by a list that misses an answered write of this process happens *)
(* only when that list was being loaded while the write was answered: it   *)
(* was begun before the write's invalidate and stored after it.            *)
OldListOnlyByOverlap ==
  \A r \in Readers : reader[r].pc = "served" /\ reader[r].list < reader[r].asked
                        => reader[r].began < reader[r].asked /\ reader[r].ended >= reader[r].asked

=============================================================================
