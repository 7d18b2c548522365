------------------------------- MODULE Indexer -------------------------------
(***************************************************************************)
(* The Meilisearch indexer plugin (plugins/meili-indexer/src/lib.rs): the  *)
(* attempts of index steps that write to one index, one HTTP call at a     *)
(* time.  An attempt is <<job, number>>; the next one of a job starts when *)
(* Temporal retries it, which it also does with an attempt that it only    *)
(* lost track of and that still runs.  Meilisearch is external: a queue of *)
(* tasks that it processes one after the other, in the order they came in. *)
(***************************************************************************)
EXTENDS Integers, Sequences, FiniteSets

CONSTANTS Attempts,      \* a set of <<job, number>>
          Configs,       \* the jobs there may be, each with its documents' sizes and its step's config
          Indexes,       \* what the index may be at first: {} or {its primary key or {}}
          DocKeys,       \* the fields of a document that can be a primary key
          batch_size, max_batch_bytes,
          Slices         \* the wait for one task, in slices of WAIT_SLICE

VARIABLES cfg,       \* job -> [sizes, primary_key, auto_create_index, wait_for_completion, max_attempts]
          index,     \* {} when there is none, else {its primary key, {} for none yet}
          tasks,     \* Meilisearch's tasks; the uid of one is its place
          stored,    \* the documents <<job, place>> in the index
          attempt    \* the state of execute() in each attempt

indexer == <<cfg, index, tasks, stored, attempt>>

C(a) == cfg[a[1]]

-----------------------------------------------------------------------------
(* Cutting the documents into batches <<first, last>>, by count and by the *)
(* bytes of the JSON array.                                                *)

BRACKETS == 2

Plan(batches, start, bytes, oversized) == [batches |-> batches, start |-> start, bytes |-> bytes, oversized |-> oversized]

PlanStep(plan, size, i) ==
  LET held == i - plan.start
      comma == IF held > 0 THEN 1 ELSE 0
      full == held > 0 /\ (held >= batch_size \/ plan.bytes + comma + size > max_batch_bytes)
  IN IF plan.oversized \/ BRACKETS + size > max_batch_bytes THEN Plan(plan.batches, plan.start, plan.bytes, TRUE)
     ELSE IF full THEN Plan(Append(plan.batches, <<plan.start, i - 1>>), i, BRACKETS + size, FALSE)
     ELSE Plan(plan.batches, plan.start, plan.bytes + comma + size, FALSE)

\* The plan after the first i documents.
PlanOf(sizes) ==
  LET plan[i \in 0..Len(sizes)] == IF i = 0 THEN Plan(<<>>, 1, BRACKETS, FALSE) ELSE PlanStep(plan[i - 1], sizes[i], i)
  IN plan

plan_batches(sizes) ==
  LET end == PlanOf(sizes)[Len(sizes)]
  IN IF end.start <= Len(sizes)
     THEN Plan(Append(end.batches, <<end.start, Len(sizes)>>), end.start, end.bytes, end.oversized) ELSE end

-----------------------------------------------------------------------------
(* What may come of a call, and what execute() makes of it. *)

Refusals == {"auth", "internal", "invalid", "401", "404", "429", "503", "network", "timeout", "header"}
Lost == {"network", "503", "parse"}   \* the call was carried out, its answer is lost

map_error(e) ==
  CASE e \in {"internal", "429", "503", "network", "timeout"} -> "Retryable"
    [] e = "header" -> "InvalidConfig"
    [] OTHER -> "NonRetryable"

is_index_not_found(e) == e = "404"

\* The primary key an addition names: none when the index has its own.
addition_primary_key(a, state) == IF state # {} /\ state # {{}} THEN {} ELSE {C(a).primary_key}

Ended == {"ok", "Retryable", "NonRetryable", "InvalidConfig", "Cancelled"}
Attempt(pc, key, creation, batches, sent, awaited, waited, why) ==
  [pc |-> pc, key |-> key, creation |-> creation, batches |-> batches, sent |-> sent, awaited |-> awaited, waited |-> waited, why |-> why]
Blank(pc, why) == Attempt(pc, {}, {}, <<>>, <<>>, 0, 0, why)
NotBegun == Blank("idle", "none")
To(a, at) == attempt' = [attempt EXCEPT ![a] = at]
End(a, result, why) == To(a, Blank(result, IF result = "NonRetryable" THEN why ELSE "none"))
Task(kind, a, key, docs) == [kind |-> kind, key |-> key, docs |-> {<<a[1], i>> : i \in docs}, status |-> "enqueued"]
Uid == Len(tasks) + 1

\* ctx.check_cancelled() before a request.
CheckCancelled(a) == End(a, "Cancelled", "cancel") /\ UNCHANGED <<cfg, index, tasks, stored>>
Refused(a, e) == End(a, map_error(e), "answer") /\ UNCHANGED <<cfg, index, tasks, stored>>

-----------------------------------------------------------------------------
Init ==
  /\ cfg \in Configs
  /\ index \in Indexes
  /\ tasks = <<>> /\ stored = {}
  /\ attempt = [a \in Attempts |-> NotBegun]

\* The first attempt, or a retry of the one before it within the step's retry policy.
Start(a) ==
  /\ attempt[a].pc = "idle" /\ a[1] \in DOMAIN cfg /\ a[2] <= C(a).max_attempts
  /\ a[2] > 1 => attempt[<<a[1], a[2] - 1>>].pc \notin {"idle"} \cup (Ended \ {"Retryable"})
  /\ To(a, Blank("ensure_index", "none"))
  /\ UNCHANGED <<cfg, index, tasks, stored>>

\* From the index to the batches, or to the end when there are no documents.
Prepared(a, key, creation) ==
  LET plan == plan_batches(C(a).sizes)
      Begun(pc, batches) == Attempt(pc, key, creation, batches, <<>>, 0, 0, "none")
  IN \/ C(a).sizes = <<>> /\ To(a, Begun(IF creation # {} /\ C(a).wait_for_completion THEN "check_creation" ELSE "ok", <<>>))
     \/ C(a).sizes # <<>> /\ plan.oversized /\ End(a, "NonRetryable", "oversized")
     \/ C(a).sizes # <<>> /\ ~plan.oversized /\ To(a, Begun("send", plan.batches))

\* ensure_index: the lookup, and what it leads to.
ensure_index(a) ==
  /\ attempt[a].pc = "ensure_index"
  /\ \/ index = {} /\ C(a).auto_create_index /\ To(a, Blank("create_index", "none"))
     \/ (index # {} \/ ~C(a).auto_create_index) /\ Prepared(a, addition_primary_key(a, index), {})
     \/ \E e \in {e \in Refusals : ~is_index_not_found(e)} : End(a, map_error(e), "answer")
  /\ UNCHANGED <<cfg, index, tasks, stored>>

create_index(a) ==
  /\ attempt[a].pc = "create_index"
  /\ \/ /\ Prepared(a, {C(a).primary_key}, {Uid})
        /\ tasks' = Append(tasks, Task("create", a, {C(a).primary_key}, {}))
        /\ UNCHANGED <<cfg, index, stored>>
     \/ \E e \in Refusals : Refused(a, e)
     \/ \E e \in Lost : /\ End(a, map_error(e), "answer")
                        /\ tasks' = Append(tasks, Task("create", a, {C(a).primary_key}, {}))
                        /\ UNCHANGED <<cfg, index, stored>>

SendNext(a) ==
  LET at == attempt[a]
      range == at.batches[Len(at.sent) + 1]
      task == Task("add", a, at.key, range[1]..range[2])
      last == Len(at.sent) + 1 = Len(at.batches)
  IN \/ /\ tasks' = Append(tasks, task)
        /\ To(a, Attempt(IF ~last THEN "send" ELSE IF C(a).wait_for_completion THEN "wait" ELSE "ok",
                         at.key, at.creation, at.batches, Append(at.sent, Uid), at.awaited, at.waited, "none"))
        /\ UNCHANGED <<cfg, index, stored>>
     \/ \E e \in Refusals : Refused(a, e)
     \/ \E e \in Lost : tasks' = Append(tasks, task) /\ End(a, map_error(e), "answer") /\ UNCHANGED <<cfg, index, stored>>

send(a) == attempt[a].pc = "send" /\ (CheckCancelled(a) \/ SendNext(a))

Finished(uid) == tasks[uid].status # "enqueued"

\* One slice of wait_for_task that does not find the task finished.
wait_for_task(a, uid) ==
  \/ CheckCancelled(a)
  \/ \E e \in Refusals \ {"timeout"} : Refused(a, e)
  \/ /\ tasks[uid].status = "enqueued"
     /\ LET at == attempt[a]
        IN IF at.waited + 1 >= Slices THEN End(a, "Retryable", "none")
           ELSE To(a, Attempt(at.pc, at.key, at.creation, at.batches, at.sent, at.awaited, at.waited + 1, "none"))
     /\ UNCHANGED <<cfg, index, tasks, stored>>

\* The attempt goes on at pc, with so many of its tasks awaited.
Reported(a, pc, awaited) ==
  LET at == attempt[a] IN To(a, Attempt(pc, at.key, at.creation, at.batches, at.sent, awaited, 0, "none"))

AwaitedOne(a, status) ==    \* waits for the first task only
  IF status = "succeeded" THEN Reported(a, "ok", attempt[a].awaited) ELSE End(a, "NonRetryable", "task")
Awaited(a, status) ==
  LET at == attempt[a]
      left == at.awaited + 1 < Len(at.sent)
  IN IF status = "succeeded"
     THEN Reported(a, IF left THEN "wait" ELSE IF at.creation # {} THEN "check_creation" ELSE "ok", at.awaited + 1)
     ELSE End(a, "NonRetryable", "task")

wait(a) ==
  /\ attempt[a].pc = "wait"
  /\ LET uid == attempt[a].sent[attempt[a].awaited + 1]
     IN \/ wait_for_task(a, uid)
        \/ Finished(uid) /\ Awaited(a, tasks[uid].status) /\ UNCHANGED <<cfg, index, tasks, stored>>

\* An index that is there already is as good as a created one.
check_creation(a) ==
  /\ attempt[a].pc = "check_creation"
  /\ \E uid \in attempt[a].creation :
       \/ wait_for_task(a, uid)
       \/ /\ Finished(uid)
          /\ IF tasks[uid].status \in {"succeeded", "exists"} THEN Reported(a, "ok", attempt[a].awaited) ELSE End(a, "NonRetryable", "task")
          /\ UNCHANGED <<cfg, index, tasks, stored>>

execute(a) == Start(a) \/ ensure_index(a) \/ create_index(a) \/ send(a) \/ wait(a) \/ check_creation(a)

-----------------------------------------------------------------------------
(* Meilisearch: the oldest task that waits is carried out.  An addition    *)
(* creates the index when there is none, and gives it its key when it has  *)
(* none; it fails when it names another key than the index has, or when    *)
(* the documents lack the key.                                             *)

Meilisearch ==
  \E uid \in DOMAIN tasks :
    LET t == tasks[uid]
        has == IF index = {} THEN {} ELSE CHOOSE k \in index : TRUE
        key == IF has = {} THEN t.key ELSE has
        fits == (has = {} \/ t.key = {} \/ t.key = has) /\ key \subseteq DocKeys
        Done(status) == tasks' = [tasks EXCEPT ![uid].status = status]
    IN /\ t.status = "enqueued" /\ \A u \in 1..(uid - 1) : tasks[u].status # "enqueued"
       /\ \/ t.kind = "create" /\ index = {} /\ index' = {t.key} /\ Done("succeeded") /\ UNCHANGED stored
          \/ t.kind = "create" /\ index # {} /\ Done("exists") /\ UNCHANGED <<index, stored>>
          \/ t.kind = "add" /\ fits /\ index' = {key} /\ stored' = stored \cup t.docs /\ Done("succeeded")
          \/ t.kind = "add" /\ ~fits /\ index' = {has} /\ Done("failed") /\ UNCHANGED stored
       /\ UNCHANGED <<cfg, attempt>>

Next == Meilisearch \/ \E a \in Attempts : execute(a)

-----------------------------------------------------------------------------
DocsOf(a) == {<<a[1], i>> : i \in DOMAIN C(a).sizes}

\* The bytes of the first i documents, and of a batch as the JSON array that is sent.
BytesUpTo(sizes) ==
  LET total[i \in 0..Len(sizes)] == IF i = 0 THEN 0 ELSE total[i - 1] + sizes[i]
  IN total
BytesOf(sizes, range) == BRACKETS + (range[2] - range[1]) + BytesUpTo(sizes)[range[2]] - BytesUpTo(sizes)[range[1] - 1]

(* What an index step reports is what the index holds.  A step that ended  *)
(* well and waited has all its documents in the index, and one that did    *)
(* not wait has each of them in one task; no batch is over the limits; the *)
(* index is there when the step was to create it.  A step fails for good   *)
(* only on an answer of that kind, on a document over the limit or on an   *)
(* index whose key the documents or the config do not have: never because  *)
(* another job, or an attempt that was given up, was there first           *)
(* (wait_for_task, check_creation, plan_batches, execute).                 *)
IndexedMeansStored ==
  \A a \in Attempts :
    LET at == attempt[a]
        mine == [i \in DOMAIN at.sent |-> tasks[at.sent[i]].docs]
    IN /\ at.pc = "ok" /\ C(a).wait_for_completion => DocsOf(a) \subseteq stored /\ (C(a).auto_create_index => index # {})
       /\ at.pc = "ok" => UNION {mine[i] : i \in DOMAIN mine} = DocsOf(a)
       /\ \A i, j \in DOMAIN mine : i # j => mine[i] \cap mine[j] = {}
       /\ \A i \in DOMAIN at.batches : at.batches[i][2] - at.batches[i][1] < batch_size /\ BytesOf(C(a).sizes, at.batches[i]) <= max_batch_bytes
       /\ at.pc = "NonRetryable" /\ at.why = "oversized" => \E i \in DOMAIN C(a).sizes : C(a).sizes[i] + BRACKETS > max_batch_bytes
       /\ at.pc = "NonRetryable" /\ at.why = "task" => \E k \in index : k # {C(a).primary_key} \/ ~(k \subseteq DocKeys)
=============================================================================
