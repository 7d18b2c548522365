-------------------------- MODULE DestinationsProofs --------------------------
(***************************************************************************)
(* Proofs about where a tenant's data is written, for any request,         *)
(* pipeline table, archive and stored connection, for any number of        *)
(* overlapping requests on the connections, for any number of index steps  *)
(* and attempts, documents and batch limits, and for any number of steps   *)
(* whose outputs go through the blob store.                                *)
(***************************************************************************)
EXTENDS Destinations, TLAPS, FiniteSetTheorems, SequenceTheorems, WellFoundedInduction

----------------------------------------------------------------------------
(* A resolution finds at most one pipeline. *)

One(s) == \A p \in s : \A q \in s : p = q

\* The order of MinByKey has no two first elements.
LEMMA BeforeIsStrict ==
    ASSUME NEW a \in Seq(Int), NEW b \in Seq(Int), Sub!Before(a, b)
    PROVE  ~Sub!Before(b, a)
<1> SUFFICES ASSUME Sub!Before(b, a) PROVE FALSE
  OBVIOUS
<1>1. PICK i \in 1..Len(a) : a[i] < b[i] /\ \A j \in 1..(i - 1) : a[j] = b[j]
  BY DEF Sub!Before
<1>2. PICK k \in 1..Len(b) : b[k] < a[k] /\ \A j \in 1..(k - 1) : b[j] = a[j]
  BY DEF Sub!Before
<1>3. CASE i = k
  <2>1. a[i] \in Int /\ b[k] \in Int
    OBVIOUS
  <2> QED BY <1>1, <1>2, <1>3, <2>1
<1>4. CASE i < k
  <2>1. i \in 1..(k - 1) /\ a[i] \in Int
    BY <1>4
  <2> QED BY <1>1, <1>2, <2>1
<1>5. CASE k < i
  <2>1. k \in 1..(i - 1) /\ b[k] \in Int
    BY <1>5
  <2> QED BY <1>1, <1>2, <2>1
<1> QED BY <1>3, <1>4, <1>5

LEMMA ResolveOne ==
    ASSUME NEW list, NEW m, NEW f, NEW t
    PROVE  One(Sub!RouterResolve(list, m, f, t))
<1> DEFINE c == {i \in 1..Len(list) : Sub!visible_to(list[i], t) /\ Sub!trigger_matches(list[i], m, f)}
           key(i) == <<Sub!tier(list[i]), IF list[i].glob # {} THEN 0 ELSE 1, i>>
           first == {i \in c : \A j \in c \ {i} : Sub!Before(key(i), key(j))}
<1>1. Sub!RouterResolve(list, m, f, t) = {list[i] : i \in first}
  BY DEF Sub!RouterResolve, Sub!MinByKey
<1>2. ASSUME NEW i \in c PROVE key(i) \in Seq(Int)
  <2>1. i \in Int /\ Sub!tier(list[i]) \in Int
    BY DEF Sub!tier
  <2> QED BY <2>1
<1>3. ASSUME NEW i \in first, NEW j \in first, i # j PROVE FALSE
  <2>1. i \in c /\ j \in c /\ Sub!Before(key(i), key(j)) /\ Sub!Before(key(j), key(i))
    BY <1>3
  <2>2. key(i) \in Seq(Int) /\ key(j) \in Seq(Int)
    BY <1>2, <2>1
  <2> HIDE DEF key
  <2> QED BY <2>1, <2>2, BeforeIsStrict
<1> HIDE DEF first
<1> QED BY <1>1, <1>3 DEF One

LEMMA ByUidOne ==
    ASSUME NEW list, NEW uid, NEW t
    PROVE  One(Sub!RouterByUid(list, uid, t))
<1> DEFINE c == {i \in 1..Len(list) : list[i].uid = uid /\ Sub!visible_to(list[i], t)}
           key(i) == <<Sub!tier(list[i]), i>>
           first == {i \in c : \A j \in c \ {i} : Sub!Before(key(i), key(j))}
<1>1. Sub!RouterByUid(list, uid, t) = {list[i] : i \in first}
  BY DEF Sub!RouterByUid, Sub!MinByKey
<1>2. ASSUME NEW i \in c PROVE key(i) \in Seq(Int)
  <2>1. i \in Int /\ Sub!tier(list[i]) \in Int
    BY DEF Sub!tier
  <2> QED BY <2>1
<1>3. ASSUME NEW i \in first, NEW j \in first, i # j PROVE FALSE
  <2>1. i \in c /\ j \in c /\ Sub!Before(key(i), key(j)) /\ Sub!Before(key(j), key(i))
    BY <1>3
  <2>2. key(i) \in Seq(Int) /\ key(j) \in Seq(Int)
    BY <1>2, <2>1
  <2> HIDE DEF key
  <2> QED BY <2>1, <2>2, BeforeIsStrict
<1> HIDE DEF first
<1> QED BY <1>1, <1>3 DEF One

LEMMA OnePipeline ==
    ASSUME NEW all, NEW builtins, NEW m, NEW f, NEW t, NEW uid
    PROVE  One(Sub!resolve(all, builtins, m, f, t, uid))
BY ResolveOne, ByUidOne DEF Sub!resolve


----------------------------------------------------------------------------
(* Submission: from the request to the writes of its jobs. *)

Decided == {"preflight", "credits", "stage", "start"}

IsContext(c) == c = [tenant |-> c.tenant, host |-> c.host, key |-> c.key, index |-> c.index]
IsRoute(r) == r = [plan |-> r.plan, pipe |-> r.pipe, target |-> r.target]

\* The deployment's own host and key are not for a tenant.
NotOurs(c) == c.tenant # "" => c.host # "own" /\ c.key # "own"

CtxOk == IsContext(ctx) /\ NotOurs(ctx)

\* What is decided about the item, and when.
RouteOk == /\ IsRoute(route) /\ One(route.pipe)
           /\ pc \in {"extract", "path", "context", "item", "plan"} => route.plan = ""
           /\ pc = "resolve" => route.plan # "expand"
           /\ pc = "destination" => route.plan = "expand" \/ route.pipe # {}
           /\ pc \in Decided =>
                /\ route.plan # "expand" => route.pipe # {} /\ (req.locked # {} => route.target = req.locked)
                /\ \A p \in route.pipe : ~Sub!Conflicts(p, req.locked)

\* An archive that stays whole has a pipeline that names its type, as long as the table
\* does not change between the two resolutions.
WholeOk == /\ pc = "resolve" /\ Sub!is_archive(items[1].mime) /\ ~moved =>
                \E p \in Sub!Selected(items[1].mime, items[1].name) : Sub!takes_archive_whole(p, items[1].mime)
           /\ pc \in {"destination"} \cup Decided /\ Sub!is_archive(items[1].mime) /\ ~moved /\ route.plan # "expand" =>
                \A p \in route.pipe : Sub!takes_archive_whole(p, items[1].mime)

\* A job started has its pipeline, its context and its index for good.
StartedOk(j) == /\ IsContext(j.ctx) /\ NotOurs(j.ctx) /\ One(j.pipe) /\ j.locked = req.locked
                /\ \A p \in j.pipe : ~Sub!Conflicts(p, req.locked)
                /\ ~j.archive => j.pipe # {} /\ (req.locked # {} => j.ctx.index = req.locked)
                /\ Sub!is_archive(j.mime) /\ ~j.archive /\ ~j.moved =>
                     \A p \in j.pipe : Sub!takes_archive_whole(p, j.mime)

JobsOk == \A j \in jobs : StartedOk(j)

WriteOk(w) == /\ w.tenant # "" => w.host # "own" /\ w.key # "own"
              /\ \A r \in w.row : r.tenant = w.tenant
              /\ req.locked # {} => w.index = req.locked

WritesOk == \A w \in writes : WriteOk(w)

SubInv == /\ req \in Submissions /\ moved \in BOOLEAN
          /\ CtxOk /\ RouteOk /\ WholeOk /\ JobsOk /\ WritesOk

LEMMA LockedOne ==
    ASSUME NEW q \in Submissions
    PROVE  /\ \A u \in q.locked : q.locked = {u}
           /\ q.host # "own" /\ q.key # "own" /\ q.bearer # "own"
BY SubmissionAssumption

LEMMA ContextWithIndex ==
    ASSUME NEW c, IsContext(c), NEW i
    PROVE  /\ IsContext([c EXCEPT !.index = i])
           /\ [c EXCEPT !.index = i].tenant = c.tenant /\ [c EXCEPT !.index = i].host = c.host
           /\ [c EXCEPT !.index = i].key = c.key /\ [c EXCEPT !.index = i].index = i
BY DEF IsContext

LEMMA RouteFields ==
    ASSUME NEW r, IsRoute(r), NEW v
    PROVE  /\ [r EXCEPT !.plan = v] = [plan |-> v, pipe |-> r.pipe, target |-> r.target]
           /\ [r EXCEPT !.pipe = v] = [plan |-> r.plan, pipe |-> v, target |-> r.target]
           /\ [r EXCEPT !.target = v] = [plan |-> r.plan, pipe |-> r.pipe, target |-> v]
BY DEF IsRoute

LEMMA OnePipelineSelected ==
    ASSUME SubInv, NEW m, NEW n
    PROVE  One(Sub!Selected(m, n))
BY OnePipeline DEF SubInv, RouteOk, Sub!Selected

\* A step of the gateway that starts nothing.
LEMMA GatewayStep ==
    ASSUME SubInv, UNCHANGED <<req, jobs, writes>>
    PROVE  req' \in Submissions /\ JobsOk' /\ WritesOk'
<1>1. ASSUME NEW j \in jobs PROVE StartedOk(j)'
  <2>1. StartedOk(j)
    BY DEF SubInv, JobsOk
  <2> QED BY <2>1 DEF StartedOk
<1>2. ASSUME NEW w \in writes PROVE WriteOk(w)'
  <2>1. WriteOk(w)
    BY DEF SubInv, WritesOk
  <2> QED BY <2>1 DEF WriteOk
<1> QED BY <1>1, <1>2 DEF SubInv, JobsOk, WritesOk

LEMMA RefuseKeeps ==
    ASSUME SubInv, NEW code, Sub!Refuse(code)
    PROVE  SubInv'
<1>1. pc' = "answer" /\ UNCHANGED <<req, table, moved, items, ctx, route, jobs, writes>>
  BY DEF Sub!Refuse
<1>2. req' \in Submissions /\ JobsOk' /\ WritesOk' /\ moved' \in BOOLEAN
  BY <1>1, GatewayStep DEF SubInv
<1>3. CtxOk'
  BY <1>1 DEF SubInv, CtxOk, IsContext, NotOurs
<1>4. RouteOk'
  BY <1>1 DEF SubInv, RouteOk, IsRoute, One, Decided
<1>5. WholeOk'
  BY <1>1 DEF WholeOk, Decided
<1> QED BY <1>2, <1>3, <1>4, <1>5 DEF SubInv

LEMMA ChangeTableKeeps ==
    ASSUME SubInv, Sub!ChangeTable
    PROVE  SubInv'
<1>1. /\ UNCHANGED <<req, pc, items, ctx, route, status, jobs, writes>>
      /\ moved' = (moved \/ pc = "resolve")
  BY DEF Sub!ChangeTable
<1>2. req' \in Submissions /\ JobsOk' /\ WritesOk' /\ moved' \in BOOLEAN
  BY <1>1, GatewayStep DEF SubInv
<1>3. CtxOk'
  BY <1>1 DEF SubInv, CtxOk, IsContext, NotOurs
<1>4. RouteOk'
  BY <1>1 DEF SubInv, RouteOk, IsRoute, One, Decided
<1>5. WholeOk'
  <2>1. ~moved' => ~moved /\ pc' # "resolve"
    BY <1>1
  <2> QED BY <1>1, <2>1 DEF SubInv, WholeOk
<1> QED BY <1>2, <1>3, <1>4, <1>5 DEF SubInv

LEMMA SubInit ==
    ASSUME Sub!Init
    PROVE  SubInv
BY DEF Sub!Init, Sub!NoContext, Sub!NoRoute, SubInv, CtxOk, IsContext, NotOurs, RouteOk, IsRoute, One, WholeOk,
       JobsOk, WritesOk, Decided

LEMMA GetPipelineKeeps ==
    ASSUME SubInv, Sub!GetPipeline
    PROVE  SubInv'
<1> DEFINE p == Sub!resolve(table, BuiltinList, Sub!OctetStream, {}, req.tenant, req.path)
<1>1. CASE p = {}
  <2>1. Sub!Refuse(404)
    BY <1>1 DEF Sub!GetPipeline
  <2> QED BY <2>1, RefuseKeeps
<1>2. CASE p # {}
  <2>1. PICK q : q = p /\ route' = [Sub!NoRoute EXCEPT !.pipe = q]
    BY <1>2 DEF Sub!GetPipeline
  <2>2. One(q)
    BY <2>1, OnePipeline
  <2>3. pc' = "path" /\ UNCHANGED <<req, table, moved, jobs, writes, items, ctx>>
    BY <1>2 DEF Sub!GetPipeline, Sub!Goto
  <2> HIDE DEF p
  <2>4. route' = [plan |-> "", pipe |-> q, target |-> {}]
    BY <2>1 DEF Sub!NoRoute
  <2>5. req' \in Submissions /\ JobsOk' /\ WritesOk' /\ moved' \in BOOLEAN
    BY <2>3, GatewayStep DEF SubInv
  <2>6. CtxOk'
    BY <2>3 DEF SubInv, CtxOk, IsContext, NotOurs
  <2>7. RouteOk' /\ WholeOk'
    BY <2>2, <2>3, <2>4 DEF RouteOk, IsRoute, One, WholeOk, Decided
  <2> QED BY <2>5, <2>6, <2>7 DEF SubInv
<1> QED BY <1>1, <1>2

\* A step to a place before the decision, with the route as it is.
LEMMA EarlyStep ==
    ASSUME SubInv, UNCHANGED <<req, moved, route, jobs, writes>>, CtxOk',
           pc \in {"extract", "path", "context", "item", "plan"}, pc' \in {"context", "item", "plan"}
    PROVE  SubInv'
<1>1. req' \in Submissions /\ JobsOk' /\ WritesOk' /\ moved' \in BOOLEAN
  BY GatewayStep DEF SubInv
<1>2. RouteOk' /\ WholeOk'
  BY DEF SubInv, RouteOk, IsRoute, One, WholeOk, Decided
<1> QED BY <1>1, <1>2 DEF SubInv

LEMMA ExtractKeeps ==
    ASSUME SubInv, Sub!Extract
    PROVE  SubInv'
<1> DEFINE found == Sub!extract_payload(req.body)
           bad == found = {} \/ (Len(Sub!The(found)) > 1 /\ ~req.batch)
<1>1. CASE bad
  <2>1. Sub!Refuse(400)
    BY <1>1 DEF Sub!Extract
  <2> QED BY <2>1, RefuseKeeps
<1>2. CASE ~bad
  <2>1. /\ pc \in {"extract", "path"} /\ pc' = "context"
        /\ UNCHANGED <<req, table, moved, jobs, writes, ctx, route>>
    BY <1>2 DEF Sub!Extract, Sub!Goto
  <2>2. CtxOk'
    BY <2>1 DEF SubInv, CtxOk, IsContext, NotOurs
  <2> QED BY <2>1, <2>2, EarlyStep
<1> QED BY <1>1, <1>2

LEMMA ContextKeeps ==
    ASSUME SubInv, Sub!Context
    PROVE  SubInv'
<1> DEFINE tenant == IF req.trusted THEN req.tenant ELSE ""
           host == IF req.trusted THEN req.host ELSE ""
           key == IF (IF req.trusted THEN req.key ELSE "") # "" THEN req.key ELSE req.bearer
           idx == IF req.query # {} THEN req.query ELSE IF req.trusted THEN req.index ELSE {}
<1>1. CASE tenant = "invalid"
  <2>1. Sub!Refuse(400)
    BY <1>1 DEF Sub!Context
  <2> QED BY <2>1, RefuseKeeps
<1>2. CASE tenant # "invalid"
  <2>1. ctx' = [tenant |-> tenant,
                host |-> IF host = "" /\ tenant = "" THEN "own" ELSE host,
                key |-> IF key = "" /\ tenant = "" THEN "own" ELSE key,
                index |-> idx]
    BY <1>2 DEF Sub!Context
  <2>2. pc = "context" /\ pc' = "item" /\ UNCHANGED <<req, moved, route, jobs, writes>>
    BY <1>2 DEF Sub!Context, Sub!Goto
  <2>3. host # "own" /\ key # "own"
    BY LockedOne DEF SubInv
  <2> HIDE DEF tenant, host, key, idx
  <2>4. CtxOk'
    BY <2>1, <2>3 DEF CtxOk, IsContext, NotOurs
  <2> QED BY <2>2, <2>4, EarlyStep
<1> QED BY <1>1, <1>2

LEMMA CheckRefKeeps ==
    ASSUME SubInv, Sub!CheckRef
    PROVE  SubInv'
<1>1. CASE Sub!Refuse(422)
  BY <1>1, RefuseKeeps
<1>2. CASE /\ pc' = IF Sub!is_archive(items[1].mime) THEN "plan" ELSE "resolve"
           /\ UNCHANGED <<req, table, moved, status, jobs, writes, items, ctx, route>>
  <2>1. pc = "item"
    BY DEF Sub!CheckRef
  <2>2. CtxOk'
    BY <1>2 DEF SubInv, CtxOk, IsContext, NotOurs
  <2>3. CASE Sub!is_archive(items[1].mime)
    BY <1>2, <2>1, <2>2, <2>3, EarlyStep
  <2>4. CASE ~Sub!is_archive(items[1].mime)
    <3>1. req' \in Submissions /\ JobsOk' /\ WritesOk' /\ moved' \in BOOLEAN
      BY <1>2, GatewayStep DEF SubInv
    <3>2. RouteOk'
      BY <1>2, <2>1, <2>4 DEF SubInv, RouteOk, IsRoute, One, Decided
    <3>3. WholeOk'
      BY <1>2, <2>4 DEF WholeOk
    <3> QED BY <2>2, <3>1, <3>2, <3>3 DEF SubInv
  <2> QED BY <2>3, <2>4
<1> QED BY <1>1, <1>2 DEF Sub!CheckRef, Sub!Goto

LEMMA PlanKeeps ==
    ASSUME SubInv, Sub!archive_plan
    PROVE  SubInv'
<1> DEFINE m == items[1].mime
           p == Sub!Selected(m, items[1].name)
           forced == IF req.path = {} /\ req.pipeline = {} THEN {} ELSE p
<1>1. pc = "plan"
  BY DEF Sub!archive_plan
<1>2. One(p) /\ One(forced)
  BY OnePipelineSelected DEF One
<1>3. CASE Sub!Refuse(404)
  BY <1>3, RefuseKeeps
<1>4. CASE /\ \E q \in p : Sub!takes_archive_whole(q, m)
           /\ route' = [route EXCEPT !.plan = "whole"] /\ pc' = "resolve"
           /\ UNCHANGED <<req, table, moved, status, jobs, writes, items, ctx>>
  <2>1. IsRoute(route) /\ One(route.pipe)
    BY DEF SubInv, RouteOk
  <2>2. route' = [plan |-> "whole", pipe |-> route.pipe, target |-> route.target]
    BY <1>4, <2>1, RouteFields
  <2>3. req' \in Submissions /\ JobsOk' /\ WritesOk' /\ moved' \in BOOLEAN
    BY <1>4, GatewayStep DEF SubInv
  <2>4. CtxOk'
    BY <1>4 DEF SubInv, CtxOk, IsContext, NotOurs
  <2>5. RouteOk'
    BY <1>4, <2>1, <2>2 DEF RouteOk, IsRoute, One, Decided
  <2>6. Sub!Selected(items[1].mime, items[1].name)' = p
    BY <1>4, <2>2 DEF Sub!Selected
  <2>7. WholeOk'
    BY <1>4, <2>6 DEF WholeOk, Decided
  <2> QED BY <2>3, <2>4, <2>5, <2>7 DEF SubInv
<1>5. CASE /\ route' = [plan |-> "expand", pipe |-> forced, target |-> {}] /\ pc' = "destination"
           /\ UNCHANGED <<req, table, moved, status, jobs, writes, items, ctx>>
  <2>1. req' \in Submissions /\ JobsOk' /\ WritesOk' /\ moved' \in BOOLEAN
    BY <1>5, GatewayStep DEF SubInv
  <2>2. CtxOk'
    BY <1>5 DEF SubInv, CtxOk, IsContext, NotOurs
  <2> HIDE DEF forced
  <2>3. RouteOk' /\ WholeOk'
    BY <1>2, <1>5 DEF RouteOk, IsRoute, One, WholeOk, Decided
  <2> QED BY <2>1, <2>2, <2>3 DEF SubInv
<1> QED BY <1>3, <1>4, <1>5 DEF Sub!archive_plan, Sub!Goto

LEMMA ResolvedKeeps ==
    ASSUME SubInv, Sub!Resolve
    PROVE  SubInv'
<1> DEFINE m == items[1].mime
           p == Sub!Selected(m, items[1].name)
<1>1. CASE p = {}
  <2>1. \E code : Sub!Refuse(code)
    BY <1>1 DEF Sub!Resolve
  <2> QED BY <2>1, RefuseKeeps
<1>2. CASE p # {}
  <2>1. /\ route' = [route EXCEPT !.pipe = p] /\ pc = "resolve" /\ pc' = "destination"
        /\ UNCHANGED <<req, table, moved, status, jobs, writes, items, ctx>>
    BY <1>2 DEF Sub!Resolve, Sub!Goto
  <2>2. One(p) /\ IsRoute(route) /\ route.plan # "expand"
    BY <2>1, OnePipelineSelected DEF SubInv, RouteOk
  <2>3. Sub!is_archive(m) /\ ~moved => \E q \in p : Sub!takes_archive_whole(q, m)
    BY <2>1 DEF SubInv, WholeOk
  <2> HIDE DEF p, m
  <2>4. route' = [plan |-> route.plan, pipe |-> p, target |-> route.target]
    BY <2>1, <2>2, RouteFields
  <2>5. req' \in Submissions /\ JobsOk' /\ WritesOk' /\ moved' \in BOOLEAN
    BY <2>1, GatewayStep DEF SubInv
  <2>6. CtxOk'
    BY <2>1 DEF SubInv, CtxOk, IsContext, NotOurs
  <2>7. RouteOk'
    BY <1>2, <2>1, <2>2, <2>4 DEF RouteOk, IsRoute, One, Decided
  <2>8. Sub!is_archive(m) /\ ~moved => \A q \in p : Sub!takes_archive_whole(q, m)
    BY <2>2, <2>3 DEF One
  <2>9. WholeOk'
    BY <2>1, <2>4, <2>8 DEF WholeOk, m
  <2> QED BY <2>5, <2>6, <2>7, <2>9 DEF SubInv
<1> QED BY <1>1, <1>2

LEMMA DestinationKeeps ==
    ASSUME SubInv, Sub!Destination
    PROVE  SubInv'
<1>1. CASE \E code : Sub!Refuse(code)
  BY <1>1, RefuseKeeps
<1>2. CASE /\ \A p \in route.pipe : ~Sub!NeedsDestination(p) /\ ~Sub!Conflicts(p, req.locked)
           /\ route' = [route EXCEPT !.target =
                IF route.plan = "expand" THEN Sub!archive_target_index(route.pipe)
                ELSE Sub!TargetIndex(Sub!The(route.pipe), items[1].mime)]
           /\ pc' = "preflight" /\ UNCHANGED <<req, table, moved, status, jobs, writes, items, ctx>>
  <2>1. PICK target : /\ target = IF route.plan = "expand" THEN Sub!archive_target_index(route.pipe)
                                  ELSE Sub!TargetIndex(Sub!The(route.pipe), items[1].mime)
                      /\ route' = [route EXCEPT !.target = target]
    BY <1>2
  <2>2. IsRoute(route) /\ One(route.pipe) /\ pc = "destination" /\ (route.plan = "expand" \/ route.pipe # {})
    BY DEF Sub!Destination, SubInv, RouteOk
  <2>3. route' = [plan |-> route.plan, pipe |-> route.pipe, target |-> target]
    BY <2>1, <2>2, RouteFields
  <2>4. route.plan # "expand" /\ req.locked # {} => target = req.locked
    BY <2>1 DEF Sub!TargetIndex
  <2>5. req' \in Submissions /\ JobsOk' /\ WritesOk' /\ moved' \in BOOLEAN
    BY <1>2, GatewayStep DEF SubInv
  <2>6. CtxOk'
    BY <1>2 DEF SubInv, CtxOk, IsContext, NotOurs
  <2>7. RouteOk'
    BY <1>2, <2>2, <2>3, <2>4 DEF RouteOk, IsRoute, One, Decided
  <2>8. WholeOk'
    BY <1>2, <2>2, <2>3 DEF SubInv, WholeOk, Decided
  <2> QED BY <2>5, <2>6, <2>7, <2>8 DEF SubInv
<1> QED BY <1>1, <1>2 DEF Sub!Destination, Sub!Goto

\* A step between two places after the decision.
LEMMA DecidedStep ==
    ASSUME SubInv, pc \in Decided, pc' \in Decided, UNCHANGED <<req, table, moved, status, jobs, writes, items, ctx, route>>
    PROVE  SubInv'
<1>1. req' \in Submissions /\ JobsOk' /\ WritesOk' /\ moved' \in BOOLEAN
  BY GatewayStep DEF SubInv
<1>2. CtxOk'
  BY DEF SubInv, CtxOk, IsContext, NotOurs
<1>3. RouteOk'
  BY DEF SubInv, RouteOk, IsRoute, One, Decided
<1>4. WholeOk'
  BY DEF SubInv, WholeOk, Decided
<1> QED BY <1>1, <1>2, <1>3, <1>4 DEF SubInv

LEMMA PreflightKeeps ==
    ASSUME SubInv, Sub!Preflight \/ Sub!Credits \/ Sub!Stage
    PROVE  SubInv'
<1>1. CASE \E code : Sub!Refuse(code)
  BY <1>1, RefuseKeeps
<1>2. CASE /\ pc \in Decided /\ pc' \in Decided
           /\ UNCHANGED <<req, table, moved, status, jobs, writes, items, ctx, route>>
  BY <1>2, DecidedStep
<1> QED BY <1>1, <1>2 DEF Sub!Preflight, Sub!Credits, Sub!Stage, Sub!Goto, Decided

LEMMA StartKeeps ==
    ASSUME SubInv, Sub!Start
    PROVE  SubInv'
<1>1. CASE Sub!Refuse(503)
  BY <1>1, RefuseKeeps
<1>2. CASE /\ jobs' = jobs \cup {Sub!NewJob} /\ pc' = "answer"
           /\ UNCHANGED <<req, table, moved, items, ctx, route, writes>>
  <2> DEFINE c == IF route.plan = "expand" THEN ctx ELSE [ctx EXCEPT !.index = route.target]
  <2>1. PICK j : j = Sub!NewJob /\ jobs' = jobs \cup {j}
    BY <1>2
  <2>2. pc = "start" /\ CtxOk /\ RouteOk /\ WholeOk
    BY DEF Sub!Start, SubInv
  <2>3. IsContext(c) /\ NotOurs(c) /\ (route.plan # "expand" => c.index = route.target)
    BY <2>2, ContextWithIndex DEF CtxOk, NotOurs
  <2>4. /\ j.archive = (route.plan = "expand") /\ j.pipe = route.pipe /\ j.mime = items[1].mime
        /\ j.locked = req.locked /\ j.ctx = c /\ j.moved = moved
    BY <2>1 DEF Sub!NewJob
  <2> HIDE DEF c
  <2>5. StartedOk(j)
    <3>1. /\ One(j.pipe) /\ \A p \in j.pipe : ~Sub!Conflicts(p, req.locked)
          /\ ~j.archive => j.pipe # {} /\ (req.locked # {} => j.ctx.index = req.locked)
      BY <2>2, <2>3, <2>4 DEF RouteOk, Decided
    <3>2. Sub!is_archive(j.mime) /\ ~j.archive /\ ~j.moved => \A p \in j.pipe : Sub!takes_archive_whole(p, j.mime)
      BY <2>2, <2>4 DEF WholeOk, Decided
    <3> QED BY <2>3, <2>4, <3>1, <3>2 DEF StartedOk
  <2>6. ASSUME NEW k \in jobs' PROVE StartedOk(k)'
    <3>1. StartedOk(k)
      BY <2>1, <2>5 DEF SubInv, JobsOk
    <3> QED BY <1>2, <3>1 DEF StartedOk
  <2>7. WritesOk'
    BY <1>2 DEF SubInv, WritesOk, WriteOk
  <2>8. CtxOk'
    BY <1>2, <2>2 DEF CtxOk, IsContext, NotOurs
  <2>9. RouteOk' /\ WholeOk'
    BY <1>2, <2>2 DEF RouteOk, IsRoute, One, WholeOk, Decided
  <2> QED BY <1>2, <2>6, <2>7, <2>8, <2>9 DEF SubInv, JobsOk
<1> QED BY <1>1, <1>2 DEF Sub!Start

LEMMA AnswerKeeps ==
    ASSUME SubInv, Sub!Answer
    PROVE  SubInv'
<1>1. UNCHANGED <<req, table, ctx, status, jobs, writes>>
  BY DEF Sub!Answer
<1>2. req' \in Submissions /\ JobsOk' /\ WritesOk'
  BY <1>1, GatewayStep
<1>3. CtxOk'
  BY <1>1 DEF SubInv, CtxOk, IsContext, NotOurs
<1>4. CASE Len(items) > 1
  <2>1. PICK pipe : route' = [plan |-> "", pipe |-> pipe, target |-> {}] /\ One(pipe)
    <3>1. CASE req.path # {}
      <4>1. route' = [Sub!NoRoute EXCEPT !.pipe = route.pipe]
        BY <1>4, <3>1 DEF Sub!Answer
      <4>2. route' = [plan |-> "", pipe |-> route.pipe, target |-> {}]
        BY <4>1 DEF Sub!NoRoute
      <4> QED BY <4>2 DEF SubInv, RouteOk
    <3>2. CASE req.path = {}
      <4>1. route' = [plan |-> "", pipe |-> {}, target |-> {}]
        BY <1>4, <3>2 DEF Sub!Answer, Sub!NoRoute
      <4>2. One({})
        BY DEF One
      <4> QED BY <4>1, <4>2
    <3> QED BY <3>1, <3>2
  <2>2. pc' = "item" /\ moved' = FALSE
    BY <1>4 DEF Sub!Answer
  <2>3. RouteOk' /\ WholeOk'
    BY <2>1, <2>2 DEF RouteOk, IsRoute, One, WholeOk, Decided
  <2> QED BY <1>2, <1>3, <2>2, <2>3 DEF SubInv
<1>5. CASE ~(Len(items) > 1)
  <2>1. pc' = "done" /\ UNCHANGED <<route, moved>>
    BY <1>5 DEF Sub!Answer
  <2>2. RouteOk' /\ WholeOk'
    BY <2>1 DEF SubInv, RouteOk, IsRoute, One, WholeOk, Decided
  <2> QED BY <1>2, <1>3, <2>1, <2>2 DEF SubInv
<1> QED BY <1>4, <1>5

\* What one pipeline writes with a context.
LEMMA WritesOfSteps ==
    ASSUME req \in Submissions, NEW j, NEW p, NEW c, NotOurs(c), ~Sub!Conflicts(p, req.locked),
           req.locked # {} => c.index = req.locked,
           NEW w \in Sub!StepWrites(j, p, c)
    PROVE  WriteOk(w)
<1>1. PICK s \in Sub!Indexers(p) :
        LET idx == IF s.index # {} THEN s.index ELSE c.index
        IN w \in IF s.connection # {}
                 THEN {[job |-> j.n, tenant |-> c.tenant, host |-> "", key |-> "", row |-> {r}, index |-> idx] :
                         r \in Sub!Rows(Sub!The(s.connection), c.tenant)}
                 ELSE {[job |-> j.n, tenant |-> c.tenant, host |-> c.host, key |-> c.key, row |-> {}, index |-> idx]}
  BY DEF Sub!StepWrites
<1> DEFINE idx == IF s.index # {} THEN s.index ELSE c.index
<1>2. req.locked # {} => idx = req.locked
  <2> SUFFICES ASSUME req.locked # {}, s.index # {} PROVE s.index = req.locked
    OBVIOUS
  <2>1. \A i \in s.index : i \in Sub!step_indexes(p)
    BY DEF Sub!step_indexes
  <2>2. \A i \in s.index : i \in req.locked
    BY <2>1 DEF Sub!Conflicts
  <2> QED BY <2>2, LockedOne
<1> HIDE DEF idx
<1>3. CASE s.connection # {}
  <2>1. PICK r \in Sub!Rows(Sub!The(s.connection), c.tenant) :
           w = [job |-> j.n, tenant |-> c.tenant, host |-> "", key |-> "", row |-> {r}, index |-> idx]
    BY <1>1, <1>3 DEF idx
  <2>2. r.tenant = c.tenant
    BY <2>1 DEF Sub!Rows
  <2> QED BY <1>2, <2>1, <2>2 DEF WriteOk
<1>4. CASE s.connection = {}
  <2>1. w = [job |-> j.n, tenant |-> c.tenant, host |-> c.host, key |-> c.key, row |-> {}, index |-> idx]
    BY <1>1, <1>4 DEF idx
  <2> QED BY <1>2, <2>1 DEF WriteOk, NotOurs
<1> QED BY <1>3, <1>4

\* A job that ends.
LEMMA EndStep ==
    ASSUME SubInv, jobs' \subseteq jobs, \A w \in writes' : w \in writes \/ WriteOk(w),
           UNCHANGED <<req, pc, table, moved, items, ctx, route, status>>
    PROVE  SubInv'
<1>1. ASSUME NEW k \in jobs' PROVE StartedOk(k)'
  <2>1. StartedOk(k)
    BY DEF SubInv, JobsOk
  <2> QED BY <2>1 DEF StartedOk
<1>2. ASSUME NEW w \in writes' PROVE WriteOk(w)'
  <2>1. WriteOk(w)
    BY DEF SubInv, WritesOk
  <2> QED BY <2>1 DEF WriteOk
<1>3. CtxOk'
  BY DEF SubInv, CtxOk, IsContext, NotOurs
<1>4. RouteOk'
  BY DEF SubInv, RouteOk, IsRoute, One, Decided
<1>5. WholeOk'
  <2>1. Sub!Selected(items[1].mime, items[1].name)' = Sub!Selected(items[1].mime, items[1].name)
    BY DEF Sub!Selected
  <2> QED BY <2>1 DEF SubInv, WholeOk
<1> QED BY <1>1, <1>2, <1>3, <1>4, <1>5 DEF SubInv, JobsOk, WritesOk

LEMMA RunJobKeeps ==
    ASSUME SubInv, NEW j \in jobs, Sub!RunJob(j)
    PROVE  SubInv'
<1>1. /\ ~j.archive /\ writes' = writes \cup Sub!StepWrites(j, Sub!The(j.pipe), j.ctx) /\ jobs' = jobs \ {j}
      /\ UNCHANGED <<req, pc, table, moved, items, ctx, route, status>>
  BY DEF Sub!RunJob
<1>2. StartedOk(j) /\ req \in Submissions
  BY DEF SubInv, JobsOk
<1>3. Sub!The(j.pipe) \in j.pipe
  BY <1>1, <1>2 DEF StartedOk, Sub!The
<1>4. NotOurs(j.ctx) /\ ~Sub!Conflicts(Sub!The(j.pipe), req.locked) /\ (req.locked # {} => j.ctx.index = req.locked)
  BY <1>1, <1>2, <1>3 DEF StartedOk
<1>5. \A w \in Sub!StepWrites(j, Sub!The(j.pipe), j.ctx) : WriteOk(w)
  BY <1>2, <1>4, WritesOfSteps
<1> QED BY <1>1, <1>5, EndStep

LEMMA RunFileKeeps ==
    ASSUME SubInv, NEW j \in jobs, NEW f, Sub!RunFile(j, f)
    PROVE  SubInv'
<1> DEFINE c(p) == [j.ctx EXCEPT !.index = Sub!file_index(j, p, f)]
<1> DEFINE pipe == IF j.pipe # {} THEN j.pipe
                   ELSE Sub!resolve(table, BuiltinList, f.mime, f.name, j.ctx.tenant, {})
           runs == {p \in pipe : /\ Sub!pins_destination(p) \/ (j.ctx.host # "" /\ j.ctx.key # "")
                                 /\ ~Sub!Conflicts(p, j.locked)}
<1>1. /\ writes' = writes \cup UNION {Sub!StepWrites(j, p, c(p)) : p \in runs}
      /\ \A p \in runs : ~Sub!Conflicts(p, j.locked)
  BY DEF Sub!RunFile
<1> HIDE DEF runs, pipe
<1>2. jobs' = jobs \ {j} /\ UNCHANGED <<req, pc, table, moved, items, ctx, route, status>>
  BY DEF Sub!RunFile
<1>3. StartedOk(j) /\ req \in Submissions
  BY DEF SubInv, JobsOk
<1>4. ASSUME NEW p \in runs, NEW w \in Sub!StepWrites(j, p, c(p)) PROVE WriteOk(w)
  <2>1. PICK i : i = Sub!file_index(j, p, f)
    OBVIOUS
  <2>2. PICK d : d = [j.ctx EXCEPT !.index = i] /\ d = c(p)
    BY <2>1
  <2>3. d.tenant = j.ctx.tenant /\ d.host = j.ctx.host /\ d.key = j.ctx.key /\ d.index = i
    BY <1>3, <2>2, ContextWithIndex DEF StartedOk
  <2>4. NotOurs(d)
    BY <1>3, <2>3 DEF StartedOk, NotOurs
  <2>5. req.locked # {} => d.index = req.locked
    BY <1>3, <2>1, <2>3 DEF StartedOk, Sub!file_index
  <2>6. ~Sub!Conflicts(p, req.locked)
    BY <1>1, <1>3 DEF StartedOk
  <2>7. w \in Sub!StepWrites(j, p, d)
    BY <2>2
  <2> HIDE DEF c
  <2> QED BY <1>3, <2>4, <2>5, <2>6, <2>7, WritesOfSteps
<1>5. \A w \in UNION {Sub!StepWrites(j, p, c(p)) : p \in runs} : WriteOk(w)
  <2> HIDE DEF c
  <2> QED BY <1>4
<1> HIDE DEF c
<1> QED BY <1>1, <1>2, <1>5, EndStep

LEMMA SubKeeps ==
    ASSUME SubInv, Sub!Next
    PROVE  SubInv'
<1>1. CASE \E j \in jobs : pc = "done" /\ (Sub!RunJob(j) \/ \E f \in FilesFound : Sub!RunFile(j, f))
  BY <1>1, RunJobKeeps, RunFileKeeps
<1>2. CASE Sub!Done
  <2>1. /\ writes' = writes /\ jobs' \subseteq jobs
        /\ UNCHANGED <<req, pc, table, moved, items, ctx, route, status>>
    BY <1>2 DEF Sub!Done, Sub!vars
  <2> QED BY <2>1, EndStep
<1> QED BY <1>1, <1>2, ChangeTableKeeps, GetPipelineKeeps, ExtractKeeps, ContextKeeps, CheckRefKeeps, PlanKeeps,
           ResolvedKeeps, DestinationKeeps, PreflightKeeps, StartKeeps, AnswerKeeps DEF Sub!Next

LEMMA SubSound ==
    ASSUME SubInv
    PROVE  Sub!TenantIsolation /\ Sub!LockedIndexOnly /\ Sub!WholeOnlyIfNamed
BY DEF SubInv, WritesOk, WriteOk, JobsOk, StartedOk, Sub!takes_archive_whole,
       Sub!TenantIsolation, Sub!LockedIndexOnly, Sub!WholeOnlyIfNamed

----------------------------------------------------------------------------
(* Connections: the requests that change a row, and the jobs that use it.  *)

Calls == DOMAIN ConnectionCalls
JobNames == DOMAIN ConnectionReaders

IsFunction(f, S) == f = [x \in S |-> f[x]]
IsRow(row) == row = [id |-> row.id, tenant |-> row.tenant, host |-> row.host, api_key |-> row.api_key, name |-> row.name]
IsProbe(c) == c = [at |-> c.at, host |-> c.host, api_key |-> c.api_key, read |-> c.read]

\* A stored row is its tenant's, was made by a request that has ended, and its pair was
\* proven unless two requests overlapped.
RowOk(t, row) == /\ IsRow(row) /\ row.tenant = t
                 /\ row.id \in Calls /\ call[row.id].at = "done"
                 /\ <<t, row.host, row.api_key>> \in was
                 /\ <<row.host, row.api_key>> \in proven \/ overlapped

Rows == \A t \in Tenants : One(conns[t]) /\ \A row \in conns[t] : RowOk(t, row)

\* What a patch is about to store on the row it read.
PatchedHost(r, row) == Con!Opt(ConnectionCalls[r].host, row.host)
PatchedKey(r, row) == Con!Opt(ConnectionCalls[r].api_key, row.api_key)

\* A request probes what it stores, and stores what it probed.
Probing(r) == call[r].at = "probe" =>
                /\ IsProbe(call[r])
                /\ ConnectionCalls[r].kind # "create" =>
                     /\ One(call[r].read)
                     /\ \A row \in call[r].read : call[r].host = PatchedHost(r, row) /\ call[r].api_key = PatchedKey(r, row)
Inserting(r) == call[r].at = "insert" => <<call[r].host, call[r].api_key>> \in proven
Updating(r) == call[r].at = "update" =>
                 \/ ConnectionCalls[r].host = {} /\ ConnectionCalls[r].api_key = {}
                 \/ \A row \in call[r].read : <<PatchedHost(r, row), PatchedKey(r, row)>> \in proven

\* A deleted row is gone for good: the request that made it has ended.
Deleted(r) == ConnectionCalls[r].kind = "delete" /\ call[r].at = "done" /\ call[r].status = "NoContent" =>
                \A gone \in call[r].row :
                   /\ gone.tenant \in Tenants /\ gone.id \in Calls /\ call[gone.id].at = "done"
                   /\ \A row \in conns[gone.tenant] : row.id # gone.id

CallOk(r) == Probing(r) /\ Inserting(r) /\ Updating(r) /\ Deleted(r)

\* A job has a row that was stored for its tenant.
JobOk(j) == /\ job[j].at = "check" => <<ConnectionReaders[j], job[j].row.host, job[j].row.api_key>> \in was
            /\ job[j].at = "uses" => /\ <<ConnectionReaders[j], job[j].host, job[j].api_key>> \in was
                                     /\ job[j].host \notin job[j].refused

ConInv == /\ IsFunction(conns, Tenants) /\ IsFunction(call, Calls) /\ IsFunction(job, JobNames)
          /\ Rows
          /\ \A r \in Calls : CallOk(r)
          /\ \A j \in JobNames : JobOk(j)

LEMMA OneIsOnly ==
    ASSUME NEW s, One(s), s # {}
    PROVE  Con!Only(s) \in s /\ s = {Con!Only(s)}
<1>1. Con!Only(s) \in s
  BY DEF Con!Only
<1> QED BY <1>1 DEF One

LEMMA ProbeMoved ==
    ASSUME NEW a, NEW h, NEW k, NEW s, NEW c, c = [at |-> a, host |-> h, api_key |-> k, read |-> s], NEW b
    PROVE  [c EXCEPT !.at = b] = [at |-> b, host |-> h, api_key |-> k, read |-> s]
OBVIOUS

\* A step of one request that leaves the rows alone.
LEMMA CallStep ==
    ASSUME ConInv, NEW r \in Calls, call[r].at # "done", NEW to, call' = [call EXCEPT ![r] = to],
           UNCHANGED <<conns, job, was, overlapped>>, proven \subseteq proven', CallOk(r)'
    PROVE  ConInv'
<1>1. IsFunction(call', Calls) /\ \A q \in Calls : q # r => call'[q] = call[q]
  <2>1. IsFunction(call, Calls)
    BY DEF ConInv
  <2> QED BY <2>1 DEF IsFunction
<1>2. \A q \in Calls : call[q].at = "done" => call'[q] = call[q]
  BY <1>1
<1>3. Rows'
  BY <1>2 DEF ConInv, Rows, RowOk, One, IsRow
<1>4. ASSUME NEW q \in Calls, q # r PROVE CallOk(q)'
  <2>1. CallOk(q) /\ call'[q] = call[q]
    BY <1>1, <1>4 DEF ConInv
  <2>2. Probing(q)'
    BY <2>1 DEF CallOk, Probing, IsProbe, One, PatchedHost, PatchedKey
  <2>3. Inserting(q)' /\ Updating(q)'
    BY <2>1 DEF CallOk, Inserting, Updating, PatchedHost, PatchedKey
  <2>4. Deleted(q)'
    BY <1>2, <2>1 DEF CallOk, Deleted
  <2> QED BY <2>2, <2>3, <2>4 DEF CallOk
<1>5. \A j \in JobNames : JobOk(j)'
  BY DEF ConInv, JobOk
<1> QED BY <1>1, <1>3, <1>4, <1>5 DEF ConInv, IsFunction

\* A step of one request that writes the row of its tenant: none, or one that the request
\* made or that the table had.
LEMMA RowStep ==
    ASSUME ConInv, NEW r \in Calls, call[r].at # "done", NEW to, call' = [call EXCEPT ![r] = to], to.at = "done",
           NEW t \in Tenants, NEW rows, conns' = [conns EXCEPT ![t] = rows], One(rows),
           \A row \in rows : RowOk(t, row)' /\ (row.id = r \/ \E old \in conns[t] : row.id = old.id),
           UNCHANGED <<job, proven>>, was \subseteq was', overlapped => overlapped', Deleted(r)'
    PROVE  ConInv'
<1>1. IsFunction(call', Calls) /\ call'[r] = to /\ \A q \in Calls : q # r => call'[q] = call[q]
  <2>1. IsFunction(call, Calls)
    BY DEF ConInv
  <2> QED BY <2>1 DEF IsFunction
<1>2. \A q \in Calls : call[q].at = "done" => call'[q].at = "done"
  BY <1>1
<1>3. IsFunction(conns', Tenants) /\ conns'[t] = rows /\ \A u \in Tenants : u # t => conns'[u] = conns[u]
  <2>1. IsFunction(conns, Tenants)
    BY DEF ConInv
  <2> QED BY <2>1 DEF IsFunction
<1>4. Rows'
  <2>1. ASSUME NEW u \in Tenants, u # t PROVE One(conns'[u]) /\ \A row \in conns'[u] : RowOk(u, row)'
    <3>1. One(conns[u]) /\ conns'[u] = conns[u]
      BY <1>3, <2>1 DEF ConInv, Rows
    <3>2. ASSUME NEW row \in conns[u] PROVE RowOk(u, row)'
      <4>1. RowOk(u, row)
        BY DEF ConInv, Rows
      <4> QED BY <1>2, <4>1 DEF RowOk
    <3> QED BY <3>1, <3>2
  <2> QED BY <1>3, <2>1 DEF Rows, One
<1>5. ASSUME NEW q \in Calls, q # r PROVE CallOk(q)'
  <2>1. CallOk(q) /\ call'[q] = call[q]
    BY <1>1, <1>5 DEF ConInv
  <2>2. Probing(q)'
    BY <2>1 DEF CallOk, Probing, IsProbe, One, PatchedHost, PatchedKey
  <2>3. Inserting(q)' /\ Updating(q)'
    BY <2>1 DEF CallOk, Inserting, Updating, PatchedHost, PatchedKey
  <2>4. Deleted(q)'
    <3> SUFFICES ASSUME ConnectionCalls[q].kind = "delete", call[q].at = "done", call[q].status = "NoContent",
                        NEW gone \in call[q].row
                 PROVE  /\ gone.tenant \in Tenants /\ gone.id \in Calls /\ call'[gone.id].at = "done"
                        /\ \A row \in conns'[gone.tenant] : row.id # gone.id
      BY <2>1 DEF Deleted
    <3>1. /\ gone.tenant \in Tenants /\ gone.id \in Calls /\ call[gone.id].at = "done"
          /\ \A row \in conns[gone.tenant] : row.id # gone.id
      BY <2>1 DEF CallOk, Deleted
    <3>2. \A row \in conns'[gone.tenant] : row.id # gone.id
      BY <1>3, <3>1
    <3> QED BY <1>2, <3>1, <3>2
  <2> QED BY <2>2, <2>3, <2>4 DEF CallOk
<1>6. CallOk(r)'
  BY <1>1 DEF CallOk, Probing, Inserting, Updating
<1>7. \A j \in JobNames : JobOk(j)'
  BY DEF ConInv, JobOk
<1> QED BY <1>1, <1>3, <1>4, <1>5, <1>6, <1>7 DEF ConInv, IsFunction

\* A step of one job.
LEMMA JobStep ==
    ASSUME ConInv, NEW j \in JobNames, NEW to, job' = [job EXCEPT ![j] = to],
           UNCHANGED <<conns, call, was, proven, overlapped>>, JobOk(j)'
    PROVE  ConInv'
<1>1. IsFunction(job', JobNames) /\ \A i \in JobNames : i # j => job'[i] = job[i]
  <2>1. IsFunction(job, JobNames)
    BY DEF ConInv
  <2> QED BY <2>1 DEF IsFunction
<1>2. Rows'
  BY DEF ConInv, Rows, RowOk, One, IsRow
<1>3. ASSUME NEW r \in Calls PROVE CallOk(r)'
  <2>1. CallOk(r)
    BY DEF ConInv
  <2>2. Probing(r)' /\ Inserting(r)' /\ Updating(r)'
    BY <2>1 DEF CallOk, Probing, Inserting, Updating, IsProbe, One, PatchedHost, PatchedKey
  <2>3. Deleted(r)'
    BY <2>1 DEF CallOk, Deleted
  <2> QED BY <2>2, <2>3 DEF CallOk
<1>4. \A i \in JobNames : JobOk(i)'
  BY <1>1 DEF ConInv, JobOk
<1> QED BY <1>1, <1>2, <1>3, <1>4 DEF ConInv, IsFunction

\* A row is never lost from sight: get_owned and get find a row of the tenant's own only.
LEMMA OwnRow ==
    ASSUME ConInv, NEW t \in Tenants
    PROVE  /\ {row \in Con!get(t) : row.tenant = t} \subseteq conns[t]
           /\ Con!get_connection(t, IF t # "" THEN "tenant" ELSE "") = conns[t]
<1>1. "" \in Tenants
  BY ConnectionsAssumption
<1>2. \A row \in conns[""] : row.tenant = ""
  BY <1>1 DEF ConInv, Rows, RowOk
<1> QED BY <1>2 DEF Con!get, Con!get_connection, Con!get_owned

LEMMA CallTenant ==
    ASSUME NEW r \in Calls
    PROVE  /\ ConnectionCalls[r].tenant \in Tenants
           /\ ConnectionCalls[r].kind = "create" => ConnectionCalls[r].host # {}
BY ConnectionsAssumption DEF Calls

LEMMA ConInit ==
    ASSUME Con!Init
    PROVE  ConInv
BY DEF Con!Init, ConInv, IsFunction, Rows, One, CallOk, Probing, Inserting, Updating, Deleted, JobOk, Calls, JobNames

LEMMA CreateKeeps ==
    ASSUME ConInv, NEW r \in Calls, Con!create_connection(r)
    PROVE  ConInv'
<1> DEFINE q == ConnectionCalls[r]
           to == IF Con!BadBody(q) THEN Con!Answer("BadRequest")
                 ELSE [at |-> "probe", host |-> Con!Only(q.host), api_key |-> Con!Only(q.api_key), read |-> {}]
<1>1. /\ call[r].at = "new" /\ q.kind = "create" /\ call' = [call EXCEPT ![r] = to]
      /\ UNCHANGED <<conns, job, was, overlapped>> /\ proven' = proven
  BY DEF Con!create_connection, Con!At, Con!Go
<1>2. to.at \in {"done", "probe"} /\ (to.at = "probe" => IsProbe(to))
  BY DEF Con!Answer, IsProbe
<1> HIDE DEF to
<1>3. call'[r] = to
  BY <1>1 DEF ConInv, IsFunction
<1>4. CallOk(r)'
  BY <1>1, <1>2, <1>3 DEF CallOk, Probing, Inserting, Updating, Deleted
<1> QED BY <1>1, <1>4, CallStep

LEMMA ReadKeeps ==
    ASSUME ConInv, NEW r \in Calls, Con!read_connection(r)
    PROVE  ConInv'
<1> DEFINE q == ConnectionCalls[r]
           rows == {row \in Con!get(q.tenant) : row.tenant = q.tenant}
<1>1. PICK to : /\ call[r].at = "new" /\ q.kind \in {"patch", "delete"} /\ call' = [call EXCEPT ![r] = to]
                /\ to = CASE Con!BadBody(q) -> Con!Answer("BadRequest")
                          [] ~Con!BadBody(q) /\ rows = {} -> Con!Answer("NotFound")
                          [] ~Con!BadBody(q) /\ rows # {} /\ q.kind = "delete" -> [at |-> "delete"]
                          [] ~Con!BadBody(q) /\ rows # {} /\ q.kind = "patch" /\ (\E h \in q.host : ~Con!normalize_host(h)) -> Con!Answer("Unprocessable")
                          [] ~Con!BadBody(q) /\ rows # {} /\ q.kind = "patch" /\ q.host = {} /\ q.api_key = {} -> [at |-> "update", read |-> rows]
                          [] OTHER -> [at |-> "probe", host |-> Con!Opt(q.host, Con!Only(rows).host),
                                       api_key |-> Con!Opt(q.api_key, Con!Only(rows).api_key), read |-> rows]
  BY DEF Con!read_connection, Con!At, Con!Go
<1>2. UNCHANGED <<conns, job, was, overlapped>> /\ proven' = proven
  BY DEF Con!read_connection
<1>3. call'[r] = to
  BY <1>1 DEF ConInv, IsFunction
<1>4. One(rows)
  <2>1. q.tenant \in Tenants
    BY CallTenant
  <2>2. rows \subseteq conns[q.tenant]
    BY <2>1, OwnRow
  <2>3. One(conns[q.tenant])
    BY <2>1 DEF ConInv, Rows
  <2> HIDE DEF rows, q
  <2> QED BY <2>2, <2>3 DEF One
<1> DEFINE h0 == Con!Opt(q.host, Con!Only(rows).host)
           k0 == Con!Opt(q.api_key, Con!Only(rows).api_key)
<1>5. \/ to = [at |-> "done", status |-> "BadRequest"]
      \/ to = [at |-> "done", status |-> "NotFound"]
      \/ to = [at |-> "done", status |-> "Unprocessable"]
      \/ to = [at |-> "delete"]
      \/ to = [at |-> "update", read |-> rows] /\ q.host = {} /\ q.api_key = {}
      \/ to = [at |-> "probe", host |-> h0, api_key |-> k0, read |-> rows] /\ rows # {}
  <2> HIDE DEF q, rows
  <2> QED BY <1>1 DEF Con!Answer
<1>6. CASE to = [at |-> "probe", host |-> h0, api_key |-> k0, read |-> rows] /\ rows # {}
  <2>1. \A row \in rows : row = Con!Only(rows)
    BY <1>4, <1>6 DEF One, Con!Only
  <2> HIDE DEF rows
  <2>2. \A row \in rows : h0 = PatchedHost(r, row) /\ k0 = PatchedKey(r, row)
    BY <2>1 DEF PatchedHost, PatchedKey
  <2> HIDE DEF h0, k0
  <2>3. CallOk(r)'
    BY <1>3, <1>4, <1>6, <2>2 DEF CallOk, Probing, Inserting, Updating, Deleted, IsProbe, PatchedHost, PatchedKey
  <2> QED BY <1>1, <1>2, <2>3, CallStep
<1>7. CASE to = [at |-> "update", read |-> rows] /\ q.host = {} /\ q.api_key = {}
  <2>1. CallOk(r)'
    BY <1>3, <1>7 DEF CallOk, Probing, Inserting, Updating, Deleted
  <2> QED BY <1>1, <1>2, <2>1, CallStep
<1>8. CASE \/ to = [at |-> "done", status |-> "BadRequest"]
           \/ to = [at |-> "done", status |-> "NotFound"]
           \/ to = [at |-> "done", status |-> "Unprocessable"]
           \/ to = [at |-> "delete"]
  <2>1. CallOk(r)'
    BY <1>3, <1>8 DEF CallOk, Probing, Inserting, Updating, Deleted
  <2> QED BY <1>1, <1>2, <2>1, CallStep
<1> QED BY <1>5, <1>6, <1>7, <1>8

LEMMA ValidateKeeps ==
    ASSUME ConInv, NEW r \in Calls, Con!validate_destination(r)
    PROVE  ConInv'
<1> DEFINE c == call[r]
           ok == c.host \notin refused /\ <<c.host, c.api_key>> \in Works
<1>1. PICK to : /\ call' = [call EXCEPT ![r] = to]
                /\ to = IF ok THEN [c EXCEPT !.at = IF ConnectionCalls[r].kind = "create" THEN "insert" ELSE "update"]
                              ELSE Con!Answer("Unprocessable")
  BY DEF Con!validate_destination, Con!Go
<1>2. /\ c.at = "probe" /\ UNCHANGED <<conns, job, was, overlapped>>
      /\ proven' = IF ok THEN proven \cup {<<c.host, c.api_key>>} ELSE proven
  BY DEF Con!validate_destination, Con!At
<1>3. call'[r] = to /\ proven \subseteq proven'
  BY <1>1, <1>2 DEF ConInv, IsFunction
<1>4. Probing(r) /\ IsProbe(c)
  BY <1>2 DEF ConInv, CallOk, Probing
<1>5. CASE ok
  <2>1. PICK b : b = (IF ConnectionCalls[r].kind = "create" THEN "insert" ELSE "update") /\ to = [c EXCEPT !.at = b]
    BY <1>1, <1>5
  <2>2. to = [at |-> b, host |-> c.host, api_key |-> c.api_key, read |-> c.read]
    BY <1>4, <2>1, ProbeMoved DEF IsProbe
  <2>3. <<c.host, c.api_key>> \in proven'
    BY <1>2, <1>5
  <2> HIDE DEF c, ok
  <2>4. to.at = b /\ to.host = c.host /\ to.api_key = c.api_key /\ to.read = c.read
    BY <2>2
  <2>5. CASE ConnectionCalls[r].kind = "create"
    <3>1. CallOk(r)'
      BY <1>3, <2>1, <2>3, <2>4, <2>5 DEF CallOk, Probing, Inserting, Updating, Deleted
    <3> QED BY <1>1, <1>2, <1>3, <3>1, CallStep DEF c
  <2>6. CASE ConnectionCalls[r].kind # "create"
    <3>1. \A row \in c.read : c.host = PatchedHost(r, row) /\ c.api_key = PatchedKey(r, row)
      BY <1>2, <1>4, <2>6 DEF Probing, c
    <3>2. \A row \in to.read : <<PatchedHost(r, row), PatchedKey(r, row)>> \in proven'
      BY <2>3, <2>4, <3>1
    <3>3. CallOk(r)'
      BY <1>3, <2>1, <2>4, <2>6, <3>2 DEF CallOk, Probing, Inserting, Updating, Deleted, PatchedHost, PatchedKey
    <3> QED BY <1>1, <1>2, <1>3, <3>3, CallStep DEF c
  <2> QED BY <2>5, <2>6
<1>6. CASE ~ok
  <2>1. to = [at |-> "done", status |-> "Unprocessable"]
    BY <1>1, <1>6 DEF Con!Answer
  <2>2. CallOk(r)'
    BY <1>3, <2>1 DEF CallOk, Probing, Inserting, Updating, Deleted
  <2> QED BY <1>1, <1>2, <1>3, <2>2, CallStep
<1> QED BY <1>5, <1>6

LEMMA InsertKeeps ==
    ASSUME ConInv, NEW r \in Calls, Con!insert(r)
    PROVE  ConInv'
<1> DEFINE t == ConnectionCalls[r].tenant
<1>1. /\ call[r].at = "insert" /\ UNCHANGED <<job, proven, overlapped>> /\ t \in Tenants
      /\ <<call[r].host, call[r].api_key>> \in proven
  BY CallTenant DEF Con!insert, Con!At, ConInv, CallOk, Inserting
<1>2. CASE conns[t] # {}
  <2>1. call' = [call EXCEPT ![r] = Con!Answer("Unprocessable")] /\ UNCHANGED <<conns, was>>
    BY <1>2 DEF Con!insert, Con!Go
  <2>2. call'[r] = [at |-> "done", status |-> "Unprocessable"]
    BY <2>1 DEF ConInv, IsFunction, Con!Answer
  <2>3. CallOk(r)'
    BY <2>2 DEF CallOk, Probing, Inserting, Updating, Deleted
  <2> QED BY <1>1, <2>1, <2>3, CallStep
<1>3. CASE conns[t] = {}
  <2>1. PICK row : /\ row = [id |-> r, tenant |-> t, host |-> call[r].host, api_key |-> call[r].api_key,
                             name |-> Con!Opt(ConnectionCalls[r].name, ConnectionCalls[r].uid)]
                   /\ conns' = [conns EXCEPT ![t] = {row}] /\ was' = was \cup {<<t, row.host, row.api_key>>}
    BY <1>3 DEF Con!insert, Con!Stored
  <2>2. call' = [call EXCEPT ![r] = Con!Answer("Created")]
    BY <1>3 DEF Con!insert, Con!Go
  <2>3. call'[r] = [at |-> "done", status |-> "Created"]
    BY <2>2 DEF ConInv, IsFunction, Con!Answer
  <2>4. Deleted(r)' /\ Con!Answer("Created").at = "done"
    BY <2>3 DEF Deleted, Con!Answer
  <2>5. IsRow(row) /\ row.id = r /\ row.tenant = t /\ row.host = call[r].host /\ row.api_key = call[r].api_key
    BY <2>1 DEF IsRow
  <2> HIDE DEF t
  <2>6. RowOk(t, row)'
    BY <1>1, <2>1, <2>3, <2>5 DEF RowOk, t
  <2>7. One({row}) /\ \A x \in {row} : RowOk(t, x)' /\ x.id = r
    BY <2>5, <2>6 DEF One
  <2> QED BY <1>1, <2>1, <2>2, <2>4, <2>7, RowStep
<1> QED BY <1>2, <1>3

LEMMA PatchKeeps ==
    ASSUME ConInv, NEW r \in Calls, Con!patch_connection(r)
    PROVE  ConInv'
<1> DEFINE q == ConnectionCalls[r]
           t == q.tenant
<1>1. call[r].at = "update" /\ UNCHANGED <<job, proven>> /\ t \in Tenants /\ Updating(r)
  BY CallTenant DEF Con!patch_connection, Con!At, ConInv, CallOk
<1>2. CASE conns[t] = {}
  <2>1. call' = [call EXCEPT ![r] = Con!Answer("NotFound")] /\ UNCHANGED <<conns, was, overlapped>>
    BY <1>2 DEF Con!patch_connection, Con!Go
  <2>2. call'[r] = [at |-> "done", status |-> "NotFound"]
    BY <2>1 DEF ConInv, IsFunction, Con!Answer
  <2>3. CallOk(r)'
    BY <2>2 DEF CallOk, Probing, Inserting, Updating, Deleted
  <2> QED BY <1>1, <2>1, <2>3, CallStep
<1>3. CASE conns[t] # {}
  <2>1. PICK old : old = Con!Only(conns[t])
    OBVIOUS
  <2>2. old \in conns[t] /\ RowOk(t, old)
    BY <1>1, <1>3, <2>1 DEF Con!Only, ConInv, Rows
  <2>3. PICK row : /\ row = Con!update(old, q)
                   /\ conns' = [conns EXCEPT ![t] = {row}] /\ was' = was \cup {<<t, row.host, row.api_key>>}
    BY <1>3, <2>1 DEF Con!patch_connection, Con!Stored
  <2>4. call' = [call EXCEPT ![r] = Con!Answer("Ok")] /\ overlapped' = (overlapped \/ conns[t] # call[r].read)
    BY <1>3 DEF Con!patch_connection, Con!Go
  <2>5. call'[r] = [at |-> "done", status |-> "Ok"]
    BY <2>4 DEF ConInv, IsFunction, Con!Answer
  <2>6. Deleted(r)' /\ Con!Answer("Ok").at = "done"
    BY <2>5 DEF Deleted, Con!Answer
  <2>7. /\ IsRow(row) /\ row.id = old.id /\ row.tenant = old.tenant
        /\ row.host = PatchedHost(r, old) /\ row.api_key = PatchedKey(r, old)
    BY <2>3 DEF IsRow, Con!update, PatchedHost, PatchedKey
  <2>8. <<row.host, row.api_key>> \in proven \/ overlapped'
    <3>1. CASE conns[t] # call[r].read
      BY <2>4, <3>1
    <3>2. CASE q.host = {} /\ q.api_key = {}
      <4>1. row.host = old.host /\ row.api_key = old.api_key
        BY <2>7, <3>2 DEF PatchedHost, PatchedKey, Con!Opt
      <4> QED BY <2>2, <2>4, <4>1 DEF RowOk
    <3>3. CASE conns[t] = call[r].read /\ ~(q.host = {} /\ q.api_key = {})
      <4>1. <<PatchedHost(r, old), PatchedKey(r, old)>> \in proven
        BY <1>1, <2>2, <3>3 DEF Updating
      <4> QED BY <2>7, <4>1
    <3> QED BY <3>1, <3>2, <3>3
  <2>9. old.id \in Calls /\ call'[old.id].at = "done"
    <3>1. old.id \in Calls /\ call[old.id].at = "done"
      BY <2>2 DEF RowOk
    <3> QED BY <1>1, <2>4, <3>1 DEF ConInv, IsFunction
  <2> HIDE DEF t, q
  <2>10. RowOk(t, row)'
    <3>1. <<t, row.host, row.api_key>> \in was' /\ row.tenant = t
      BY <2>2, <2>3, <2>7 DEF RowOk
    <3> QED BY <1>1, <2>7, <2>8, <2>9, <3>1 DEF RowOk, t, q
  <2>11. One({row}) /\ \A x \in {row} : RowOk(t, x)' /\ \E y \in conns[t] : x.id = y.id
    BY <2>2, <2>7, <2>10 DEF One
  <2>12. (overlapped => overlapped') /\ was \subseteq was'
    BY <2>3, <2>4
  <2> QED BY <1>1, <2>3, <2>4, <2>6, <2>11, <2>12, RowStep
<1> QED BY <1>2, <1>3

LEMMA DeleteKeeps ==
    ASSUME ConInv, NEW r \in Calls, Con!delete_connection(r)
    PROVE  ConInv'
<1> DEFINE t == ConnectionCalls[r].tenant
<1>1. PICK to : /\ to = [at |-> "done", status |-> IF conns[t] = {} THEN "NotFound" ELSE "NoContent", row |-> conns[t]]
                /\ call' = [call EXCEPT ![r] = to]
  BY DEF Con!delete_connection, Con!Go
<1>2. /\ call[r].at = "delete" /\ conns' = [conns EXCEPT ![t] = {}] /\ t \in Tenants
      /\ UNCHANGED <<job, proven, was, overlapped>>
  BY CallTenant DEF Con!delete_connection, Con!At, Con!delete
<1>3. call'[r] = to /\ to.at = "done" /\ to.row = conns[t]
  BY <1>1 DEF ConInv, IsFunction
<1>4. \A c \in Calls : call[c].at = "done" => call'[c].at = "done"
  BY <1>1, <1>2 DEF ConInv, IsFunction
<1>5. Deleted(r)'
  <2>1. ASSUME NEW gone \in conns[t]
        PROVE  /\ gone.tenant \in Tenants /\ gone.id \in Calls /\ call'[gone.id].at = "done"
               /\ \A row \in conns'[gone.tenant] : row.id # gone.id
    <3>1. gone.tenant = t /\ gone.id \in Calls /\ call[gone.id].at = "done"
      BY <1>2 DEF ConInv, Rows, RowOk
    <3>2. conns'[t] = {}
      BY <1>2 DEF ConInv, IsFunction
    <3> QED BY <1>2, <1>4, <3>1, <3>2
  <2> HIDE DEF t
  <2> QED BY <1>3, <2>1 DEF Deleted
<1>6. One({}) /\ \A row \in {} : RowOk(t, row)' /\ row.id = r
  BY DEF One
<1> HIDE DEF t
<1> QED BY <1>1, <1>2, <1>3, <1>5, <1>6, RowStep

LEMMA FetchKeeps ==
    ASSUME ConInv, NEW j \in JobNames, NEW open, Con!fetch(j, open)
    PROVE  ConInv'
<1> DEFINE t == ConnectionReaders[j]
<1>1. t \in Tenants
  BY ConnectionsAssumption DEF JobNames
<1>2. Con!get_connection(t, IF t # "" THEN "tenant" ELSE "") = conns[t]
  BY <1>1, OwnRow
<1>3. PICK to : /\ job' = [job EXCEPT ![j] = to]
                /\ to = IF conns[t] = {} \/ ~open THEN [at |-> "failed", error |-> "NonRetryable"]
                        ELSE [at |-> "check", row |-> Con!Only(conns[t])]
  BY <1>2 DEF Con!fetch
<1>4. UNCHANGED <<conns, call, was, proven, overlapped>>
  BY DEF Con!fetch
<1>5. job'[j] = to
  BY <1>3 DEF ConInv, IsFunction
<1>6. CASE to = [at |-> "check", row |-> Con!Only(conns[t])] /\ conns[t] # {}
  <2>1. RowOk(t, Con!Only(conns[t]))
    BY <1>1, <1>6 DEF ConInv, Rows, Con!Only
  <2>2. JobOk(j)'
    BY <1>4, <1>5, <1>6, <2>1 DEF JobOk, RowOk
  <2> QED BY <1>3, <1>4, <2>2, JobStep
<1>7. CASE to = [at |-> "failed", error |-> "NonRetryable"]
  <2>1. JobOk(j)'
    BY <1>5, <1>7 DEF JobOk
  <2> QED BY <1>3, <1>4, <2>1, JobStep
<1> QED BY <1>3, <1>6, <1>7

LEMMA ResolveKeeps ==
    ASSUME ConInv, NEW j \in JobNames, NEW dns, Con!resolve_connection(j, dns)
    PROVE  ConInv'
<1> DEFINE row == job[j].row
<1>1. PICK to : /\ job' = [job EXCEPT ![j] = to]
                /\ to = IF ~dns THEN [at |-> "failed", error |-> "Retryable"]
                        ELSE IF row.host \in refused THEN [at |-> "failed", error |-> "NonRetryable"]
                        ELSE [at |-> "uses", host |-> row.host, api_key |-> row.api_key, refused |-> refused]
  BY DEF Con!resolve_connection
<1>2. job[j].at = "check" /\ UNCHANGED <<conns, call, was, proven, overlapped>>
  BY DEF Con!resolve_connection
<1>3. job'[j] = to
  BY <1>1 DEF ConInv, IsFunction
<1>4. <<ConnectionReaders[j], row.host, row.api_key>> \in was
  BY <1>2 DEF ConInv, JobOk
<1> HIDE DEF row
<1>5. CASE to = [at |-> "uses", host |-> row.host, api_key |-> row.api_key, refused |-> refused] /\ row.host \notin refused
  <2>1. JobOk(j)'
    BY <1>2, <1>3, <1>4, <1>5 DEF JobOk
  <2> QED BY <1>1, <1>2, <2>1, JobStep
<1>6. CASE \E e : to = [at |-> "failed", error |-> e]
  <2>1. JobOk(j)'
    BY <1>3, <1>6 DEF JobOk
  <2> QED BY <1>1, <1>2, <2>1, JobStep
<1> QED BY <1>1, <1>5, <1>6

LEMMA RetryKeeps ==
    ASSUME ConInv, NEW j \in JobNames, Con!retry(j)
    PROVE  ConInv'
<1>1. job' = [job EXCEPT ![j] = [at |-> "new"]] /\ UNCHANGED <<conns, call, was, proven, overlapped>>
  BY DEF Con!retry
<1>2. job'[j] = [at |-> "new"]
  BY <1>1 DEF ConInv, IsFunction
<1>3. JobOk(j)'
  BY <1>2 DEF JobOk
<1> QED BY <1>1, <1>3, JobStep

LEMMA ConUnchanged ==
    ASSUME ConInv, UNCHANGED <<conns, call, job, was, proven, overlapped>>
    PROVE  ConInv'
<1>1. Rows'
  BY DEF ConInv, Rows, RowOk, One, IsRow
<1>2. ASSUME NEW r \in Calls PROVE CallOk(r)'
  <2>1. CallOk(r)
    BY DEF ConInv
  <2>2. Probing(r)' /\ Inserting(r)' /\ Updating(r)'
    BY <2>1 DEF CallOk, Probing, Inserting, Updating, IsProbe, One, PatchedHost, PatchedKey
  <2>3. Deleted(r)'
    BY <2>1 DEF CallOk, Deleted
  <2> QED BY <2>2, <2>3 DEF CallOk
<1>3. \A j \in JobNames : JobOk(j)'
  BY DEF ConInv, JobOk
<1> QED BY <1>1, <1>2, <1>3 DEF ConInv, IsFunction

LEMMA ConKeeps ==
    ASSUME ConInv, Con!Next
    PROVE  ConInv'
<1>1. CASE \E r \in Calls : \/ Con!create_connection(r) \/ Con!read_connection(r) \/ Con!validate_destination(r)
                            \/ Con!insert(r) \/ Con!patch_connection(r) \/ Con!delete_connection(r)
  BY <1>1, CreateKeeps, ReadKeeps, ValidateKeeps, InsertKeeps, PatchKeeps, DeleteKeeps
<1>2. CASE \E j \in JobNames, ok \in BOOLEAN : Con!fetch(j, ok) \/ Con!resolve_connection(j, ok)
  BY <1>2, FetchKeeps, ResolveKeeps
<1>3. CASE \E j \in JobNames : Con!retry(j)
  BY <1>3, RetryKeeps
<1>4. CASE \E h \in Hosts : Con!DnsChanges(h)
  <2>1. UNCHANGED <<conns, call, job, was, proven, overlapped>>
    BY <1>4 DEF Con!DnsChanges
  <2> QED BY <2>1, ConUnchanged
<1> QED BY <1>1, <1>2, <1>3, <1>4 DEF Con!Next, Calls, JobNames

LEMMA ConSound ==
    ASSUME ConInv
    PROVE  Con!ConnectionsSound
BY DEF ConInv, Rows, RowOk, CallOk, Deleted, JobOk, Con!ConnectionsSound, Con!At, Calls, JobNames
----------------------------------------------------------------------------
(* An index step.  The batches of a plan cut the first n documents: none   *)
(* is empty or over a limit, they are in order, and each document is in    *)
(* one of them.                                                            *)

Ranges == Int \X Int
In(p, r) == r[1] <= p /\ p <= r[2]
Fits(s, r) == r[2] - r[1] < batch_size /\ Idx!BytesOf(s, r) <= max_batch_bytes
Cut(s, b, n) ==
  /\ b \in Seq(Ranges)
  /\ \A i \in 1..Len(b) : 1 <= b[i][1] /\ b[i][1] <= b[i][2] /\ b[i][2] <= n /\ Fits(s, b[i])
  /\ \A i, j \in 1..Len(b) : i < j => b[i][2] < b[j][1]
  /\ \A p \in 1..n : \E i \in 1..Len(b) : In(p, b[i])

TooBig(s) == \E k \in 1..Len(s) : s[k] + Idx!BRACKETS > max_batch_bytes

\* The plan after the first n documents.
PlanOk(s, n, p) ==
  /\ p = Idx!Plan(p.batches, p.start, p.bytes, p.oversized) /\ p.oversized \in BOOLEAN
  /\ p.oversized => TooBig(s)
  /\ ~p.oversized => /\ p.start \in 1..(n + 1) /\ p.bytes \in Nat
                     /\ n = 0 => p.bytes = Idx!BRACKETS
                     /\ n > 0 => p.start <= n /\ Fits(s, <<p.start, n>>) /\ p.bytes = Idx!BytesOf(s, <<p.start, n>>)
                     /\ Cut(s, p.batches, p.start - 1)

\* What a next step preserves holds of every n: the least n without it has one before it.
LEMMA UpTo ==
    ASSUME NEW n \in Nat, NEW S, 0 \in S, \A k \in 0..(n - 1) : k \in S => k + 1 \in S
    PROVE  \A k \in 0..n : k \in S
<1> SUFFICES ASSUME NEW m \in 0..n, m \notin S PROVE FALSE
  OBVIOUS
<1> DEFINE Missing == {k \in 0..n : k \notin S}
           below(k) == 0..k
           T == {below(k) : k \in Missing}
           R == StrictSubsetOrdering(0..n)
<1>1. IsWellFoundedOn(R, SUBSET (0..n))
  <2>1. IsFiniteSet(0..n)
    BY FS_Interval
  <2>2. FiniteSubsetsOf(0..n) = SUBSET (0..n)
    BY <2>1, FS_FiniteSubsetsOfFinite
  <2> QED BY <2>2, FS_StrictSubsetOrderingWellFounded
<1>2. T \subseteq SUBSET (0..n) /\ T # {}
  OBVIOUS
<1>3. \E t \in T : \A u \in T : <<u, t>> \notin R
  <2> HIDE DEF T, R
  <2> QED BY <1>1, <1>2, WFMin
<1>4. PICK t \in T : \A u \in T : <<u, t>> \notin R
  BY <1>3
<1>5. PICK k \in Missing : t = below(k)
  BY <1>4
<1>6. k # 0 /\ k \in 0..n /\ k \notin S
  BY <1>5
<1>7. k - 1 \in Missing
  BY <1>6
<1>8. <<below(k - 1), below(k)>> \in R
  <2>1. k \in below(k) /\ k \notin below(k - 1)
    BY <1>6
  <2>2. below(k - 1) \subseteq below(k) /\ below(k) \in SUBSET (0..n)
    BY <1>6
  <2> HIDE DEF below
  <2> QED BY <2>1, <2>2 DEF StrictSubsetOrdering
<1> QED BY <1>4, <1>5, <1>7, <1>8

\* The recursion of BytesUpTo has a solution for every sequence.
LEMMA BytesDefined ==
    ASSUME NEW s \in Seq(Nat)
    PROVE  Idx!BytesUpTo(s) = [i \in 0..Len(s) |-> IF i = 0 THEN 0 ELSE Idx!BytesUpTo(s)[i - 1] + s[i]]
<1> DEFINE Is(f, n) == f = [i \in 0..n |-> IF i = 0 THEN 0 ELSE f[i - 1] + s[i]]
           Solved(n) == \E f : Is(f, n)
           S == {n \in 0..Len(s) : Solved(n)}
<1>1. Solved(0)
  <2>1. Is([i \in 0..0 |-> 0], 0)
    BY SMT
  <2> QED BY <2>1
<1>2. ASSUME NEW k \in 0..(Len(s) - 1), Solved(k) PROVE Solved(k + 1)
  <2>1. PICK f : Is(f, k)
    BY <1>2
  <2> DEFINE g == [i \in 0..(k + 1) |-> IF i = k + 1 THEN f[k] + s[k + 1] ELSE f[i]]
  <2>2. Is(g, k + 1)
    <3>1. ASSUME NEW i \in 0..(k + 1), i # k + 1, i # 0 PROVE g[i] = g[i - 1] + s[i]
      BY <2>1, <3>1
    <3>2. g[0] = 0
      BY <2>1
    <3>3. g[k + 1] = g[(k + 1) - 1] + s[k + 1]
      OBVIOUS
    <3>4. \A i \in 0..(k + 1) : g[i] = IF i = 0 THEN 0 ELSE g[i - 1] + s[i]
      BY <3>1, <3>2, <3>3
    <3> QED BY <3>4
  <2> HIDE DEF g, Is
  <2> QED BY <2>2
<1>3. Solved(Len(s))
  <2> HIDE DEF Solved
  <2>1. 0 \in S /\ \A k \in 0..(Len(s) - 1) : k \in S => k + 1 \in S
    BY <1>1, <1>2
  <2>2. Len(s) \in Nat /\ Len(s) \in 0..Len(s)
    OBVIOUS
  <2> HIDE DEF S
  <2>3. Len(s) \in S
    BY <2>1, <2>2, UpTo
  <2> QED BY <2>3 DEF S
<1>4. Idx!BytesUpTo(s) = CHOOSE f : Is(f, Len(s))
  BY DEF Idx!BytesUpTo
<1> HIDE DEF Is
<1>5. Is(Idx!BytesUpTo(s), Len(s))
  BY <1>3, <1>4
<1> QED BY <1>5 DEF Is

LEMMA BytesGrow ==
    ASSUME NEW s \in Seq(Nat)
    PROVE  /\ Idx!BytesUpTo(s)[0] = 0
           /\ \A n \in 0..Len(s) : Idx!BytesUpTo(s)[n] \in Nat
           /\ \A n \in 0..(Len(s) - 1) : Idx!BytesUpTo(s)[n + 1] = Idx!BytesUpTo(s)[n] + s[n + 1]
<1> DEFINE f == Idx!BytesUpTo(s)
           S == {n \in 0..Len(s) : f[n] \in Nat}
<1>1. f = [i \in 0..Len(s) |-> IF i = 0 THEN 0 ELSE f[i - 1] + s[i]]
  BY BytesDefined
<1> HIDE DEF f
<1>2. f[0] = 0
  BY <1>1
<1>3. \A n \in 0..(Len(s) - 1) : f[n + 1] = f[n] + s[n + 1]
  BY <1>1
<1>4. 0 \in S /\ \A k \in 0..(Len(s) - 1) : k \in S => k + 1 \in S
  <2>1. \A k \in 0..(Len(s) - 1) : s[k + 1] \in Nat
    OBVIOUS
  <2> QED BY <1>2, <1>3, <2>1
<1>5. \A n \in 0..Len(s) : n \in S
  <2>1. Len(s) \in Nat
    OBVIOUS
  <2> HIDE DEF S
  <2> QED BY <1>4, <2>1, UpTo
<1>6. \A n \in 0..Len(s) : f[n] \in Nat
  BY <1>5
<1> QED BY <1>2, <1>3, <1>6 DEF f

LEMMA PlanDefined ==
    ASSUME NEW s \in Seq(Nat)
    PROVE  /\ Idx!PlanOf(s)[0] = Idx!Plan(<<>>, 1, Idx!BRACKETS, FALSE)
           /\ \A n \in 0..(Len(s) - 1) : Idx!PlanOf(s)[n + 1] = Idx!PlanStep(Idx!PlanOf(s)[n], s[n + 1], n + 1)
<1> DEFINE first == Idx!Plan(<<>>, 1, Idx!BRACKETS, FALSE)
           Is(f, n) == f = [i \in 0..n |-> IF i = 0 THEN first ELSE Idx!PlanStep(f[i - 1], s[i], i)]
           Solved(n) == \E f : Is(f, n)
           S == {n \in 0..Len(s) : Solved(n)}
<1> HIDE DEF first
<1>1. Solved(0)
  <2>1. Is([i \in 0..0 |-> first], 0)
    BY SMT
  <2> QED BY <2>1
<1>2. ASSUME NEW k \in 0..(Len(s) - 1), Solved(k) PROVE Solved(k + 1)
  <2>1. PICK f : Is(f, k)
    BY <1>2
  <2> DEFINE g == [i \in 0..(k + 1) |-> IF i = k + 1 THEN Idx!PlanStep(f[k], s[k + 1], k + 1) ELSE f[i]]
  <2>2. Is(g, k + 1)
    <3>1. ASSUME NEW i \in 0..(k + 1), i # k + 1, i # 0 PROVE g[i] = Idx!PlanStep(g[i - 1], s[i], i)
      BY <2>1, <3>1
    <3>2. g[0] = first
      BY <2>1
    <3>3. g[k + 1] = Idx!PlanStep(g[(k + 1) - 1], s[k + 1], k + 1)
      OBVIOUS
    <3>4. \A i \in 0..(k + 1) : g[i] = IF i = 0 THEN first ELSE Idx!PlanStep(g[i - 1], s[i], i)
      BY <3>1, <3>2, <3>3
    <3> QED BY <3>4
  <2> HIDE DEF g, Is
  <2> QED BY <2>2
<1>3. Solved(Len(s))
  <2> HIDE DEF Solved
  <2>1. 0 \in S /\ \A k \in 0..(Len(s) - 1) : k \in S => k + 1 \in S
    BY <1>1, <1>2
  <2>2. Len(s) \in Nat /\ Len(s) \in 0..Len(s)
    OBVIOUS
  <2> HIDE DEF S
  <2>3. Len(s) \in S
    BY <2>1, <2>2, UpTo
  <2> QED BY <2>3 DEF S
<1>4. Idx!PlanOf(s) = CHOOSE f : Is(f, Len(s))
  BY DEF Idx!PlanOf, first
<1>5. Is(Idx!PlanOf(s), Len(s))
  <2> HIDE DEF Is
  <2> QED BY <1>3, <1>4
<1> DEFINE p == Idx!PlanOf(s)
<1>6. p = [i \in 0..Len(s) |-> IF i = 0 THEN first ELSE Idx!PlanStep(p[i - 1], s[i], i)]
  BY <1>5
<1> HIDE DEF p
<1>7. p[0] = first
  BY <1>6
<1>8. \A n \in 0..(Len(s) - 1) : p[n + 1] = Idx!PlanStep(p[n], s[n + 1], n + 1)
  BY <1>6
<1> QED BY <1>7, <1>8 DEF p, first

\* One more batch, after those that cut the documents before it.
LEMMA CutMore ==
    ASSUME NEW s, NEW b, NEW m \in Nat, NEW n \in Nat, m < n, Cut(s, b, m), Fits(s, <<m + 1, n>>)
    PROVE  Cut(s, Append(b, <<m + 1, n>>), n)
<1> DEFINE r == <<m + 1, n>>
           c == Append(b, r)
<1>1. b \in Seq(Ranges) /\ r \in Ranges /\ r[1] = m + 1 /\ r[2] = n
  BY DEF Cut, Ranges
<1> HIDE DEF r
<1>2. /\ c \in Seq(Ranges) /\ Len(c) = Len(b) + 1 /\ Len(b) \in Nat
      /\ \A i \in 1..Len(b) : c[i] = b[i]
      /\ c[Len(b) + 1] = r
  BY <1>1, AppendProperties
<1>3. \A i \in 1..Len(b) : b[i][1] \in Int /\ b[i][2] \in Int
  BY <1>1 DEF Ranges
<1>4. Fits(s, r)
  BY DEF r
<1> HIDE DEF c
<1>5. ASSUME NEW i \in 1..Len(c) PROVE 1 <= c[i][1] /\ c[i][1] <= c[i][2] /\ c[i][2] <= n /\ Fits(s, c[i])
  <2>1. CASE i \in 1..Len(b)
    BY <1>2, <1>3, <2>1 DEF Cut
  <2>2. CASE i = Len(b) + 1
    BY <1>1, <1>2, <1>4, <2>2
  <2> QED BY <1>2, <2>1, <2>2
<1>6. ASSUME NEW i \in 1..Len(c), NEW j \in 1..Len(c), i < j PROVE c[i][2] < c[j][1]
  <2>1. i \in 1..Len(b)
    BY <1>2, <1>6
  <2>2. CASE j \in 1..Len(b)
    BY <1>2, <1>6, <2>1, <2>2 DEF Cut
  <2>3. CASE j = Len(b) + 1
    <3>1. c[i][2] <= m /\ c[i][2] \in Int /\ c[j][1] = m + 1
      BY <1>1, <1>2, <1>3, <2>1, <2>3 DEF Cut
    <3> QED BY <3>1
  <2> QED BY <1>2, <2>2, <2>3
<1>7. ASSUME NEW p \in 1..n PROVE \E i \in 1..Len(c) : In(p, c[i])
  <2>1. CASE p \in 1..m
    <3>1. PICK i \in 1..Len(b) : In(p, b[i])
      BY <2>1 DEF Cut
    <3> QED BY <1>2, <3>1
  <2>2. CASE p > m
    <3>1. In(p, c[Len(b) + 1])
      BY <1>1, <1>2, <2>2 DEF In
    <3> QED BY <1>2, <3>1
  <2> QED BY <2>1, <2>2
<1>8. Cut(s, c, n)
  BY <1>2, <1>5, <1>6, <1>7 DEF Cut
<1> QED BY <1>8 DEF c, r

\* The first document of a batch fits by itself, and one more when the batch takes it.
LEMMA OneFits ==
    ASSUME NEW s \in Seq(Nat), NEW n \in 0..(Len(s) - 1), Idx!BRACKETS + s[n + 1] <= max_batch_bytes
    PROVE  /\ Idx!BytesOf(s, <<n + 1, n + 1>>) = Idx!BRACKETS + s[n + 1] /\ Idx!BRACKETS + s[n + 1] \in Nat
           /\ Fits(s, <<n + 1, n + 1>>)
<1>1. /\ Idx!BytesUpTo(s)[n] \in Nat /\ s[n + 1] \in Nat
      /\ Idx!BytesUpTo(s)[n + 1] = Idx!BytesUpTo(s)[n] + s[n + 1]
  BY BytesGrow
<1>2. Idx!BytesOf(s, <<n + 1, n + 1>>) = Idx!BRACKETS + ((n + 1) - (n + 1)) + Idx!BytesUpTo(s)[n + 1] - Idx!BytesUpTo(s)[(n + 1) - 1]
  BY DEF Idx!BytesOf
<1>3. (n + 1) - 1 = n
  OBVIOUS
<1>4. Idx!BytesOf(s, <<n + 1, n + 1>>) = Idx!BRACKETS + s[n + 1] /\ Idx!BRACKETS + s[n + 1] \in Nat
  BY <1>1, <1>2, <1>3 DEF Idx!BRACKETS
<1>5. (n + 1) - (n + 1) < batch_size
  BY IndexerAssumption
<1> QED BY <1>4, <1>5 DEF Fits

LEMMA OneMore ==
    ASSUME NEW s \in Seq(Nat), NEW n \in 1..(Len(s) - 1), NEW start \in 1..n
    PROVE  Idx!BytesOf(s, <<start, n + 1>>) = Idx!BytesOf(s, <<start, n>>) + 1 + s[n + 1]
<1>1. /\ Idx!BytesUpTo(s)[n] \in Nat /\ s[n + 1] \in Nat /\ Idx!BytesUpTo(s)[start - 1] \in Nat
      /\ Idx!BytesUpTo(s)[n + 1] = Idx!BytesUpTo(s)[n] + s[n + 1]
  BY BytesGrow
<1>2. /\ Idx!BytesOf(s, <<start, n + 1>>) = Idx!BRACKETS + ((n + 1) - start) + Idx!BytesUpTo(s)[n + 1] - Idx!BytesUpTo(s)[start - 1]
      /\ Idx!BytesOf(s, <<start, n>>) = Idx!BRACKETS + (n - start) + Idx!BytesUpTo(s)[n] - Idx!BytesUpTo(s)[start - 1]
  BY DEF Idx!BytesOf
<1> DEFINE x == Idx!BytesUpTo(s)[n]
           y == Idx!BytesUpTo(s)[start - 1]
           z == Idx!BytesUpTo(s)[n + 1]
           d == s[n + 1]
<1>3. /\ x \in Nat /\ y \in Nat /\ d \in Nat /\ z = x + d /\ n \in Int /\ start \in Int
      /\ Idx!BytesOf(s, <<start, n + 1>>) = 2 + ((n + 1) - start) + z - y
      /\ Idx!BytesOf(s, <<start, n>>) = 2 + (n - start) + x - y
  BY <1>1, <1>2 DEF Idx!BRACKETS
<1> HIDE DEF x, y, z, d
<1>4. Idx!BytesOf(s, <<start, n + 1>>) = Idx!BytesOf(s, <<start, n>>) + 1 + d
  BY <1>3
<1> QED BY <1>4 DEF d

LEMMA PlanStepOk ==
    ASSUME NEW s \in Seq(Nat), NEW n \in 0..(Len(s) - 1), NEW p, PlanOk(s, n, p)
    PROVE  PlanOk(s, n + 1, Idx!PlanStep(p, s[n + 1], n + 1))
<1> DEFINE size == s[n + 1]
           q == Idx!PlanStep(p, size, n + 1)
<1> SUFFICES PlanOk(s, n + 1, q)
  OBVIOUS
<1>1. size \in Nat /\ max_batch_bytes \in Nat /\ batch_size \in Nat
  BY IndexerAssumption
<1>2. CASE p.oversized \/ Idx!BRACKETS + size > max_batch_bytes
  <2>1. q = Idx!Plan(p.batches, p.start, p.bytes, TRUE)
    BY <1>2 DEF Idx!PlanStep
  <2>2. TooBig(s)
    <3>1. CASE p.oversized
      BY <3>1 DEF PlanOk
    <3>2. CASE Idx!BRACKETS + size > max_batch_bytes
      <4>1. n + 1 \in 1..Len(s) /\ s[n + 1] + Idx!BRACKETS > max_batch_bytes
        BY <1>1, <3>2 DEF Idx!BRACKETS
      <4> QED BY <4>1 DEF TooBig
    <3> QED BY <1>2, <3>1, <3>2
  <2>3. q = Idx!Plan(q.batches, q.start, q.bytes, q.oversized) /\ q.oversized = TRUE
    BY <2>1 DEF Idx!Plan
  <2> QED BY <2>2, <2>3 DEF PlanOk
<1>3. CASE ~(p.oversized \/ Idx!BRACKETS + size > max_batch_bytes)
  <2>0. ~p.oversized /\ Idx!BRACKETS + size <= max_batch_bytes
    BY <1>1, <1>3 DEF Idx!BRACKETS
  <2>1. /\ p.start \in 1..(n + 1) /\ p.bytes \in Nat
        /\ n = 0 => p.bytes = Idx!BRACKETS
        /\ n > 0 => p.start <= n /\ Fits(s, <<p.start, n>>) /\ p.bytes = Idx!BytesOf(s, <<p.start, n>>)
        /\ Cut(s, p.batches, p.start - 1)
    BY <2>0 DEF PlanOk
  <2> DEFINE held == (n + 1) - p.start
             comma == IF held > 0 THEN 1 ELSE 0
             cut == held > 0 /\ (held >= batch_size \/ p.bytes + comma + size > max_batch_bytes)
  <2>2. q = IF cut THEN Idx!Plan(Append(p.batches, <<p.start, (n + 1) - 1>>), n + 1, Idx!BRACKETS + size, FALSE)
            ELSE Idx!Plan(p.batches, p.start, p.bytes + comma + size, FALSE)
    BY <1>3 DEF Idx!PlanStep
  <2> HIDE DEF q
  <2>3. CASE cut
    <3>1. n > 0 /\ p.start <= n
      BY <2>1, <2>3
    <3>2. q = Idx!Plan(Append(p.batches, <<p.start, n>>), n + 1, Idx!BRACKETS + size, FALSE)
      <4>1. (n + 1) - 1 = n
        OBVIOUS
      <4> QED BY <2>2, <2>3, <4>1
    <3>3. q = Idx!Plan(q.batches, q.start, q.bytes, q.oversized) /\ q.oversized = FALSE /\ q.start = n + 1
          /\ q.bytes = Idx!BRACKETS + size /\ q.batches = Append(p.batches, <<p.start, n>>)
      BY <3>2 DEF Idx!Plan
    <3>4. Cut(s, Append(p.batches, <<p.start, n>>), n)
      <4>1. (p.start - 1) \in Nat /\ (p.start - 1) + 1 = p.start /\ (p.start - 1) < n
        BY <2>1, <3>1
      <4>2. Cut(s, p.batches, p.start - 1) /\ Fits(s, <<(p.start - 1) + 1, n>>)
        BY <2>1, <3>1, <4>1
      <4>3. Cut(s, Append(p.batches, <<(p.start - 1) + 1, n>>), n)
        BY <4>1, <4>2, CutMore
      <4> QED BY <4>1, <4>3
    <3>5. /\ Idx!BytesOf(s, <<n + 1, n + 1>>) = Idx!BRACKETS + size /\ Idx!BRACKETS + size \in Nat
          /\ Fits(s, <<n + 1, n + 1>>)
      BY <2>0, OneFits
    <3>6. (n + 1) - 1 = n /\ n + 1 \in 1..((n + 1) + 1) /\ n + 1 # 0
      OBVIOUS
    <3>7. q.start - 1 = n /\ q.bytes \in Nat /\ q.oversized \in BOOLEAN
      BY <3>3, <3>5, <3>6
    <3> HIDE DEF size
    <3> QED BY <3>3, <3>4, <3>5, <3>6, <3>7 DEF PlanOk
  <2>4. CASE ~cut
    <3>0. comma \in {0, 1} /\ held \in Int
      BY <2>1
    <3>1. q = Idx!Plan(q.batches, q.start, q.bytes, q.oversized) /\ q.oversized = FALSE /\ q.start = p.start
          /\ q.bytes = p.bytes + comma + size /\ q.batches = p.batches
      BY <2>2, <2>4 DEF Idx!Plan
    <3>2. CASE n = 0
      <4>1. p.start = 1 /\ comma = 0 /\ q.bytes = Idx!BRACKETS + size
        BY <1>1, <2>1, <3>1, <3>2 DEF Idx!BRACKETS
      <4>2. /\ Idx!BytesOf(s, <<n + 1, n + 1>>) = Idx!BRACKETS + size /\ Idx!BRACKETS + size \in Nat
            /\ Fits(s, <<n + 1, n + 1>>)
        BY <2>0, OneFits
      <4>3. n + 1 = 1 /\ q.start = 1 /\ q.start \in 1..((n + 1) + 1)
        BY <3>1, <3>2, <4>1
      <4>4. q.bytes = Idx!BytesOf(s, <<q.start, n + 1>>) /\ Fits(s, <<q.start, n + 1>>) /\ q.bytes \in Nat
        BY <4>1, <4>2, <4>3
      <4>5. Cut(s, q.batches, q.start - 1) /\ q.start <= n + 1 /\ n + 1 # 0 /\ q.oversized \in BOOLEAN
        <5>1. Cut(s, q.batches, q.start - 1)
          BY <2>1, <3>1
        <5>2. q.start <= n + 1 /\ n + 1 # 0
          BY <4>3
        <5>3. q.oversized \in BOOLEAN
          BY <3>1
        <5> QED BY <5>1, <5>2, <5>3
      <4> HIDE DEF size, comma
      <4> QED BY <3>1, <4>3, <4>4, <4>5 DEF PlanOk
    <3>3. CASE n > 0
      <4>1. p.start \in 1..n /\ n \in 1..(Len(s) - 1) /\ comma = 1
        BY <2>1, <3>3
      <4>2. held < batch_size /\ p.bytes + 1 + size <= max_batch_bytes
        <5>1. held > 0
          BY <4>1
        <5>2. ~(held >= batch_size) /\ ~(p.bytes + comma + size > max_batch_bytes)
          BY <2>4, <5>1
        <5> HIDE DEF held, comma, size
        <5> QED BY <1>1, <2>1, <3>0, <4>1, <5>2
      <4>3. Idx!BytesOf(s, <<p.start, n + 1>>) = p.bytes + 1 + size
        BY <2>1, <3>3, <4>1, OneMore
      <4>4. Fits(s, <<p.start, n + 1>>)
        BY <4>2, <4>3 DEF Fits
      <4>5. q.start \in 1..((n + 1) + 1) /\ q.start <= n + 1 /\ q.bytes \in Nat /\ n + 1 # 0
        <5>1. q.bytes \in Nat
          <6>1. p.bytes \in Nat /\ size \in Nat /\ q.bytes = p.bytes + comma + size
            BY <1>1, <2>1, <3>1
          <6>2. comma \in Nat
            BY <4>1
          <6> HIDE DEF size, comma, held, cut
          <6> QED BY <6>1, <6>2
        <5>2. q.start \in 1..n
          BY <3>1, <4>1
        <5> QED BY <5>1, <5>2
      <4>6. q.bytes = Idx!BytesOf(s, <<q.start, n + 1>>) /\ Fits(s, <<q.start, n + 1>>)
        BY <3>1, <4>1, <4>3, <4>4
      <4> QED BY <2>1, <3>1, <4>5, <4>6 DEF PlanOk
    <3> QED BY <3>2, <3>3
  <2> QED BY <2>3, <2>4
<1> QED BY <1>2, <1>3

LEMMA PlansOk ==
    ASSUME NEW s \in Seq(Nat)
    PROVE  \A n \in 0..Len(s) : PlanOk(s, n, Idx!PlanOf(s)[n])
<1> DEFINE S == {n \in 0..Len(s) : PlanOk(s, n, Idx!PlanOf(s)[n])}
<1>1. 0 \in S
  <2> DEFINE p == Idx!PlanOf(s)[0]
  <2>1. p = Idx!Plan(<<>>, 1, Idx!BRACKETS, FALSE)
    BY PlanDefined
  <2>2. p = Idx!Plan(p.batches, p.start, p.bytes, p.oversized) /\ p.oversized = FALSE /\ p.start = 1
        /\ p.bytes = Idx!BRACKETS /\ p.batches = <<>>
    BY <2>1 DEF Idx!Plan
  <2>3. Cut(s, <<>>, 1 - 1)
    BY DEF Cut
  <2>4. 1 \in 1..(0 + 1) /\ ~(0 > 0) /\ Idx!BRACKETS \in Nat
    BY DEF Idx!BRACKETS
  <2> HIDE DEF p
  <2>5. PlanOk(s, 0, p)
    BY <2>2, <2>3, <2>4 DEF PlanOk
  <2> QED BY <2>5 DEF p
<1>2. ASSUME NEW k \in 0..(Len(s) - 1), k \in S PROVE k + 1 \in S
  <2>1. PlanOk(s, k, Idx!PlanOf(s)[k])
    BY <1>2
  <2>2. PlanOk(s, k + 1, Idx!PlanStep(Idx!PlanOf(s)[k], s[k + 1], k + 1))
    BY <2>1, PlanStepOk
  <2>3. PlanOk(s, k + 1, Idx!PlanOf(s)[k + 1])
    BY <2>2, PlanDefined
  <2> QED BY <2>3
<1>3. \A n \in 0..Len(s) : n \in S
  <2>1. Len(s) \in Nat
    OBVIOUS
  <2> HIDE DEF S
  <2> QED BY <1>1, <1>2, <2>1, UpTo
<1> QED BY <1>3

\* The batches of a step are all of its documents, each once and within the limits,
\* unless one document is over the limit by itself (plan_batches).
LEMMA BatchesCut ==
    ASSUME NEW s \in Seq(Nat), s # <<>>
    PROVE  LET plan == Idx!plan_batches(s)
           IN /\ plan.oversized \in BOOLEAN
              /\ plan.oversized => TooBig(s)
              /\ ~plan.oversized => Cut(s, plan.batches, Len(s))
<1> DEFINE n == Len(s)
           end == Idx!PlanOf(s)[n]
           plan == Idx!plan_batches(s)
<1>1. n \in Nat /\ n > 0
  BY EmptySeq
<1>2. PlanOk(s, n, end)
  BY <1>1, PlansOk
<1>3. plan = IF end.start <= n THEN Idx!Plan(Append(end.batches, <<end.start, n>>), end.start, end.bytes, end.oversized) ELSE end
  BY DEF Idx!plan_batches
<1> HIDE DEF end, plan
<1>4. plan.oversized = end.oversized
  BY <1>3 DEF Idx!Plan
<1>5. ASSUME ~end.oversized PROVE Cut(s, plan.batches, n)
  <2>1. end.start \in 1..n /\ Fits(s, <<end.start, n>>) /\ Cut(s, end.batches, end.start - 1)
    BY <1>1, <1>2, <1>5 DEF PlanOk
  <2>2. plan.batches = Append(end.batches, <<end.start, n>>)
    BY <1>3, <2>1 DEF Idx!Plan
  <2>3. (end.start - 1) \in Nat /\ (end.start - 1) + 1 = end.start /\ (end.start - 1) < n
    BY <2>1
  <2> QED BY <1>1, <2>1, <2>2, <2>3, CutMore
<1>6. end.oversized \in BOOLEAN /\ (end.oversized => TooBig(s))
  BY <1>2 DEF PlanOk
<1> QED BY <1>4, <1>5, <1>6 DEF plan

----------------------------------------------------------------------------
(* The inductive invariant of the attempts, the tasks and the index.       *)

Steps == {a[1] : a \in IndexAttempts}
Keys == {{}} \cup {{k} : k \in UNION {{c[j].primary_key : j \in DOMAIN c} : c \in IndexConfigs}}
TaskSet == [kind : {"create", "add"}, key : Keys, docs : SUBSET (Steps \X Nat), status : {"enqueued", "succeeded", "exists", "failed"}]
DocsIn(a, r) == {<<a[1], p>> : p \in r[1]..r[2]}

\* No addition of a document with this primary key can succeed any more.
Refuses(pk) == \E k \in index : \/ k # {} /\ k # {pk}
                                \/ ~(k \subseteq DocKeys)
                                \/ ~({pk} \subseteq DocKeys)

TaskOk(t) ==
  /\ t.kind = "add" => t.status # "exists" /\ (t.status = "succeeded" => t.docs \subseteq stored)
  /\ t.kind = "create" => t.status # "failed"
  /\ t.status # "enqueued" => index # {}

SentOk(a, batches, sent) ==
  /\ sent \in Seq(Nat) /\ Len(sent) <= Len(batches)
  /\ \A i \in 1..Len(sent) :
       /\ sent[i] \in 1..Len(tasks) /\ tasks[sent[i]].kind = "add"
       /\ tasks[sent[i]].key \in {{}, {Idx!C(a).primary_key}}
       /\ tasks[sent[i]].docs = DocsIn(a, batches[i])
       /\ tasks[sent[i]].status = "failed" => Refuses(Idx!C(a).primary_key)

AwaitedOk(sent, awaited, creation) ==
  /\ awaited \in 0..Len(sent)
  /\ \A i \in 1..awaited : tasks[sent[i]].status = "succeeded"
  /\ \A u \in creation : u \in 1..Len(tasks) /\ tasks[u].kind = "create"

Going == {"send", "wait", "check_creation", "ok"}
Waiting == {"idle", "ensure_index", "create_index"}
Stopped == {"Retryable", "NonRetryable", "InvalidConfig", "Cancelled"}

AttemptOk(a, at) ==
  /\ at = Idx!Attempt(at.pc, at.key, at.creation, at.batches, at.sent, at.awaited, at.waited, at.why)
  /\ at.pc \in Going \cup Waiting \cup Stopped
  /\ at.pc # "idle" => a[1] \in DOMAIN cfg
  /\ at.pc \notin Going => at = Idx!Blank(at.pc, at.why)
  /\ at.pc \in Going =>
       /\ at.key \in {{}, {Idx!C(a).primary_key}}
       /\ Cut(Idx!C(a).sizes, at.batches, Len(Idx!C(a).sizes))
       /\ SentOk(a, at.batches, at.sent) /\ AwaitedOk(at.sent, at.awaited, at.creation)
  /\ at.pc = "send" => Len(at.sent) < Len(at.batches) /\ at.awaited = 0
  /\ at.pc = "wait" => Len(at.sent) = Len(at.batches) /\ at.awaited < Len(at.sent)
  /\ at.pc = "check_creation" => Len(at.sent) = Len(at.batches) /\ at.awaited = Len(at.sent)
  /\ at.pc = "ok" => Len(at.sent) = Len(at.batches)
  /\ at.pc = "ok" /\ Idx!C(a).wait_for_completion => at.awaited = Len(at.sent) /\ (Idx!C(a).auto_create_index => index # {})
  /\ at.pc = "NonRetryable" /\ at.why = "task" => Refuses(Idx!C(a).primary_key)
  /\ at.pc = "NonRetryable" /\ at.why = "oversized" => TooBig(Idx!C(a).sizes)

IdxInv ==
  /\ cfg \in IndexConfigs
  /\ \A k \in index : index = {k}
  /\ tasks \in Seq(TaskSet) /\ \A u \in 1..Len(tasks) : TaskOk(tasks[u])
  /\ IsFunction(calls, IndexAttempts) /\ \A a \in IndexAttempts : AttemptOk(a, calls[a])

\* What a step may do to the tasks and the index without harm to any attempt.
Later ==
  /\ cfg' = cfg /\ stored \subseteq stored' /\ (index # {} => index' # {})
  /\ \A pk : Refuses(pk) => Refuses(pk)'
  /\ \A u \in 1..Len(tasks) :
       /\ u \in 1..Len(tasks')
       /\ tasks'[u].kind = tasks[u].kind /\ tasks'[u].key = tasks[u].key /\ tasks'[u].docs = tasks[u].docs
       /\ tasks[u].status = "succeeded" => tasks'[u].status = "succeeded"
       /\ tasks'[u].status = "failed" =>
            tasks[u].status = "failed" \/ \A pk : tasks[u].key \in {{}, {pk}} => Refuses(pk)'

LEMMA ConfigOk ==
    ASSUME IdxInv, NEW a, a[1] \in DOMAIN cfg
    PROVE  /\ Idx!C(a).sizes \in Seq(Nat)
           /\ Idx!C(a).wait_for_completion \in BOOLEAN /\ Idx!C(a).auto_create_index \in BOOLEAN
           /\ {Idx!C(a).primary_key} \in Keys /\ {} \in Keys
<1>1. cfg \in IndexConfigs
  BY DEF IdxInv
<1>2. /\ cfg[a[1]].sizes \in Seq(Nat)
      /\ cfg[a[1]].wait_for_completion \in BOOLEAN /\ cfg[a[1]].auto_create_index \in BOOLEAN
  BY <1>1, IndexerAssumption
<1>3. cfg[a[1]].primary_key \in UNION {{c[j].primary_key : j \in DOMAIN c} : c \in IndexConfigs}
  BY <1>1
<1>4. {cfg[a[1]].primary_key} \in Keys /\ {} \in Keys
  BY <1>3 DEF Keys
<1> QED BY <1>2, <1>4 DEF Idx!C

\* An attempt keeps its invariant in whatever the others and Meilisearch do.
LEMMA AttemptKeeps ==
    ASSUME NEW q, NEW at, AttemptOk(q, at), Later
    PROVE  AttemptOk(q, at)'
<1>0. PICK pk : pk = Idx!C(q).primary_key
  OBVIOUS
<1>1. /\ cfg' = cfg /\ stored \subseteq stored' /\ (index # {} => index' # {})
      /\ Refuses(pk) => Refuses(pk)'
  BY DEF Later
<1>2. Idx!C(q)' = Idx!C(q)
  BY <1>1 DEF Idx!C
<1>3. ASSUME SentOk(q, at.batches, at.sent) PROVE SentOk(q, at.batches, at.sent)'
  <2>1. ASSUME NEW i \in 1..Len(at.sent)
        PROVE  /\ at.sent[i] \in 1..Len(tasks') /\ tasks'[at.sent[i]].kind = "add"
               /\ tasks'[at.sent[i]].key \in {{}, {pk}}
               /\ tasks'[at.sent[i]].docs = DocsIn(q, at.batches[i])
               /\ tasks'[at.sent[i]].status = "failed" => Refuses(pk)'
    <3> DEFINE u == at.sent[i]
    <3>1. /\ u \in 1..Len(tasks) /\ tasks[u].kind = "add" /\ tasks[u].key \in {{}, {pk}}
          /\ tasks[u].docs = DocsIn(q, at.batches[i]) /\ (tasks[u].status = "failed" => Refuses(pk))
      BY <1>0, <1>3 DEF SentOk
    <3> HIDE DEF u
    <3>2. /\ u \in 1..Len(tasks')
          /\ tasks'[u].kind = tasks[u].kind /\ tasks'[u].key = tasks[u].key /\ tasks'[u].docs = tasks[u].docs
          /\ tasks'[u].status = "failed" => tasks[u].status = "failed" \/ (tasks[u].key \in {{}, {pk}} => Refuses(pk)')
      BY <3>1 DEF Later
    <3> QED BY <1>1, <3>1, <3>2 DEF u
  <2>2. (Idx!C(q).primary_key)' = pk
    BY <1>0, <1>2
  <2>3. at.sent \in Seq(Nat) /\ Len(at.sent) <= Len(at.batches)
    BY <1>3 DEF SentOk
  <2> QED BY <2>1, <2>2, <2>3 DEF SentOk, DocsIn, Refuses
<1>4. ASSUME SentOk(q, at.batches, at.sent), AwaitedOk(at.sent, at.awaited, at.creation)
      PROVE  AwaitedOk(at.sent, at.awaited, at.creation)'
  <2>1. \A i \in 1..at.awaited : at.sent[i] \in 1..Len(tasks) /\ tasks[at.sent[i]].status = "succeeded"
    BY <1>4 DEF SentOk, AwaitedOk
  <2>2. \A i \in 1..at.awaited : tasks'[at.sent[i]].status = "succeeded"
    BY <2>1 DEF Later
  <2>3. \A u \in at.creation : u \in 1..Len(tasks') /\ tasks'[u].kind = "create"
    BY <1>4 DEF AwaitedOk, Later
  <2> QED BY <1>4, <2>2, <2>3 DEF AwaitedOk
<1>5. AttemptOk(q, at)
  OBVIOUS
<1> QED BY <1>0, <1>1, <1>2, <1>3, <1>4, <1>5 DEF AttemptOk, Refuses, Cut, TooBig

\* One attempt moves on, with its own invariant; the others keep theirs.
LEMMA Moves ==
    ASSUME IdxInv, Later, NEW a \in IndexAttempts, NEW at, Idx!To(a, at), AttemptOk(a, at)',
           \A k \in index' : index' = {k},
           tasks' \in Seq(TaskSet), \A u \in 1..Len(tasks') : TaskOk(tasks[u])'
    PROVE  IdxInv'
<1>1. /\ cfg \in IndexConfigs /\ IsFunction(calls, IndexAttempts) /\ \A q \in IndexAttempts : AttemptOk(q, calls[q])
      /\ cfg' = cfg
  BY DEF IdxInv, Later
<1>2. calls' = [calls EXCEPT ![a] = at]
  BY DEF Idx!To
<1>3. IsFunction(calls', IndexAttempts) /\ calls'[a] = at /\ \A q \in IndexAttempts : q # a => calls'[q] = calls[q]
  BY <1>1, <1>2 DEF IsFunction
<1>4. ASSUME NEW q \in IndexAttempts PROVE AttemptOk(q, calls[q])' 
  <2>1. PICK w : w = calls'[q]
    OBVIOUS
  <2>2. CASE q = a
    <3>1. w = at
      BY <1>3, <2>1, <2>2
    <3>2. AttemptOk(q, w)'
      BY <2>2, <3>1
    <3> QED BY <2>1, <3>2
  <2>3. CASE q # a
    <3>1. w = calls[q]
      BY <1>3, <2>1, <2>3
    <3>2. AttemptOk(q, w)
      BY <1>1, <3>1
    <3>3. AttemptOk(q, w)'
      BY <3>2, AttemptKeeps
    <3> QED BY <2>1, <3>3
  <2> QED BY <2>2, <2>3
<1>5. (cfg \in IndexConfigs)' /\ (\A k \in index : index = {k})'
  BY <1>1
<1>6. (tasks \in Seq(TaskSet))' /\ (\A u \in 1..Len(tasks) : TaskOk(tasks[u]))'
  OBVIOUS
<1>7. (IsFunction(calls, IndexAttempts))'
  BY <1>3
<1> QED BY <1>4, <1>5, <1>6, <1>7 DEF IdxInv

\* Nothing but attempts changes ...
LEMMA Quietly ==
    ASSUME IdxInv, UNCHANGED <<cfg, index, tasks, stored>>
    PROVE  /\ Later
           /\ \A k \in index' : index' = {k}
           /\ tasks' \in Seq(TaskSet) /\ \A u \in 1..Len(tasks') : TaskOk(tasks[u])'
<1>1. cfg' = cfg /\ index' = index /\ tasks' = tasks /\ stored' = stored
  OBVIOUS
<1>2. \A pk : Refuses(pk)' = Refuses(pk)
  BY <1>1 DEF Refuses
<1>3. Later
  BY <1>1, <1>2 DEF Later
<1>4. \A u \in 1..Len(tasks') : TaskOk(tasks[u])'
  BY <1>1 DEF TaskOk, IdxInv
<1> QED BY <1>1, <1>3, <1>4 DEF IdxInv

\* ... or one more task waits in the queue.
LEMMA Queued ==
    ASSUME IdxInv, UNCHANGED <<cfg, index, stored>>, NEW t \in TaskSet, t.status = "enqueued", tasks' = Append(tasks, t)
    PROVE  /\ Later
           /\ \A k \in index' : index' = {k}
           /\ tasks' \in Seq(TaskSet) /\ \A u \in 1..Len(tasks') : TaskOk(tasks[u])'
           /\ Idx!Uid \in 1..Len(tasks') /\ Idx!Uid \in Nat /\ tasks'[Idx!Uid] = t
<1>1. cfg' = cfg /\ index' = index /\ stored' = stored /\ tasks \in Seq(TaskSet)
  BY DEF IdxInv
<1>2. /\ tasks' \in Seq(TaskSet) /\ Len(tasks') = Len(tasks) + 1 /\ Len(tasks) \in Nat
      /\ \A u \in 1..Len(tasks) : tasks'[u] = tasks[u]
      /\ tasks'[Len(tasks) + 1] = t
  BY <1>1, AppendProperties
<1>3. \A pk : Refuses(pk)' = Refuses(pk)
  BY <1>1 DEF Refuses
<1>4. Later
  <2>1. \A u \in 1..Len(tasks) : u \in 1..Len(tasks')
    BY <1>2
  <2> QED BY <1>1, <1>2, <1>3, <2>1 DEF Later
<1>5. ASSUME NEW u \in 1..Len(tasks') PROVE TaskOk(tasks[u])'
  <2>1. CASE u \in 1..Len(tasks)
    <3>1. tasks'[u] = tasks[u] /\ TaskOk(tasks[u])
      BY <1>2, <2>1 DEF IdxInv
    <3> QED BY <1>1, <3>1 DEF TaskOk
  <2>2. CASE u = Len(tasks) + 1
    <3>1. tasks'[u].status = "enqueued"
      BY <1>2, <2>2
    <3> QED BY <3>1 DEF TaskOk
  <2> QED BY <1>2, <2>1, <2>2
<1>6. Idx!Uid \in 1..Len(tasks') /\ Idx!Uid \in Nat /\ tasks'[Idx!Uid] = t
  BY <1>2 DEF Idx!Uid
<1> QED BY <1>1, <1>2, <1>4, <1>5, <1>6 DEF IdxInv

\* An attempt that has nothing under way: it waits for its next request, or it is over.
LEMMA BlankOk ==
    ASSUME NEW a, NEW pc_ \in Waiting \cup Stopped, NEW why,
           pc_ # "idle" => a[1] \in DOMAIN cfg',
           pc_ = "NonRetryable" /\ why = "task" => Refuses(Idx!C(a).primary_key)',
           pc_ = "NonRetryable" /\ why = "oversized" => TooBig(Idx!C(a).sizes)'
    PROVE  AttemptOk(a, Idx!Blank(pc_, why))'
<1> DEFINE at == Idx!Blank(pc_, why)
<1>1. at = Idx!Attempt(at.pc, at.key, at.creation, at.batches, at.sent, at.awaited, at.waited, at.why) /\ at.pc = pc_ /\ at.why = why
  BY DEF Idx!Blank, Idx!Attempt
<1>2. pc_ \notin Going
  BY DEF Going, Waiting, Stopped
<1> HIDE DEF at
<1>3. at = Idx!Blank(at.pc, at.why)
  BY <1>1 DEF at
<1>4. AttemptOk(a, at)'
  BY <1>1, <1>2, <1>3 DEF AttemptOk, Going
<1> QED BY <1>4 DEF at

\* An attempt that sends its batches, waits for them, or is done.
LEMMA GoingOk ==
    ASSUME NEW a, NEW pc_ \in Going, NEW key, NEW creation, NEW batches, NEW sent, NEW awaited, NEW waited,
           a[1] \in DOMAIN cfg', key \in {{}, {(Idx!C(a).primary_key)'}},
           Cut((Idx!C(a).sizes)', batches, Len((Idx!C(a).sizes)')),
           SentOk(a, batches, sent)', AwaitedOk(sent, awaited, creation)',
           pc_ = "send" => Len(sent) < Len(batches) /\ awaited = 0,
           pc_ = "wait" => Len(sent) = Len(batches) /\ awaited < Len(sent),
           pc_ = "check_creation" => Len(sent) = Len(batches) /\ awaited = Len(sent),
           pc_ = "ok" => Len(sent) = Len(batches),
           pc_ = "ok" /\ (Idx!C(a).wait_for_completion)' => awaited = Len(sent) /\ ((Idx!C(a).auto_create_index)' => index' # {})
    PROVE  AttemptOk(a, Idx!Attempt(pc_, key, creation, batches, sent, awaited, waited, "none"))'
<1> DEFINE at == Idx!Attempt(pc_, key, creation, batches, sent, awaited, waited, "none")
<1>1. /\ at = Idx!Attempt(at.pc, at.key, at.creation, at.batches, at.sent, at.awaited, at.waited, at.why)
      /\ at.pc = pc_ /\ at.key = key /\ at.creation = creation /\ at.batches = batches /\ at.sent = sent /\ at.awaited = awaited
  BY DEF Idx!Attempt
<1>2. pc_ # "NonRetryable" /\ pc_ # "idle" /\ pc_ \in Going \cup Waiting \cup Stopped
  BY DEF Going
<1> HIDE DEF at
<1>3. AttemptOk(a, at)'
  BY <1>1, <1>2 DEF AttemptOk
<1> QED BY <1>3 DEF at

\* Over, with an error that is no word on the documents.
LEMMA Ends ==
    ASSUME IdxInv, Later, NEW a \in IndexAttempts, a[1] \in DOMAIN cfg, NEW result, NEW why, Idx!End(a, result, why),
           result \in Stopped,
           result = "NonRetryable" /\ why = "task" => Refuses(Idx!C(a).primary_key),
           result = "NonRetryable" /\ why = "oversized" => TooBig(Idx!C(a).sizes),
           \A k \in index' : index' = {k},
           tasks' \in Seq(TaskSet), \A u \in 1..Len(tasks') : TaskOk(tasks[u])'
    PROVE  IdxInv'
<1>1. PICK y : y = IF result = "NonRetryable" THEN why ELSE "none"
  OBVIOUS
<1>2. Idx!To(a, Idx!Blank(result, y))
  BY <1>1 DEF Idx!End
<1>3. cfg' = cfg
  BY DEF Later
<1>4. result = "NonRetryable" /\ y = "task" => Refuses(Idx!C(a).primary_key)'
  <2>1. PICK pk : pk = Idx!C(a).primary_key
    OBVIOUS
  <2>2. Refuses(pk) => Refuses(pk)'
    BY DEF Later
  <2>3. (Idx!C(a).primary_key)' = pk
    BY <1>3, <2>1 DEF Idx!C
  <2> QED BY <1>1, <2>1, <2>2, <2>3 DEF Refuses
<1>5. result = "NonRetryable" /\ y = "oversized" => TooBig(Idx!C(a).sizes)'
  BY <1>1, <1>3 DEF Idx!C, TooBig
<1>6. AttemptOk(a, Idx!Blank(result, y))'
  BY <1>3, <1>4, <1>5, BlankOk
<1> QED BY <1>2, <1>6, Moves

LEMMA MapError == \A e : Idx!map_error(e) \in Stopped
BY DEF Idx!map_error, Stopped

\* What is the same in the next state of a step that changes no job's config.
LEMMA SameConfig ==
    ASSUME Later, NEW a
    PROVE  (Idx!C(a))' = Idx!C(a)
BY DEF Later, Idx!C

LEMMA BeginKeeps ==
    ASSUME IdxInv, NEW a \in IndexAttempts, Idx!Start(a)
    PROVE  IdxInv'
<1>1. a[1] \in DOMAIN cfg /\ Idx!To(a, Idx!Blank("ensure_index", "none")) /\ UNCHANGED <<cfg, index, tasks, stored>>
  BY DEF Idx!Start
<1>2. AttemptOk(a, Idx!Blank("ensure_index", "none"))'
  <2>1. "ensure_index" \in Waiting \cup Stopped /\ a[1] \in DOMAIN cfg'
    BY <1>1 DEF Waiting
  <2> QED BY <2>1, BlankOk
<1> QED BY <1>1, <1>2, Quietly, Moves

\* From the index to the batches: with no document, with one over the limit, or to send.
LEMMA PreparedKeeps ==
    ASSUME IdxInv, Later, NEW a \in IndexAttempts, a[1] \in DOMAIN cfg, NEW key, NEW creation, Idx!Prepared(a, key, creation),
           key \in {{}, {Idx!C(a).primary_key}},
           \A u \in creation : u \in 1..Len(tasks') /\ tasks'[u].kind = "create",
           creation = {} => index # {} \/ ~Idx!C(a).auto_create_index,
           \A k \in index' : index' = {k},
           tasks' \in Seq(TaskSet), \A u \in 1..Len(tasks') : TaskOk(tasks[u])'
    PROVE  IdxInv'
<1> DEFINE plan == Idx!plan_batches(Idx!C(a).sizes)
<1>1. /\ Idx!C(a).sizes \in Seq(Nat)
      /\ Idx!C(a).wait_for_completion \in BOOLEAN /\ Idx!C(a).auto_create_index \in BOOLEAN
  BY ConfigOk
<1>2. cfg' = cfg /\ (Idx!C(a))' = Idx!C(a) /\ (index # {} => index' # {})
  BY SameConfig DEF Later
<1>3. ASSUME NEW pc_ \in Going, NEW batches, pc_ # "wait",
             Cut(Idx!C(a).sizes, batches, Len(Idx!C(a).sizes)),
             pc_ = "send" => 0 < Len(batches), pc_ # "send" => 0 = Len(batches),
             pc_ = "ok" /\ Idx!C(a).wait_for_completion => creation = {}
      PROVE  AttemptOk(a, Idx!Attempt(pc_, key, creation, batches, <<>>, 0, 0, "none"))'
  <2>1. batches \in Seq(Ranges) /\ Len(batches) \in Nat /\ Len(<<>>) = 0 /\ <<>> \in Seq(Nat)
    BY <1>3 DEF Cut
  <2>2. SentOk(a, batches, <<>>)'
    BY <2>1 DEF SentOk
  <2>3. AwaitedOk(<<>>, 0, creation)'
    BY <2>1 DEF AwaitedOk
  <2>4. Cut((Idx!C(a).sizes)', batches, Len((Idx!C(a).sizes)')) /\ key \in {{}, {(Idx!C(a).primary_key)'}} /\ a[1] \in DOMAIN cfg'
    BY <1>2, <1>3
  <2>5. pc_ = "ok" /\ (Idx!C(a).wait_for_completion)' => ((Idx!C(a).auto_create_index)' => index' # {})
    BY <1>2, <1>3
  <2> QED BY <1>3, <2>1, <2>2, <2>3, <2>4, <2>5, GoingOk
<1>4. CASE Idx!C(a).sizes = <<>> /\ Idx!To(a, Idx!Attempt(IF creation # {} /\ Idx!C(a).wait_for_completion THEN "check_creation" ELSE "ok",
                                                          key, creation, <<>>, <<>>, 0, 0, "none"))
  <2>1. PICK pc_ \in Going : /\ pc_ = IF creation # {} /\ Idx!C(a).wait_for_completion THEN "check_creation" ELSE "ok"
                             /\ Idx!To(a, Idx!Attempt(pc_, key, creation, <<>>, <<>>, 0, 0, "none"))
    BY <1>4 DEF Going
  <2>2. Cut(Idx!C(a).sizes, <<>>, Len(Idx!C(a).sizes))
    BY <1>4 DEF Cut
  <2>3. AttemptOk(a, Idx!Attempt(pc_, key, creation, <<>>, <<>>, 0, 0, "none"))'
    BY <1>1, <1>3, <2>1, <2>2
  <2> QED BY <2>1, <2>3, Moves
<1>5. CASE Idx!C(a).sizes # <<>> /\ plan.oversized /\ Idx!End(a, "NonRetryable", "oversized")
  <2>1. TooBig(Idx!C(a).sizes)
    BY <1>1, <1>5, BatchesCut
  <2>2. "NonRetryable" \in Stopped
    BY DEF Stopped
  <2> QED BY <1>5, <2>1, <2>2, Ends
<1>6. CASE Idx!C(a).sizes # <<>> /\ ~plan.oversized /\ Idx!To(a, Idx!Attempt("send", key, creation, plan.batches, <<>>, 0, 0, "none"))
  <2> DEFINE n == Len(Idx!C(a).sizes)
  <2>1. Cut(Idx!C(a).sizes, plan.batches, n)
    BY <1>1, <1>6, BatchesCut
  <2>2. n \in Nat /\ n > 0
    BY <1>1, <1>6, EmptySeq
  <2> HIDE DEF plan
  <2>3. Len(plan.batches) > 0
    <3>1. 1 \in 1..n
      BY <2>2
    <3>2. PICK i \in 1..Len(plan.batches) : In(1, plan.batches[i])
      BY <2>1, <3>1 DEF Cut
    <3>3. Len(plan.batches) \in Nat
      BY <2>1 DEF Cut
    <3> QED BY <3>2, <3>3
  <2>4. PICK batches : batches = plan.batches
    OBVIOUS
  <2>5. AttemptOk(a, Idx!Attempt("send", key, creation, batches, <<>>, 0, 0, "none"))'
    <3>1. "send" \in Going
      BY DEF Going
    <3> QED BY <1>3, <2>1, <2>3, <2>4, <3>1
  <2>6. Idx!To(a, Idx!Attempt("send", key, creation, batches, <<>>, 0, 0, "none"))
    BY <1>6, <2>4 DEF plan
  <2> QED BY <2>5, <2>6, Moves
<1> QED BY <1>4, <1>5, <1>6 DEF Idx!Prepared

\* A request that Meilisearch refuses ends the attempt.
LEMMA RefusedKeeps ==
    ASSUME IdxInv, NEW a \in IndexAttempts, a[1] \in DOMAIN cfg, NEW e, Idx!Refused(a, e)
    PROVE  IdxInv'
<1>1. Idx!End(a, Idx!map_error(e), "answer") /\ UNCHANGED <<cfg, index, tasks, stored>>
  BY DEF Idx!Refused
<1>2. /\ Later /\ \A k \in index' : index' = {k}
      /\ tasks' \in Seq(TaskSet) /\ \A u \in 1..Len(tasks') : TaskOk(tasks[u])'
  BY <1>1, Quietly
<1> QED BY <1>1, <1>2, MapError, Ends

LEMMA CancelKeeps ==
    ASSUME IdxInv, NEW a \in IndexAttempts, a[1] \in DOMAIN cfg, Idx!CheckCancelled(a)
    PROVE  IdxInv'
<1>1. Idx!End(a, "Cancelled", "cancel") /\ UNCHANGED <<cfg, index, tasks, stored>>
  BY DEF Idx!CheckCancelled
<1>2. /\ Later /\ \A k \in index' : index' = {k}
      /\ tasks' \in Seq(TaskSet) /\ \A u \in 1..Len(tasks') : TaskOk(tasks[u])'
  BY <1>1, Quietly
<1>3. "Cancelled" \in Stopped
  BY DEF Stopped
<1> QED BY <1>1, <1>2, <1>3, Ends

LEMMA EnsureKeeps ==
    ASSUME IdxInv, NEW a \in IndexAttempts, Idx!ensure_index(a)
    PROVE  IdxInv'
<1>1. calls[a].pc = "ensure_index" /\ UNCHANGED <<cfg, index, tasks, stored>>
  BY DEF Idx!ensure_index
<1>2. /\ Later /\ \A k \in index' : index' = {k}
      /\ tasks' \in Seq(TaskSet) /\ \A u \in 1..Len(tasks') : TaskOk(tasks[u])'
  BY <1>1, Quietly
<1>3. a[1] \in DOMAIN cfg
  BY <1>1 DEF IdxInv, AttemptOk
<1>4. CASE Idx!To(a, Idx!Blank("create_index", "none"))
  <2>1. "create_index" \in Waiting \cup Stopped /\ a[1] \in DOMAIN cfg'
    BY <1>1, <1>3 DEF Waiting
  <2>2. AttemptOk(a, Idx!Blank("create_index", "none"))'
    BY <2>1, BlankOk
  <2> QED BY <1>2, <1>4, <2>2, Moves
<1>5. CASE (index # {} \/ ~Idx!C(a).auto_create_index) /\ Idx!Prepared(a, Idx!addition_primary_key(a, index), {})
  <2>1. Idx!addition_primary_key(a, index) \in {{}, {Idx!C(a).primary_key}}
    BY DEF Idx!addition_primary_key
  <2> QED BY <1>2, <1>3, <1>5, <2>1, PreparedKeeps
<1>6. CASE \E e \in Idx!Refusals : Idx!End(a, Idx!map_error(e), "answer")
  BY <1>1, <1>3, <1>6, RefusedKeeps DEF Idx!Refused
<1> QED BY <1>4, <1>5, <1>6 DEF Idx!ensure_index

\* A task that a request puts into the queue.
LEMMA TaskIn ==
    ASSUME NEW a \in IndexAttempts, NEW kind \in {"create", "add"}, NEW key \in Keys, NEW docs, docs \subseteq Nat
    PROVE  LET t == Idx!Task(kind, a, key, docs)
           IN /\ t \in TaskSet /\ t.status = "enqueued" /\ t.kind = kind /\ t.key = key
              /\ t.docs = {<<a[1], i>> : i \in docs}
BY DEF Idx!Task, TaskSet, Steps

LEMMA CreateIndexKeeps ==
    ASSUME IdxInv, NEW a \in IndexAttempts, Idx!create_index(a)
    PROVE  IdxInv'
<1> DEFINE t == Idx!Task("create", a, {Idx!C(a).primary_key}, {})
<1>1. calls[a].pc = "create_index"
  BY DEF Idx!create_index
<1>2. a[1] \in DOMAIN cfg
  BY <1>1 DEF IdxInv, AttemptOk
<1>3. t \in TaskSet /\ t.status = "enqueued" /\ t.kind = "create"
  <2>1. {Idx!C(a).primary_key} \in Keys
    BY <1>2, ConfigOk
  <2>2. PICK key \in Keys : key = {Idx!C(a).primary_key}
    BY <2>1
  <2>3. "create" \in {"create", "add"} /\ {} \subseteq Nat
    OBVIOUS
  <2> QED BY <2>2, <2>3, TaskIn
<1>4. ASSUME tasks' = Append(tasks, t), UNCHANGED <<cfg, index, stored>>
      PROVE  /\ Later /\ \A k \in index' : index' = {k}
             /\ tasks' \in Seq(TaskSet) /\ \A u \in 1..Len(tasks') : TaskOk(tasks[u])'
             /\ Idx!Uid \in 1..Len(tasks') /\ tasks'[Idx!Uid] = t
  <2> HIDE DEF t
  <2> QED BY <1>3, <1>4, Queued
<1>5. CASE Idx!Prepared(a, {Idx!C(a).primary_key}, {Idx!Uid}) /\ tasks' = Append(tasks, t) /\ UNCHANGED <<cfg, index, stored>>
  <2>1. \A u \in {Idx!Uid} : u \in 1..Len(tasks') /\ tasks'[u].kind = "create"
    BY <1>3, <1>4, <1>5
  <2>2. {Idx!Uid} # {}
    OBVIOUS
  <2> HIDE DEF t
  <2>3. PICK creation : creation = {Idx!Uid}
    OBVIOUS
  <2>4. PICK key : key = {Idx!C(a).primary_key}
    OBVIOUS
  <2> QED BY <1>2, <1>4, <1>5, <2>1, <2>2, <2>3, <2>4, PreparedKeeps
<1>6. CASE \E e \in Idx!Refusals : Idx!Refused(a, e)
  BY <1>2, <1>6, RefusedKeeps
<1>7. CASE \E e \in Idx!Lost : Idx!End(a, Idx!map_error(e), "answer") /\ tasks' = Append(tasks, t) /\ UNCHANGED <<cfg, index, stored>>
  <2>1. PICK e \in Idx!Lost : Idx!End(a, Idx!map_error(e), "answer") /\ tasks' = Append(tasks, t) /\ UNCHANGED <<cfg, index, stored>>
    BY <1>7
  <2> HIDE DEF t
  <2> QED BY <1>2, <1>4, <2>1, MapError, Ends
<1> QED BY <1>5, <1>6, <1>7 DEF Idx!create_index

\* One more task is this attempt's next batch.
LEMMA SentMore ==
    ASSUME NEW a, NEW batches, NEW sent, NEW u \in 1..Len(tasks'), SentOk(a, batches, sent)', Len(sent) < Len(batches),
           tasks'[u].kind = "add", tasks'[u].status = "enqueued", tasks'[u].key \in {{}, {(Idx!C(a).primary_key)'}},
           tasks'[u].docs = DocsIn(a, batches[Len(sent) + 1]),
           Len(batches) \in Nat, Len(tasks') \in Nat
    PROVE  SentOk(a, batches, Append(sent, u))'
<1>1. sent \in Seq(Nat) /\ u \in Nat /\ Len(sent) \in Nat
  BY DEF SentOk
<1>2. PICK s : s = Append(sent, u)
  OBVIOUS
<1>3. s \in Seq(Nat) /\ Len(s) = Len(sent) + 1 /\ s[Len(sent) + 1] = u /\ \A i \in 1..Len(sent) : s[i] = sent[i]
  BY <1>1, <1>2, AppendProperties
<1>4. Len(s) <= Len(batches)
  BY <1>1, <1>3
<1>5. ASSUME NEW i \in 1..Len(s)
      PROVE  /\ s[i] \in 1..Len(tasks') /\ tasks'[s[i]].kind = "add"
             /\ tasks'[s[i]].key \in {{}, {(Idx!C(a).primary_key)'}}
             /\ tasks'[s[i]].docs = DocsIn(a, batches[i])
             /\ tasks'[s[i]].status = "failed" => Refuses(Idx!C(a).primary_key)'
  <2>1. CASE i \in 1..Len(sent)
    BY <1>3, <2>1 DEF SentOk, DocsIn
  <2>2. CASE i = Len(sent) + 1
    BY <1>3, <2>2
  <2> QED BY <1>1, <1>3, <2>1, <2>2
<1>6. SentOk(a, batches, s)'
  BY <1>3, <1>4, <1>5 DEF SentOk, DocsIn
<1> QED BY <1>2, <1>6

\* What an attempt that sends or waits has done so far.
LEMMA UnderWay ==
    ASSUME IdxInv, NEW a \in IndexAttempts, calls[a].pc \in Going
    PROVE  /\ a[1] \in DOMAIN cfg
           /\ calls[a].key \in {{}, {Idx!C(a).primary_key}}
           /\ Cut(Idx!C(a).sizes, calls[a].batches, Len(Idx!C(a).sizes))
           /\ SentOk(a, calls[a].batches, calls[a].sent)
           /\ AwaitedOk(calls[a].sent, calls[a].awaited, calls[a].creation)
           /\ calls[a].pc = "send" => Len(calls[a].sent) < Len(calls[a].batches) /\ calls[a].awaited = 0
           /\ calls[a].pc = "wait" => Len(calls[a].sent) = Len(calls[a].batches) /\ calls[a].awaited < Len(calls[a].sent)
           /\ calls[a].pc = "check_creation" => Len(calls[a].sent) = Len(calls[a].batches) /\ calls[a].awaited = Len(calls[a].sent)
           /\ Len(calls[a].sent) \in Nat /\ Len(calls[a].batches) \in Nat /\ calls[a].awaited \in Nat
<1> DEFINE at == calls[a]
<1>1. AttemptOk(a, at)
  BY DEF IdxInv
<1>2. at.pc # "idle"
  BY DEF Going
<1> HIDE DEF at
<1>3. at.pc \in Going
  BY DEF at
<1>4. SentOk(a, at.batches, at.sent) /\ AwaitedOk(at.sent, at.awaited, at.creation)
      /\ Cut(Idx!C(a).sizes, at.batches, Len(Idx!C(a).sizes))
  BY <1>1, <1>3 DEF AttemptOk
<1>5. Len(at.sent) \in Nat /\ Len(at.batches) \in Nat /\ at.awaited \in Nat
  BY <1>4 DEF SentOk, AwaitedOk, Cut
<1>6. /\ a[1] \in DOMAIN cfg
      /\ at.key \in {{}, {Idx!C(a).primary_key}}
      /\ at.pc = "send" => Len(at.sent) < Len(at.batches) /\ at.awaited = 0
      /\ at.pc = "wait" => Len(at.sent) = Len(at.batches) /\ at.awaited < Len(at.sent)
      /\ at.pc = "check_creation" => Len(at.sent) = Len(at.batches) /\ at.awaited = Len(at.sent)
  BY <1>1, <1>2, <1>3 DEF AttemptOk, at
<1> QED BY <1>4, <1>5, <1>6 DEF at

LEMMA SendKeeps ==
    ASSUME IdxInv, NEW a \in IndexAttempts, Idx!send(a)
    PROVE  IdxInv'
<1>1. PICK at : at = calls[a]
  OBVIOUS
<1>2. at.pc = "send" /\ (Idx!CheckCancelled(a) \/ Idx!SendNext(a))
  BY <1>1 DEF Idx!send
<1>3. calls[a].pc \in Going
  BY <1>1, <1>2 DEF Going
<1>4. /\ a[1] \in DOMAIN cfg /\ at.key \in {{}, {Idx!C(a).primary_key}}
      /\ Cut(Idx!C(a).sizes, at.batches, Len(Idx!C(a).sizes))
      /\ SentOk(a, at.batches, at.sent) /\ AwaitedOk(at.sent, at.awaited, at.creation)
      /\ Len(at.sent) < Len(at.batches) /\ at.awaited = 0
      /\ Len(at.sent) \in Nat /\ Len(at.batches) \in Nat
  BY <1>1, <1>2, <1>3, UnderWay
<1>5. PICK range : range = at.batches[Len(at.sent) + 1]
  OBVIOUS
<1>6. /\ range[1] \in Int /\ range[2] \in Int /\ 1 <= range[1] /\ range[1] <= range[2] /\ range[2] <= Len(Idx!C(a).sizes)
  <2>1. Len(at.sent) + 1 \in 1..Len(at.batches)
    BY <1>4
  <2>2. at.batches \in Seq(Ranges)
    BY <1>4 DEF Cut
  <2>3. range \in Ranges
    BY <1>5, <2>1, <2>2
  <2> QED BY <1>4, <1>5, <2>1, <2>3 DEF Cut, Ranges
<1>7. PICK t : t = Idx!Task("add", a, at.key, range[1]..range[2])
  OBVIOUS
<1>8. /\ t \in TaskSet /\ t.status = "enqueued" /\ t.kind = "add" /\ t.key = at.key
      /\ t.docs = DocsIn(a, range)
  <2>1. PICK key \in Keys : key = at.key
    BY <1>4, ConfigOk
  <2>2. PICK docs : docs = range[1]..range[2] /\ docs \subseteq Nat
    <3>1. range[1]..range[2] \subseteq Nat
      BY <1>6
    <3> QED BY <3>1
  <2>3. t = Idx!Task("add", a, key, docs)
    BY <1>7, <2>1, <2>2
  <2>4. /\ t \in TaskSet /\ t.status = "enqueued" /\ t.kind = "add" /\ t.key = key
        /\ t.docs = {<<a[1], i>> : i \in docs}
    <3>1. PICK kind : kind = "add" /\ kind \in {"create", "add"}
      OBVIOUS
    <3>2. t = Idx!Task(kind, a, key, docs)
      BY <2>3, <3>1
    <3> QED BY <2>2, <3>1, <3>2 DEF Idx!Task, TaskSet, Steps
  <2> QED BY <2>1, <2>2, <2>4 DEF DocsIn
<1>9. ASSUME tasks' = Append(tasks, t), UNCHANGED <<cfg, index, stored>>
      PROVE  /\ Later /\ \A k \in index' : index' = {k}
             /\ tasks' \in Seq(TaskSet) /\ \A u \in 1..Len(tasks') : TaskOk(tasks[u])'
             /\ Idx!Uid \in 1..Len(tasks') /\ tasks'[Idx!Uid] = t
  BY <1>8, <1>9, Queued
<1>10. ASSUME tasks' = Append(tasks, t), UNCHANGED <<cfg, index, stored>>,
              NEW pc_, pc_ = (IF ~(Len(at.sent) + 1 = Len(at.batches)) THEN "send" ELSE IF Idx!C(a).wait_for_completion THEN "wait" ELSE "ok"),
              Idx!To(a, Idx!Attempt(pc_, at.key, at.creation, at.batches, Append(at.sent, Idx!Uid), at.awaited, at.waited, "none"))
       PROVE  IdxInv'
  <2>1. /\ Later /\ \A k \in index' : index' = {k}
        /\ tasks' \in Seq(TaskSet) /\ \A u \in 1..Len(tasks') : TaskOk(tasks[u])'
        /\ Idx!Uid \in 1..Len(tasks') /\ tasks'[Idx!Uid] = t
    BY <1>9, <1>10
  <2>2. PICK uid : uid = Idx!Uid
    OBVIOUS
  <2>3. PICK sent : sent = Append(at.sent, uid)
    OBVIOUS
  <2>4. (Idx!C(a))' = Idx!C(a) /\ cfg' = cfg
    BY <2>1, SameConfig DEF Later
  <2>5. SentOk(a, at.batches, at.sent)' /\ AwaitedOk(at.sent, at.awaited, at.creation)'
    <3>1. AttemptOk(a, at)
      BY <1>1 DEF IdxInv
    <3>2. AttemptOk(a, at)'
      BY <2>1, <3>1, AttemptKeeps
    <3>3. at.pc \in Going
      BY <1>1, <1>3
    <3> QED BY <3>2, <3>3 DEF AttemptOk
  <2>6. SentOk(a, at.batches, sent)'
    <3>1. /\ tasks'[uid].kind = "add" /\ tasks'[uid].status = "enqueued"
          /\ tasks'[uid].key \in {{}, {(Idx!C(a).primary_key)'}}
          /\ tasks'[uid].docs = DocsIn(a, at.batches[Len(at.sent) + 1])
      BY <1>4, <1>5, <1>8, <2>1, <2>2, <2>4
    <3>2. uid \in 1..Len(tasks') /\ Len(tasks') \in Nat
      BY <2>1, <2>2
    <3> QED BY <1>4, <2>3, <2>5, <3>1, <3>2, SentMore
  <2>7. /\ Len(sent) = Len(at.sent) + 1 /\ Len(sent) \in Nat
    <3>1. at.sent \in Seq(Nat) /\ uid \in Nat
      BY <1>4, <2>1, <2>2 DEF SentOk
    <3> QED BY <2>3, <3>1, AppendProperties
  <2>8. AwaitedOk(sent, at.awaited, at.creation)'
    BY <1>4, <2>5, <2>7 DEF AwaitedOk
  <2>9. Cut((Idx!C(a).sizes)', at.batches, Len((Idx!C(a).sizes)')) /\ at.key \in {{}, {(Idx!C(a).primary_key)'}} /\ a[1] \in DOMAIN cfg'
    BY <1>4, <2>4
  <2>10. /\ pc_ \in Going
         /\ pc_ = "send" => Len(sent) < Len(at.batches) /\ at.awaited = 0
         /\ pc_ = "wait" => Len(sent) = Len(at.batches) /\ at.awaited < Len(sent)
         /\ pc_ # "check_creation"
         /\ pc_ = "ok" => Len(sent) = Len(at.batches) /\ ~Idx!C(a).wait_for_completion
    BY <1>4, <1>10, <2>7 DEF Going
  <2>11. AttemptOk(a, Idx!Attempt(pc_, at.key, at.creation, at.batches, sent, at.awaited, at.waited, "none"))'
    BY <2>4, <2>6, <2>8, <2>9, <2>10, GoingOk
  <2>12. Idx!To(a, Idx!Attempt(pc_, at.key, at.creation, at.batches, sent, at.awaited, at.waited, "none"))
    BY <1>10, <2>2, <2>3
  <2> QED BY <2>1, <2>11, <2>12, Moves
<1>11. CASE \E e \in Idx!Refusals : Idx!Refused(a, e)
  BY <1>4, <1>11, RefusedKeeps
<1>12. CASE \E e \in Idx!Lost : tasks' = Append(tasks, t) /\ Idx!End(a, Idx!map_error(e), "answer") /\ UNCHANGED <<cfg, index, stored>>
  <2>1. PICK e \in Idx!Lost : tasks' = Append(tasks, t) /\ Idx!End(a, Idx!map_error(e), "answer") /\ UNCHANGED <<cfg, index, stored>>
    BY <1>12
  <2> QED BY <1>4, <1>9, <2>1, MapError, Ends
<1>13. ASSUME Idx!SendNext(a) PROVE IdxInv'
  BY <1>1, <1>5, <1>7, <1>10, <1>11, <1>12, <1>13 DEF Idx!SendNext
<1> QED BY <1>2, <1>4, <1>13, CancelKeeps

\* Meilisearch carries out one task; what the index refuses it goes on refusing.
LEMMA DoneKeeps ==
    ASSUME IdxInv, NEW uid \in 1..Len(tasks), tasks[uid].status = "enqueued",
           NEW result \in {"succeeded", "exists", "failed"}, NEW key, UNCHANGED <<cfg, calls>>,
           index' = {key}, stored \subseteq stored', \A pk : Refuses(pk) => Refuses(pk)',
           tasks' = [tasks EXCEPT ![uid].status = result],
           tasks[uid].kind = "add" => result # "exists" /\ (result = "succeeded" => tasks[uid].docs \subseteq stored'),
           tasks[uid].kind = "create" => result # "failed",
           result = "failed" => \A pk : tasks[uid].key \in {{}, {pk}} => Refuses(pk)'
    PROVE  IdxInv'
<1>1. /\ cfg \in IndexConfigs /\ tasks \in Seq(TaskSet) /\ \A u \in 1..Len(tasks) : TaskOk(tasks[u])
      /\ IsFunction(calls, IndexAttempts) /\ \A q \in IndexAttempts : AttemptOk(q, calls[q])
  BY DEF IdxInv
<1>2. PICK t : t = tasks[uid]
  OBVIOUS
<1>3. PICK d : d = [kind |-> t.kind, key |-> t.key, docs |-> t.docs, status |-> result]
  OBVIOUS
<1>4. t \in TaskSet /\ d \in TaskSet
  <2>1. t \in TaskSet
    BY <1>1, <1>2
  <2> QED BY <1>3, <2>1 DEF TaskSet
<1>5. tasks' = [tasks EXCEPT ![uid] = d]
  <2>1. [t EXCEPT !.status = result] = d
    BY <1>3, <1>4 DEF TaskSet
  <2> QED BY <1>2, <2>1
<1>6. /\ tasks' \in Seq(TaskSet) /\ Len(tasks') = Len(tasks) /\ tasks'[uid] = d
      /\ \A u \in 1..Len(tasks) : u # uid => tasks'[u] = tasks[u]
  <2> HIDE DEF TaskSet
  <2> QED BY <1>1, <1>4, <1>5
<1>7. Later
  <2>1. ASSUME NEW u \in 1..Len(tasks)
        PROVE  /\ u \in 1..Len(tasks')
               /\ tasks'[u].kind = tasks[u].kind /\ tasks'[u].key = tasks[u].key /\ tasks'[u].docs = tasks[u].docs
               /\ tasks[u].status = "succeeded" => tasks'[u].status = "succeeded"
               /\ tasks'[u].status = "failed" => tasks[u].status = "failed" \/ \A pk : tasks[u].key \in {{}, {pk}} => Refuses(pk)'
    <3>1. CASE u = uid
      <4>1. d.kind = t.kind /\ d.key = t.key /\ d.docs = t.docs /\ d.status = result
        BY <1>3
      <4> QED BY <1>2, <1>6, <3>1, <4>1
    <3>2. CASE u # uid
      BY <1>6, <3>2
    <3> QED BY <3>1, <3>2
  <2> QED BY <2>1 DEF Later
<1>8. ASSUME NEW u \in 1..Len(tasks') PROVE TaskOk(tasks[u])'
  <2>1. CASE u = uid
    <3>1. d.kind = t.kind /\ d.docs = t.docs /\ d.status = result
      BY <1>3
    <3>2. tasks'[u].kind = t.kind /\ tasks'[u].docs = t.docs /\ tasks'[u].status = result
      BY <1>6, <2>1, <3>1
    <3> QED BY <1>2, <3>2 DEF TaskOk
  <2>2. CASE u # uid
    <3>1. tasks'[u] = tasks[u] /\ TaskOk(tasks[u])
      BY <1>1, <1>6, <2>2
    <3> QED BY <3>1 DEF TaskOk
  <2> QED BY <2>1, <2>2
<1>9. ASSUME NEW q \in IndexAttempts PROVE AttemptOk(q, calls[q])'
  <2>1. PICK w : w = calls[q]
    OBVIOUS
  <2>2. AttemptOk(q, w)'
    BY <1>1, <1>7, <2>1, AttemptKeeps
  <2> QED BY <2>1, <2>2
<1> QED BY <1>1, <1>6, <1>8, <1>9 DEF IdxInv

LEMMA MeilisearchKeeps ==
    ASSUME IdxInv, Idx!Meilisearch
    PROVE  IdxInv'
<1> DEFINE Has == IF index = {} THEN {} ELSE CHOOSE k \in index : TRUE
<1>1. PICK uid \in DOMAIN tasks :
        /\ tasks[uid].status = "enqueued"
        /\ \/ /\ tasks[uid].kind = "create" /\ index = {} /\ index' = {tasks[uid].key} /\ UNCHANGED stored
              /\ tasks' = [tasks EXCEPT ![uid].status = "succeeded"]
           \/ /\ tasks[uid].kind = "create" /\ index # {} /\ UNCHANGED <<index, stored>>
              /\ tasks' = [tasks EXCEPT ![uid].status = "exists"]
           \/ /\ tasks[uid].kind = "add" /\ index' = {IF Has = {} THEN tasks[uid].key ELSE Has}
              /\ stored' = stored \cup tasks[uid].docs
              /\ tasks' = [tasks EXCEPT ![uid].status = "succeeded"]
           \/ /\ tasks[uid].kind = "add"
              /\ ~((Has = {} \/ tasks[uid].key = {} \/ tasks[uid].key = Has) /\ (IF Has = {} THEN tasks[uid].key ELSE Has) \subseteq DocKeys)
              /\ index' = {Has} /\ UNCHANGED stored
              /\ tasks' = [tasks EXCEPT ![uid].status = "failed"]
        /\ UNCHANGED <<cfg, calls>>
  BY DEF Idx!Meilisearch
<1>2. PICK has : has = Has
  OBVIOUS
<1>3. index = {} \/ index = {has}
  <2>1. CASE index # {}
    <3>1. has \in index
      BY <1>2, <2>1
    <3> QED BY <3>1 DEF IdxInv
  <2> QED BY <2>1
<1>4. index = {} => has = {}
  BY <1>2
<1> HIDE DEF Has
<1>5. uid \in 1..Len(tasks)
  BY <1>1 DEF IdxInv
<1>6. PICK named : named = tasks[uid].key
  OBVIOUS
<1>7. CASE /\ tasks[uid].kind = "create" /\ index = {} /\ index' = {named} /\ UNCHANGED stored
           /\ tasks' = [tasks EXCEPT ![uid].status = "succeeded"]
  <2>1. \A pk : Refuses(pk) => Refuses(pk)'
    BY <1>7 DEF Refuses
  <2> QED BY <1>1, <1>5, <1>7, <2>1, DoneKeeps
<1>8. CASE /\ tasks[uid].kind = "create" /\ index # {} /\ UNCHANGED <<index, stored>>
           /\ tasks' = [tasks EXCEPT ![uid].status = "exists"]
  <2>1. \A pk : Refuses(pk) => Refuses(pk)'
    BY <1>8 DEF Refuses
  <2>2. index' = {has}
    BY <1>3, <1>8
  <2> QED BY <1>1, <1>5, <1>8, <2>1, <2>2, DoneKeeps
<1>9. CASE /\ tasks[uid].kind = "add" /\ index' = {IF has = {} THEN named ELSE has}
           /\ stored' = stored \cup tasks[uid].docs
           /\ tasks' = [tasks EXCEPT ![uid].status = "succeeded"]
  <2>1. PICK key : key = IF has = {} THEN named ELSE has
    OBVIOUS
  <2>2. ASSUME NEW pk, Refuses(pk) PROVE Refuses(pk)'
    <3>1. PICK k \in index : (k # {} /\ k # {pk}) \/ ~(k \subseteq DocKeys) \/ ~({pk} \subseteq DocKeys)
      BY <2>2 DEF Refuses
    <3>2. k = has /\ key \in index'
      BY <1>3, <1>9, <2>1, <3>1
    <3>3. (key # {} /\ key # {pk}) \/ ~(key \subseteq DocKeys) \/ ~({pk} \subseteq DocKeys)
      BY <2>1, <3>1, <3>2
    <3> QED BY <3>2, <3>3 DEF Refuses
  <2>3. stored \subseteq stored' /\ tasks[uid].docs \subseteq stored'
    BY <1>9
  <2>4. index' = {key}
    BY <1>9, <2>1
  <2> QED BY <1>1, <1>5, <1>9, <2>2, <2>3, <2>4, DoneKeeps
<1>10. CASE /\ tasks[uid].kind = "add"
            /\ ~((has = {} \/ named = {} \/ named = has) /\ (IF has = {} THEN named ELSE has) \subseteq DocKeys)
            /\ index' = {has} /\ UNCHANGED stored
            /\ tasks' = [tasks EXCEPT ![uid].status = "failed"]
  <2>1. ASSUME NEW pk, Refuses(pk) PROVE Refuses(pk)'
    <3>1. PICK k \in index : (k # {} /\ k # {pk}) \/ ~(k \subseteq DocKeys) \/ ~({pk} \subseteq DocKeys)
      BY <2>1 DEF Refuses
    <3>2. k = has /\ has \in index'
      BY <1>3, <1>10, <3>1
    <3> QED BY <3>1, <3>2 DEF Refuses
  <2>2. ASSUME NEW pk, named \in {{}, {pk}} PROVE Refuses(pk)'
    <3>1. has \in index'
      BY <1>10
    <3>2. (has # {} /\ has # {pk}) \/ ~(has \subseteq DocKeys) \/ ~({pk} \subseteq DocKeys)
      BY <1>10, <2>2
    <3> QED BY <3>1, <3>2 DEF Refuses
  <2>3. \A pk : tasks[uid].key \in {{}, {pk}} => Refuses(pk)'
    BY <1>6, <2>2
  <2>4. PICK result \in {"succeeded", "exists", "failed"} : result = "failed"
    OBVIOUS
  <2>5. tasks' = [tasks EXCEPT ![uid].status = result] /\ stored \subseteq stored' /\ tasks[uid].kind # "create"
    BY <1>10, <2>4
  <2>6. result # "exists" /\ result # "succeeded"
    BY <2>4
  <2> QED BY <1>1, <1>5, <1>10, <2>1, <2>3, <2>5, <2>6, DoneKeeps
<1> QED BY <1>1, <1>2, <1>6, <1>7, <1>8, <1>9, <1>10

\* What is under way stays so, whatever the others and Meilisearch do.
LEMMA StaysUnderWay ==
    ASSUME IdxInv, Later, NEW a \in IndexAttempts, calls[a].pc \in Going, NEW at, at = calls[a]
    PROVE  SentOk(a, at.batches, at.sent)' /\ AwaitedOk(at.sent, at.awaited, at.creation)'
<1>1. AttemptOk(a, at) /\ at.pc \in Going
  BY DEF IdxInv
<1>2. AttemptOk(a, at)'
  BY <1>1, AttemptKeeps
<1> QED BY <1>1, <1>2 DEF AttemptOk

LEMMA GoesOn ==
    ASSUME IdxInv, Later, NEW a \in IndexAttempts, calls[a].pc \in {"wait", "check_creation"}, NEW at, at = calls[a], NEW waited
    PROVE  AttemptOk(a, Idx!Attempt(at.pc, at.key, at.creation, at.batches, at.sent, at.awaited, waited, "none"))'
<1>1. calls[a].pc \in Going
  BY DEF Going
<1>2. /\ a[1] \in DOMAIN cfg /\ at.key \in {{}, {Idx!C(a).primary_key}}
      /\ Cut(Idx!C(a).sizes, at.batches, Len(Idx!C(a).sizes))
      /\ at.pc = "wait" => Len(at.sent) = Len(at.batches) /\ at.awaited < Len(at.sent)
      /\ at.pc = "check_creation" => Len(at.sent) = Len(at.batches) /\ at.awaited = Len(at.sent)
  BY <1>1, UnderWay
<1>3. SentOk(a, at.batches, at.sent)' /\ AwaitedOk(at.sent, at.awaited, at.creation)'
  BY <1>1, StaysUnderWay
<1>4. (Idx!C(a))' = Idx!C(a) /\ cfg' = cfg
  BY SameConfig DEF Later
<1>5. Cut((Idx!C(a).sizes)', at.batches, Len((Idx!C(a).sizes)')) /\ at.key \in {{}, {(Idx!C(a).primary_key)'}} /\ a[1] \in DOMAIN cfg'
  BY <1>2, <1>4
<1>6. PICK pc_ \in Going : pc_ = at.pc /\ pc_ \in {"wait", "check_creation"}
  BY <1>1
<1>7. AttemptOk(a, Idx!Attempt(pc_, at.key, at.creation, at.batches, at.sent, at.awaited, waited, "none"))'
  BY <1>2, <1>3, <1>5, <1>6, GoingOk
<1> QED BY <1>6, <1>7

\* A slice of the wait for one task: cancelled, refused, over, or one slice more.
LEMMA WaitForTaskKeeps ==
    ASSUME IdxInv, NEW a \in IndexAttempts, calls[a].pc \in {"wait", "check_creation"}, NEW uid, Idx!wait_for_task(a, uid)
    PROVE  IdxInv'
<1>1. PICK at : at = calls[a]
  OBVIOUS
<1>2. calls[a].pc \in Going
  BY DEF Going
<1>3. a[1] \in DOMAIN cfg
  BY <1>2, UnderWay
<1>4. CASE \E e \in Idx!Refusals \ {"timeout"} : Idx!Refused(a, e)
  BY <1>3, <1>4, RefusedKeeps
<1>5. ASSUME UNCHANGED <<cfg, index, tasks, stored>>
      PROVE  /\ Later /\ \A k \in index' : index' = {k}
             /\ tasks' \in Seq(TaskSet) /\ \A u \in 1..Len(tasks') : TaskOk(tasks[u])'
  BY <1>5, Quietly
<1>6. CASE Idx!End(a, "Retryable", "none") /\ UNCHANGED <<cfg, index, tasks, stored>>
  <2>1. "Retryable" \in Stopped
    BY DEF Stopped
  <2> QED BY <1>3, <1>5, <1>6, <2>1, Ends
<1>7. CASE /\ UNCHANGED <<cfg, index, tasks, stored>>
           /\ Idx!To(a, Idx!Attempt(at.pc, at.key, at.creation, at.batches, at.sent, at.awaited, at.waited + 1, "none"))
  <2>1. PICK waited : waited = at.waited + 1
    OBVIOUS
  <2>2. AttemptOk(a, Idx!Attempt(at.pc, at.key, at.creation, at.batches, at.sent, at.awaited, waited, "none"))'
    BY <1>1, <1>5, <1>7, GoesOn
  <2>3. Idx!To(a, Idx!Attempt(at.pc, at.key, at.creation, at.batches, at.sent, at.awaited, waited, "none"))
    BY <1>7, <2>1
  <2> QED BY <1>5, <1>7, <2>2, <2>3, Moves
<1>8. CASE Idx!CheckCancelled(a)
  BY <1>3, <1>8, CancelKeeps
<1> QED BY <1>1, <1>4, <1>6, <1>7, <1>8 DEF Idx!wait_for_task

\* The last of an attempt's additions succeeded, or it had none and its index was created.
LEMMA WaitKeeps ==
    ASSUME IdxInv, NEW a \in IndexAttempts, Idx!wait(a)
    PROVE  IdxInv'
<1>1. PICK at : at = calls[a]
  OBVIOUS
<1>2. at.pc = "wait" /\ calls[a].pc \in {"wait", "check_creation"} /\ calls[a].pc \in Going
  BY <1>1 DEF Idx!wait, Going
<1>3. /\ a[1] \in DOMAIN cfg /\ at.key \in {{}, {Idx!C(a).primary_key}}
      /\ Cut(Idx!C(a).sizes, at.batches, Len(Idx!C(a).sizes))
      /\ SentOk(a, at.batches, at.sent) /\ AwaitedOk(at.sent, at.awaited, at.creation)
      /\ Len(at.sent) = Len(at.batches) /\ at.awaited < Len(at.sent)
      /\ Len(at.sent) \in Nat /\ at.awaited \in Nat
  BY <1>1, <1>2, UnderWay
<1>4. PICK uid : uid = at.sent[at.awaited + 1]
  OBVIOUS
<1>5. CASE Idx!wait_for_task(a, uid)
  BY <1>2, <1>5, WaitForTaskKeeps
<1>6. CASE Idx!Finished(uid) /\ Idx!Awaited(a, tasks[uid].status) /\ UNCHANGED <<cfg, index, tasks, stored>>
  <2>1. /\ Later /\ \A k \in index' : index' = {k}
        /\ tasks' \in Seq(TaskSet) /\ \A u \in 1..Len(tasks') : TaskOk(tasks[u])'
    BY <1>6, Quietly
  <2>2. /\ uid \in 1..Len(tasks) /\ tasks[uid].kind = "add"
        /\ tasks[uid].status = "failed" => Refuses(Idx!C(a).primary_key)
    <3>1. at.awaited + 1 \in 1..Len(at.sent)
      BY <1>3
    <3> QED BY <1>3, <1>4, <3>1 DEF SentOk
  <2>3. /\ tasks[uid].status \in {"succeeded", "failed"}
        /\ index # {}
    <3>1. TaskOk(tasks[uid]) /\ tasks[uid] \in TaskSet
      BY <2>2 DEF IdxInv
    <3>2. tasks[uid].status \in {"enqueued", "succeeded", "exists", "failed"}
      BY <3>1 DEF TaskSet
    <3> QED BY <1>6, <2>2, <3>1, <3>2 DEF TaskOk, Idx!Finished
  <2>4. CASE tasks[uid].status = "succeeded"
    <3>1. PICK pc_ : pc_ = IF at.awaited + 1 < Len(at.sent) THEN "wait" ELSE IF at.creation # {} THEN "check_creation" ELSE "ok"
      OBVIOUS
    <3>2. PICK awaited : awaited = at.awaited + 1
      OBVIOUS
    <3>3. Idx!To(a, Idx!Attempt(pc_, at.key, at.creation, at.batches, at.sent, awaited, 0, "none"))
      BY <1>1, <1>6, <2>4, <3>1, <3>2 DEF Idx!Awaited, Idx!Reported
    <3>4. SentOk(a, at.batches, at.sent)' /\ AwaitedOk(at.sent, at.awaited, at.creation)'
      BY <1>1, <1>2, <2>1, StaysUnderWay
    <3>5. AwaitedOk(at.sent, awaited, at.creation)'
      <4>1. awaited \in 0..Len(at.sent)
        BY <1>3, <3>2
      <4>2. tasks' = tasks
        BY <1>6
      <4>3. \A i \in 1..awaited : tasks'[at.sent[i]].status = "succeeded"
        BY <1>3, <1>4, <2>4, <3>2, <4>2 DEF AwaitedOk
      <4> QED BY <3>4, <4>1, <4>3 DEF AwaitedOk
    <3>6. (Idx!C(a))' = Idx!C(a) /\ cfg' = cfg /\ index' # {}
      BY <2>1, <2>3, SameConfig DEF Later
    <3>7. Cut((Idx!C(a).sizes)', at.batches, Len((Idx!C(a).sizes)')) /\ at.key \in {{}, {(Idx!C(a).primary_key)'}} /\ a[1] \in DOMAIN cfg'
      BY <1>3, <3>6
    <3>8. /\ pc_ \in Going /\ pc_ # "send"
          /\ pc_ = "wait" => awaited < Len(at.sent)
          /\ pc_ \in {"check_creation", "ok"} => awaited = Len(at.sent)
      BY <1>3, <3>1, <3>2 DEF Going
    <3>9. AttemptOk(a, Idx!Attempt(pc_, at.key, at.creation, at.batches, at.sent, awaited, 0, "none"))'
      <4>1. PICK none : none = 0
        OBVIOUS
      <4>2. AttemptOk(a, Idx!Attempt(pc_, at.key, at.creation, at.batches, at.sent, awaited, none, "none"))'
        BY <1>3, <3>4, <3>5, <3>6, <3>7, <3>8, GoingOk
      <4> QED BY <4>1, <4>2
    <3> QED BY <2>1, <3>3, <3>9, Moves
  <2>5. CASE tasks[uid].status = "failed"
    <3>1. Idx!End(a, "NonRetryable", "task")
      BY <1>6, <2>5 DEF Idx!Awaited
    <3>2. "NonRetryable" \in Stopped
      BY DEF Stopped
    <3> QED BY <1>3, <2>1, <2>2, <2>5, <3>1, <3>2, Ends
  <2> QED BY <2>3, <2>4, <2>5
<1> QED BY <1>1, <1>4, <1>5, <1>6 DEF Idx!wait

LEMMA CheckCreationKeeps ==
    ASSUME IdxInv, NEW a \in IndexAttempts, Idx!check_creation(a)
    PROVE  IdxInv'
<1>1. PICK at : at = calls[a]
  OBVIOUS
<1>2. at.pc = "check_creation" /\ calls[a].pc \in {"wait", "check_creation"} /\ calls[a].pc \in Going
  BY <1>1 DEF Idx!check_creation, Going
<1>3. /\ a[1] \in DOMAIN cfg /\ at.key \in {{}, {Idx!C(a).primary_key}}
      /\ Cut(Idx!C(a).sizes, at.batches, Len(Idx!C(a).sizes))
      /\ SentOk(a, at.batches, at.sent) /\ AwaitedOk(at.sent, at.awaited, at.creation)
      /\ Len(at.sent) = Len(at.batches) /\ at.awaited = Len(at.sent)
  BY <1>1, <1>2, UnderWay
<1>4. PICK uid \in at.creation :
        \/ Idx!wait_for_task(a, uid)
        \/ /\ Idx!Finished(uid)
           /\ IF tasks[uid].status \in {"succeeded", "exists"} THEN Idx!Reported(a, "ok", at.awaited) ELSE Idx!End(a, "NonRetryable", "task")
           /\ UNCHANGED <<cfg, index, tasks, stored>>
  BY <1>1 DEF Idx!check_creation
<1>5. CASE Idx!wait_for_task(a, uid)
  BY <1>2, <1>5, WaitForTaskKeeps
<1>6. CASE /\ Idx!Finished(uid)
           /\ IF tasks[uid].status \in {"succeeded", "exists"} THEN Idx!Reported(a, "ok", at.awaited) ELSE Idx!End(a, "NonRetryable", "task")
           /\ UNCHANGED <<cfg, index, tasks, stored>>
  <2>1. /\ Later /\ \A k \in index' : index' = {k}
        /\ tasks' \in Seq(TaskSet) /\ \A u \in 1..Len(tasks') : TaskOk(tasks[u])'
    BY <1>6, Quietly
  <2>2. uid \in 1..Len(tasks) /\ tasks[uid].kind = "create"
    BY <1>3, <1>4 DEF AwaitedOk
  <2>3. /\ tasks[uid].status \in {"succeeded", "exists"}
        /\ index # {}
    <3>1. TaskOk(tasks[uid]) /\ tasks[uid] \in TaskSet
      BY <2>2 DEF IdxInv
    <3>2. tasks[uid].status \in {"enqueued", "succeeded", "exists", "failed"}
      BY <3>1 DEF TaskSet
    <3> QED BY <1>6, <2>2, <3>1, <3>2 DEF TaskOk, Idx!Finished
  <2>4. Idx!To(a, Idx!Attempt("ok", at.key, at.creation, at.batches, at.sent, at.awaited, 0, "none"))
    BY <1>1, <1>6, <2>3 DEF Idx!Reported
  <2>5. SentOk(a, at.batches, at.sent)' /\ AwaitedOk(at.sent, at.awaited, at.creation)'
    BY <1>1, <1>2, <2>1, StaysUnderWay
  <2>6. (Idx!C(a))' = Idx!C(a) /\ cfg' = cfg /\ index' # {}
    BY <2>1, <2>3, SameConfig DEF Later
  <2>7. Cut((Idx!C(a).sizes)', at.batches, Len((Idx!C(a).sizes)')) /\ at.key \in {{}, {(Idx!C(a).primary_key)'}} /\ a[1] \in DOMAIN cfg'
    BY <1>3, <2>6
  <2>8. AttemptOk(a, Idx!Attempt("ok", at.key, at.creation, at.batches, at.sent, at.awaited, 0, "none"))'
    <3>1. PICK pc_ \in Going : pc_ = "ok"
      BY DEF Going
    <3>2. PICK none : none = 0
      OBVIOUS
    <3>3. AttemptOk(a, Idx!Attempt(pc_, at.key, at.creation, at.batches, at.sent, at.awaited, none, "none"))'
      BY <1>3, <2>5, <2>6, <2>7, <3>1, GoingOk
    <3> QED BY <3>1, <3>2, <3>3
  <2> QED BY <2>1, <2>4, <2>8, Moves
<1> QED BY <1>4, <1>5, <1>6

LEMMA IdxStart == ASSUME Idx!Init PROVE IdxInv
<1>1. /\ cfg \in IndexConfigs /\ index \in IndexStates /\ tasks = <<>>
      /\ calls = [a \in IndexAttempts |-> Idx!NotBegun]
  BY DEF Idx!Init
<1>2. \A k \in index : index = {k}
  BY <1>1, IndexerAssumption
<1>3. tasks \in Seq(TaskSet) /\ \A u \in 1..Len(tasks) : TaskOk(tasks[u])
  BY <1>1
<1>4. IsFunction(calls, IndexAttempts)
  BY <1>1 DEF IsFunction
<1>5. ASSUME NEW a \in IndexAttempts PROVE AttemptOk(a, calls[a])
  <2>1. PICK at : at = calls[a]
    OBVIOUS
  <2>2. at = Idx!Blank("idle", "none")
    BY <1>1, <2>1 DEF Idx!NotBegun
  <2>3. /\ at = Idx!Attempt(at.pc, at.key, at.creation, at.batches, at.sent, at.awaited, at.waited, at.why)
        /\ at.pc = "idle" /\ at.why = "none" /\ at = Idx!Blank(at.pc, at.why)
    BY <2>2 DEF Idx!Blank, Idx!Attempt
  <2>4. AttemptOk(a, at)
    BY <2>3 DEF AttemptOk, Going, Waiting
  <2> QED BY <2>1, <2>4
<1> QED BY <1>1, <1>2, <1>3, <1>4, <1>5 DEF IdxInv

LEMMA IdxKeeps == ASSUME IdxInv, Idx!Next PROVE IdxInv'
<1>1. ASSUME NEW a \in IndexAttempts, Idx!execute(a) PROVE IdxInv'
  BY <1>1, BeginKeeps, EnsureKeeps, CreateIndexKeeps, SendKeeps, WaitKeeps, CheckCreationKeeps DEF Idx!execute
<1> QED BY <1>1, MeilisearchKeeps DEF Idx!Next

LEMMA IdxStutters == ASSUME IdxInv, UNCHANGED indexer PROVE IdxInv'
<1>1. UNCHANGED <<cfg, index, tasks, stored>> /\ calls' = calls
  BY DEF indexer
<1>2. /\ Later /\ \A k \in index' : index' = {k}
      /\ tasks' \in Seq(TaskSet) /\ \A u \in 1..Len(tasks') : TaskOk(tasks[u])'
  BY <1>1, Quietly
<1>3. ASSUME NEW q \in IndexAttempts PROVE AttemptOk(q, calls[q])'
  <2>1. PICK w : w = calls[q]
    OBVIOUS
  <2>2. AttemptOk(q, w)
    BY <2>1 DEF IdxInv
  <2>3. AttemptOk(q, w)'
    BY <1>2, <2>2, AttemptKeeps
  <2> QED BY <1>1, <2>1, <2>3
<1> QED BY <1>1, <1>2, <1>3 DEF IdxInv

\* The batches that were sent have different documents, and each of them when all were sent.
LEMMA SentDocs ==
    ASSUME NEW a, NEW s \in Seq(Nat), NEW batches, NEW sent, Cut(s, batches, Len(s)), SentOk(a, batches, sent)
    PROVE  /\ \A i, j \in 1..Len(sent) : i # j => tasks[sent[i]].docs \cap tasks[sent[j]].docs = {}
           /\ \A i \in 1..Len(sent) : tasks[sent[i]].docs \subseteq {<<a[1], p>> : p \in 1..Len(s)}
           /\ Len(sent) = Len(batches) => \A p \in 1..Len(s) : \E i \in 1..Len(sent) : <<a[1], p>> \in tasks[sent[i]].docs
<1>1. /\ Len(sent) \in Nat /\ Len(batches) \in Nat /\ Len(sent) <= Len(batches) /\ Len(s) \in Nat
      /\ \A i \in 1..Len(sent) : i \in 1..Len(batches) /\ tasks[sent[i]].docs = DocsIn(a, batches[i])
  BY DEF SentOk, Cut
<1>2. ASSUME NEW i \in 1..Len(batches)
      PROVE  batches[i][1] \in Int /\ batches[i][2] \in Int /\ 1 <= batches[i][1] /\ batches[i][2] <= Len(s)
  <2>1. batches[i] \in Ranges
    BY DEF Cut
  <2> QED BY <2>1 DEF Cut, Ranges
<1>3. ASSUME NEW i \in 1..Len(sent), NEW j \in 1..Len(sent), i < j
      PROVE  DocsIn(a, batches[i]) \cap DocsIn(a, batches[j]) = {}
  <2>1. i \in 1..Len(batches) /\ j \in 1..Len(batches)
    BY <1>1
  <2>2. batches[i][2] < batches[j][1]
    BY <1>3, <2>1 DEF Cut
  <2>3. /\ batches[i][1] \in Int /\ batches[i][2] \in Int
        /\ batches[j][1] \in Int /\ batches[j][2] \in Int
    BY <1>2, <2>1
  <2>4. ASSUME NEW p \in batches[i][1]..batches[i][2], NEW q \in batches[j][1]..batches[j][2] PROVE p # q
    BY <2>2, <2>3
  <2>5. ASSUME NEW p \in batches[i][1]..batches[i][2], NEW q \in batches[j][1]..batches[j][2] PROVE <<a[1], p>> # <<a[1], q>>
    BY <2>4
  <2> QED BY <2>5 DEF DocsIn
<1>4. ASSUME NEW i \in 1..Len(sent), NEW j \in 1..Len(sent), i # j
      PROVE  tasks[sent[i]].docs \cap tasks[sent[j]].docs = {}
  <2>1. i < j \/ j < i
    BY <1>1, <1>4
  <2>2. DocsIn(a, batches[i]) \cap DocsIn(a, batches[j]) = {}
    BY <1>3, <2>1
  <2> QED BY <1>1, <2>2
<1>5. ASSUME NEW i \in 1..Len(sent)
      PROVE  tasks[sent[i]].docs \subseteq {<<a[1], p>> : p \in 1..Len(s)}
  <2>1. batches[i][1]..batches[i][2] \subseteq 1..Len(s)
    BY <1>1, <1>2
  <2> QED BY <1>1, <2>1 DEF DocsIn
<1>6. ASSUME Len(sent) = Len(batches), NEW p \in 1..Len(s)
      PROVE  \E i \in 1..Len(sent) : <<a[1], p>> \in tasks[sent[i]].docs
  <2>1. PICK i \in 1..Len(batches) : In(p, batches[i])
    BY DEF Cut
  <2>2. p \in batches[i][1]..batches[i][2]
    BY <1>1, <1>2, <2>1 DEF In
  <2>3. <<a[1], p>> \in DocsIn(a, batches[i])
    BY <2>2 DEF DocsIn
  <2> QED BY <1>1, <1>6, <2>3
<1> QED BY <1>4, <1>5, <1>6

LEMMA IdxSound == ASSUME IdxInv PROVE Idx!IndexedMeansStored
<1> SUFFICES ASSUME NEW a \in IndexAttempts, NEW at, at = calls[a], NEW mine, mine = [i \in DOMAIN at.sent |-> tasks[at.sent[i]].docs]
             PROVE  /\ at.pc = "ok" /\ Idx!C(a).wait_for_completion => Idx!DocsOf(a) \subseteq stored /\ (Idx!C(a).auto_create_index => index # {})
                    /\ at.pc = "ok" => UNION {mine[i] : i \in DOMAIN mine} = Idx!DocsOf(a)
                    /\ \A i, j \in DOMAIN mine : i # j => mine[i] \cap mine[j] = {}
                    /\ \A i \in DOMAIN at.batches : at.batches[i][2] - at.batches[i][1] < batch_size /\ Idx!BytesOf(Idx!C(a).sizes, at.batches[i]) <= max_batch_bytes
                    /\ at.pc = "NonRetryable" /\ at.why = "oversized" => \E i \in DOMAIN Idx!C(a).sizes : Idx!C(a).sizes[i] + Idx!BRACKETS > max_batch_bytes
                    /\ at.pc = "NonRetryable" /\ at.why = "task" => \E k \in index : k # {Idx!C(a).primary_key} \/ ~(k \subseteq DocKeys)
  BY DEF Idx!IndexedMeansStored
<1>1. AttemptOk(a, at)
  BY DEF IdxInv
<1>2. CASE at.pc \in Going
  <2> DEFINE s == Idx!C(a).sizes
  <2>1. at.pc # "NonRetryable" /\ at.pc # "idle"
    BY <1>2 DEF Going
  <2>2. s \in Seq(Nat)
    BY <1>1, <2>1, ConfigOk DEF AttemptOk
  <2>3. Cut(s, at.batches, Len(s)) /\ SentOk(a, at.batches, at.sent) /\ AwaitedOk(at.sent, at.awaited, at.creation)
    BY <1>1, <1>2 DEF AttemptOk
  <2>4. Idx!DocsOf(a) = {<<a[1], p>> : p \in 1..Len(s)}
    BY <2>2 DEF Idx!DocsOf
  <2> HIDE DEF s
  <2>5. DOMAIN at.sent = 1..Len(at.sent) /\ DOMAIN at.batches = 1..Len(at.batches) /\ DOMAIN mine = 1..Len(at.sent)
    BY <2>3 DEF SentOk, Cut
  <2>6. \A i \in 1..Len(at.sent) : mine[i] = tasks[at.sent[i]].docs
    BY <2>5
  <2>7. /\ \A i, j \in 1..Len(at.sent) : i # j => tasks[at.sent[i]].docs \cap tasks[at.sent[j]].docs = {}
        /\ \A i \in 1..Len(at.sent) : tasks[at.sent[i]].docs \subseteq {<<a[1], p>> : p \in 1..Len(s)}
        /\ Len(at.sent) = Len(at.batches) => \A p \in 1..Len(s) : \E i \in 1..Len(at.sent) : <<a[1], p>> \in tasks[at.sent[i]].docs
    BY <2>2, <2>3, SentDocs
  <2>8. ASSUME NEW i \in DOMAIN mine, NEW j \in DOMAIN mine, i # j PROVE mine[i] \cap mine[j] = {}
    <3>1. i \in 1..Len(at.sent) /\ j \in 1..Len(at.sent)
      BY <2>5
    <3>2. tasks[at.sent[i]].docs \cap tasks[at.sent[j]].docs = {}
      BY <2>7, <2>8, <3>1
    <3> QED BY <2>6, <3>1, <3>2
  <2>9. \A i \in DOMAIN at.batches : at.batches[i][2] - at.batches[i][1] < batch_size /\ Idx!BytesOf(s, at.batches[i]) <= max_batch_bytes
    BY <2>3, <2>5 DEF Cut, Fits
  <2>10. ASSUME at.pc = "ok" PROVE UNION {mine[i] : i \in DOMAIN mine} = Idx!DocsOf(a)
    <3>1. Len(at.sent) = Len(at.batches)
      BY <1>1, <2>10 DEF AttemptOk
    <3>2. ASSUME NEW d \in UNION {mine[i] : i \in DOMAIN mine} PROVE d \in Idx!DocsOf(a)
      BY <2>4, <2>5, <2>6, <2>7
    <3>3. ASSUME NEW d \in Idx!DocsOf(a) PROVE d \in UNION {mine[i] : i \in DOMAIN mine}
      <4>1. PICK p \in 1..Len(s) : d = <<a[1], p>>
        BY <2>4
      <4>2. PICK i \in 1..Len(at.sent) : d \in tasks[at.sent[i]].docs
        BY <2>7, <3>1, <4>1
      <4> QED BY <2>5, <2>6, <4>2
    <3> QED BY <3>2, <3>3
  <2>11. ASSUME at.pc = "ok", Idx!C(a).wait_for_completion
         PROVE  Idx!DocsOf(a) \subseteq stored /\ (Idx!C(a).auto_create_index => index # {})
    <3>1. /\ Len(at.sent) = Len(at.batches) /\ at.awaited = Len(at.sent)
          /\ Idx!C(a).auto_create_index => index # {}
      BY <1>1, <2>11 DEF AttemptOk
    <3>2. ASSUME NEW i \in 1..Len(at.sent) PROVE tasks[at.sent[i]].docs \subseteq stored
      <4>1. PICK u : u = at.sent[i]
        OBVIOUS
      <4>2. u \in 1..Len(tasks) /\ tasks[u].kind = "add" /\ tasks[u].status = "succeeded"
        BY <2>3, <3>1, <4>1 DEF SentOk, AwaitedOk
      <4>3. TaskOk(tasks[u])
        BY <4>2 DEF IdxInv
      <4> QED BY <4>1, <4>2, <4>3 DEF TaskOk
    <3>3. ASSUME NEW d \in Idx!DocsOf(a) PROVE d \in stored
      <4>1. PICK p \in 1..Len(s) : d = <<a[1], p>>
        BY <2>4
      <4>2. PICK i \in 1..Len(at.sent) : d \in tasks[at.sent[i]].docs
        BY <2>7, <3>1, <4>1
      <4> QED BY <3>2, <4>2
    <3> QED BY <3>1, <3>3
  <2> QED BY <2>1, <2>8, <2>9, <2>10, <2>11 DEF s
<1>3. CASE at.pc \notin Going
  <2>1. at = Idx!Blank(at.pc, at.why)
    BY <1>1, <1>3 DEF AttemptOk
  <2>2. at.sent = <<>> /\ at.batches = <<>>
    BY <2>1 DEF Idx!Blank, Idx!Attempt
  <2>3. DOMAIN at.batches = {} /\ DOMAIN mine = {} /\ at.pc # "ok"
    BY <1>3, <2>2 DEF Going
  <2>4. ASSUME at.pc = "NonRetryable", at.why = "oversized"
        PROVE  \E i \in DOMAIN Idx!C(a).sizes : Idx!C(a).sizes[i] + Idx!BRACKETS > max_batch_bytes
    <3>1. TooBig(Idx!C(a).sizes) /\ a[1] \in DOMAIN cfg
      BY <1>1, <2>4 DEF AttemptOk
    <3>2. Idx!C(a).sizes \in Seq(Nat)
      BY <3>1, ConfigOk
    <3> QED BY <3>1, <3>2 DEF TooBig
  <2>5. ASSUME at.pc = "NonRetryable", at.why = "task"
        PROVE  \E k \in index : k # {Idx!C(a).primary_key} \/ ~(k \subseteq DocKeys)
    <3>1. PICK pk : pk = Idx!C(a).primary_key
      OBVIOUS
    <3>2. Refuses(pk)
      BY <1>1, <2>5, <3>1 DEF AttemptOk
    <3>3. PICK k \in index : (k # {} /\ k # {pk}) \/ ~(k \subseteq DocKeys) \/ ~({pk} \subseteq DocKeys)
      BY <3>2 DEF Refuses
    <3>4. k # {pk} \/ ~(k \subseteq DocKeys)
      BY <3>3
    <3> QED BY <3>1, <3>4
  <2> QED BY <2>3, <2>4, <2>5
<1> QED BY <1>2, <1>3

----------------------------------------------------------------------------
(* The blob store.  What is stored at a slot's key was spilled by an       *)
(* attempt of a slot that is called the same, whichever attempt wrote it   *)
(* last; what is stored at the upload's key stays unless a step spills     *)
(* over it.                                                                *)

Computed(s) == {Blob!Output(<<s, n>>, z) : n \in StepAttempts, z \in Blob!Sizes}
Spills(s) == {o \in UNION {Computed(t) : t \in Blob!Namesakes(s)} : o.size > threshold}
Readable(s) == Computed(s) \cup Spills(s)

\* An attempt or the workflow holds an output of the slot, or the reference it was spilled as.
Spilled(s) == Blob!Staged(Blob!spill_key(s), {Blob!SPILLED_OUTPUT_MIME}, <<>>)
HasSpill(s) == Blob!spill_key(s) \in DOMAIN objects /\ objects[Blob!spill_key(s)] \in Spills(s)
Held(s, o) == o \in Computed(s) \/ (o = Spilled(s) /\ HasSpill(s))

Inline(b) == Blob!Bytes([data |-> Blob!FileBytes(b), name |-> b.name, mime |-> b.mime])
InStore(b) == Blob!Staged(Blob!upload_key(b), {b.mime}, b.name)
IsStored(b) == Blob!upload_key(b) \in DOMAIN objects /\ objects[Blob!upload_key(b)] = Blob!FileBytes(b)

StoredOk(k) == \/ \E s \in Blob!Slots : k = Blob!spill_key(s) /\ objects[k] \in Spills(s)
               \/ \E b \in UploadedFiles : k = Blob!upload_key(b) /\ objects[k] = Blob!FileBytes(b)

AttemptHolds(a, at) ==
  /\ at.phase # "none" => at = [phase |-> at.phase, output |-> at.output] /\ Held(a[1], at.output)
  /\ at.phase = "ran" => at.output \in Computed(a[1])

Uploaded(p) == \E b \in UploadedFiles :
                 p = Inline(b) \/ (p = InStore(b) /\ (Blob!Untouched(b) => IsStored(b)))

\* No step runs before the upload is staged, which may write over what a step spilled.
NothingYet == input = {} => /\ \A a \in Blob!Acts : spills[a].phase = "none"
                            /\ \A s \in Blob!Slots : accepted[s] = {}

Results == {Blob!Ok(o) : o \in UNION {Readable(s) : s \in Blob!Slots}}

BlobInv ==
  /\ \A k \in DOMAIN objects : StoredOk(k)
  /\ \A p \in input : Uploaded(p)
  /\ NothingYet
  /\ IsFunction(spills, Blob!Acts) /\ \A a \in Blob!Acts : AttemptHolds(a, spills[a])
  /\ IsFunction(accepted, Blob!Slots) /\ \A s \in Blob!Slots : \A o \in accepted[s] : Held(s, o)
  /\ reader \in Seq(Results) /\ Len(reader) <= Len(StepInputs)
  /\ \A i \in 1..Len(reader) : \E o \in Readable(StepInputs[i]) : reader[i] = Blob!Ok(o)

\* What is computed is no reference, and neither is what is stored.
LEMMA ComputedIs ==
    ASSUME NEW s, NEW o \in Computed(s)
    PROVE  o.kind = "documents" /\ o.size \in Blob!Sizes /\ \E n \in StepAttempts : o = Blob!Output(<<s, n>>, o.size)
<1>1. PICK n \in StepAttempts, z \in Blob!Sizes : o = Blob!Output(<<s, n>>, z)
  BY DEF Computed
<1>2. o.kind = "documents" /\ o.size = z
  BY <1>1 DEF Blob!Output
<1> QED BY <1>1, <1>2

LEMMA ReadableIs ==
    ASSUME NEW s, NEW o \in Readable(s)
    PROVE  o.kind = "documents"
<1>1. ASSUME NEW t, o \in Computed(t) PROVE o.kind = "documents"
  BY <1>1, ComputedIs
<1> QED BY <1>1 DEF Readable, Spills

\* Names and keys are sequences of words.
Words == STRING \cup {"-", ".json", "jobs", "id"}

LEMMA WordsAre ==
    ASSUME NEW S, NEW a \in S, NEW b \in S
    PROVE  <<a>> \in Seq(S) /\ <<a, b>> \in Seq(S)
OBVIOUS

LEMMA CancelLeft ==
    ASSUME NEW S, NEW r \in Seq(S), NEW u \in Seq(S), NEW v \in Seq(S), r \o u = r \o v
    PROVE  u = v
<1>1. \A s, t, w \in Seq(S) : s \o t = s \o w => t = w
  BY ConcatSimplifications
<1> QED BY <1>1

LEMMA CancelRight ==
    ASSUME NEW S, NEW r \in Seq(S), NEW u \in Seq(S), NEW v \in Seq(S), u \o r = v \o r
    PROVE  u = v
BY ConcatProperties, SeqEqual

\* Slots whose outputs are spilled to one key are called the same.
LEMMA CalledIs ==
    ASSUME NEW s \in Blob!Slots
    PROVE  Blob!Called(s) \in Seq(Words) /\ Blob!spill_name(s) = Blob!Called(s) \o <<".json">>
<1>1. s[1] \in Seq(STRING) /\ s[2] \subseteq STRING
  BY StoreAssumption DEF Blob!Slots
<1>2. s[1] \in Seq(Words)
  <2>1. STRING \subseteq Words
    BY DEF Words
  <2> QED BY <1>1, <2>1, SeqMonotonic
<1>3. s[2] # {} => <<"-", Blob!Only(s[2])>> \in Seq(Words)
  <2>1. s[2] # {} => Blob!Only(s[2]) \in Words
    BY <1>1 DEF Blob!Only, Words
  <2>2. "-" \in Words
    BY DEF Words
  <2> QED BY <2>1, <2>2, WordsAre
<1>4. s[2] # {} => s[1] \o <<"-", Blob!Only(s[2])>> \in Seq(Words)
  BY <1>2, <1>3, ConcatProperties
<1>5. Blob!Called(s) \in Seq(Words)
  BY <1>2, <1>4 DEF Blob!Called
<1>6. Blob!spill_name(s) = Blob!Called(s) \o <<".json">>
  BY DEF Blob!spill_name, Blob!Called
<1> QED BY <1>5, <1>6

LEMMA OneKeyOneName ==
    ASSUME NEW s \in Blob!Slots, NEW t \in Blob!Slots, Blob!spill_key(s) = Blob!spill_key(t)
    PROVE  Blob!Called(s) = Blob!Called(t)
<1> DEFINE dir == <<"jobs", "id">>
           json == <<".json">>
<1>1. dir \in Seq(Words) /\ json \in Seq(Words)
  <2>1. "jobs" \in Words /\ "id" \in Words /\ ".json" \in Words
    BY DEF Words
  <2> QED BY <2>1, WordsAre
<1>2. /\ Blob!Called(s) \in Seq(Words) /\ Blob!Called(t) \in Seq(Words)
      /\ Blob!spill_name(s) = Blob!Called(s) \o json /\ Blob!spill_name(t) = Blob!Called(t) \o json
  BY CalledIs
<1>3. Blob!spill_name(s) \in Seq(Words) /\ Blob!spill_name(t) \in Seq(Words)
  BY <1>1, <1>2, ConcatProperties
<1>4. dir \o Blob!spill_name(s) = dir \o Blob!spill_name(t)
  BY DEF Blob!spill_key, Blob!staged_key
<1> HIDE DEF dir, json
<1>5. Blob!spill_name(s) = Blob!spill_name(t)
  BY <1>1, <1>3, <1>4, CancelLeft
<1> QED BY <1>1, <1>2, <1>5, CancelRight

LEMMA OneKeyOneSpill ==
    ASSUME NEW s \in Blob!Slots, NEW t \in Blob!Slots, Blob!spill_key(s) = Blob!spill_key(t)
    PROVE  Spills(s) = Spills(t)
<1>1. Blob!Namesakes(s) = Blob!Namesakes(t)
  BY OneKeyOneName DEF Blob!Namesakes
<1> QED BY <1>1 DEF Spills

LEMMA StoredIs ==
    ASSUME NEW k, StoredOk(k)
    PROVE  objects[k].kind \in {"documents", "file"}
<1>1. ASSUME NEW s, objects[k] \in Spills(s) PROVE objects[k].kind = "documents"
  BY <1>1, ReadableIs DEF Readable
<1>2. ASSUME NEW b, objects[k] = Blob!FileBytes(b) PROVE objects[k].kind = "file"
  BY <1>2 DEF Blob!FileBytes
<1> QED BY <1>1, <1>2 DEF StoredOk

Once(o) == IF o.kind = "ref" /\ o.mime = {Blob!SPILLED_OUTPUT_MIME}
           THEN IF o.key \notin DOMAIN objects THEN Blob!Err("NotFound")
                ELSE IF objects[o.key].kind = "file" THEN Blob!Err("Json") ELSE Blob!Ok(objects[o.key])
           ELSE Blob!Ok(o)

\* The recursion of hydrate_output has a solution, and it ends after one round.
LEMMA HydratesOnce ==
    ASSUME \A k \in DOMAIN objects : StoredOk(k), NEW o
    PROVE  Blob!hydrate_output(o) = Once(o)
<1> DEFINE S == {o} \cup {objects[k] : k \in DOMAIN objects}
           Solves(f) == f = [y \in S |-> Blob!Hydrate(y, f)]
           g == [y \in S |-> Once(y)]
<1>1. ASSUME NEW k \in DOMAIN objects, NEW f
      PROVE  Blob!Hydrate(objects[k], f) = Blob!Ok(objects[k]) /\ Once(objects[k]) = Blob!Ok(objects[k])
  <2>1. objects[k].kind # "ref"
    BY StoredIs
  <2> QED BY <2>1 DEF Blob!Hydrate, Once
<1>2. ASSUME NEW f, \A k \in DOMAIN objects : f[objects[k]] = Blob!Ok(objects[k]), NEW y
      PROVE  Blob!Hydrate(y, f) = Once(y)
  <2>1. CASE y.kind = "ref" /\ y.mime = {Blob!SPILLED_OUTPUT_MIME} /\ y.key \in DOMAIN objects
    <3>1. Blob!get(y.key) = [ok |-> objects[y.key]]
      BY <2>1 DEF Blob!get, Blob!Ok
    <3>2. Blob!IsOk(Blob!get(y.key)) /\ Blob!get(y.key).ok = objects[y.key]
      BY <3>1 DEF Blob!IsOk
    <3>3. f[objects[y.key]] = Blob!Ok(objects[y.key])
      BY <1>2, <2>1
    <3> QED BY <2>1, <3>2, <3>3 DEF Blob!Hydrate, Once
  <2>2. CASE y.kind = "ref" /\ y.mime = {Blob!SPILLED_OUTPUT_MIME} /\ y.key \notin DOMAIN objects
    <3>1. Blob!get(y.key) = Blob!Err("NotFound") /\ ~Blob!IsOk(Blob!Err("NotFound"))
      BY <2>2 DEF Blob!get, Blob!IsOk, Blob!Err
    <3> QED BY <2>2, <3>1 DEF Blob!Hydrate, Once
  <2>3. CASE ~(y.kind = "ref" /\ y.mime = {Blob!SPILLED_OUTPUT_MIME})
    BY <2>3 DEF Blob!Hydrate, Once
  <2> QED BY <2>1, <2>2, <2>3
<1>3. Solves(g)
  <2>1. \A k \in DOMAIN objects : g[objects[k]] = Blob!Ok(objects[k])
    BY <1>1
  <2>2. PICK f : f = g
    OBVIOUS
  <2>3. \A y \in S : Blob!Hydrate(y, f) = Once(y)
    BY <1>2, <2>1, <2>2
  <2> HIDE DEF S
  <2> QED BY <2>2, <2>3
<1>4. Blob!hydrate_output(o) = (CHOOSE f : Solves(f))[o]
  BY DEF Blob!hydrate_output
<1>5. PICK f : f = (CHOOSE h : Solves(h)) /\ Solves(f)
  <2> HIDE DEF Solves, g
  <2> QED BY <1>3
<1>6. \A k \in DOMAIN objects : f[objects[k]] = Blob!Ok(objects[k])
  <2> SUFFICES ASSUME NEW k \in DOMAIN objects PROVE f[objects[k]] = Blob!Ok(objects[k])
    OBVIOUS
  <2>1. objects[k] \in S
    OBVIOUS
  <2>2. f[objects[k]] = Blob!Hydrate(objects[k], f)
    <3> HIDE DEF S
    <3> QED BY <1>5, <2>1
  <2> QED BY <1>1, <2>2
<1>7. f[o] = Blob!Hydrate(o, f)
  <2>1. o \in S
    OBVIOUS
  <2> HIDE DEF S
  <2> QED BY <1>5, <2>1
<1> HIDE DEF Solves, S, g
<1> QED BY <1>2, <1>4, <1>5, <1>6, <1>7

LEMMA ResolvesHeld ==
    ASSUME \A k \in DOMAIN objects : StoredOk(k), NEW s \in Blob!Slots, NEW o, Held(s, o)
    PROVE  \E c \in Readable(s) : Blob!resolve_output(o) = Blob!Ok(c)
<1>1. ASSUME NEW c \in Readable(s), Blob!hydrate_output(o) = Blob!Ok(c) PROVE Blob!resolve_output(o) = Blob!Ok(c)
  <2>1. c.kind # "ref"
    BY ReadableIs
  <2>2. Blob!hydrate_output(o) = [ok |-> c]
    BY <1>1 DEF Blob!Ok
  <2>3. Blob!hydrate_output(o).ok = c
    BY <2>2
  <2> QED BY <1>1, <2>1, <2>3 DEF Blob!resolve_output
<1>2. CASE o \in Computed(s)
  <2>1. Once(o) = Blob!Ok(o)
    BY <1>2, ComputedIs DEF Once
  <2>2. o \in Readable(s)
    BY <1>2 DEF Readable
  <2> QED BY <1>1, <2>1, <2>2, HydratesOnce
<1>3. CASE o = Spilled(s) /\ HasSpill(s)
  <2>1. o.kind = "ref" /\ o.mime = {Blob!SPILLED_OUTPUT_MIME} /\ o.key = Blob!spill_key(s)
    BY <1>3 DEF Spilled, Blob!Staged
  <2>2. o.key \in DOMAIN objects /\ objects[o.key] \in Readable(s)
    BY <1>3, <2>1 DEF HasSpill, Readable
  <2>3. objects[o.key].kind # "file"
    BY <2>2, ReadableIs
  <2>4. Once(o) = Blob!Ok(objects[o.key])
    BY <2>1, <2>2, <2>3 DEF Once
  <2> QED BY <1>1, <2>2, <2>4, HydratesOnce
<1> QED BY <1>2, <1>3 DEF Held

LEMMA ResolvesUpload ==
    ASSUME \A k \in DOMAIN objects : StoredOk(k), NEW b \in UploadedFiles, NEW p,
           p = Inline(b) \/ (p = InStore(b) /\ Blob!Untouched(b) /\ IsStored(b))
    PROVE  Blob!AsSent(Blob!resolve_output(p), b)
<1> SUFFICES ASSUME NEW got, got = Blob!resolve_output(p)
             PROVE  /\ Blob!IsOk(got) /\ got.ok.kind = "bytes"
                    /\ got.ok.blob.data = Blob!FileBytes(b) /\ got.ok.blob.mime = b.mime
                    /\ b.name # <<>> => got.ok.blob.name = b.name
  BY DEF Blob!AsSent
<1>2. Blob!hydrate_output(p) = Once(p)
  BY HydratesOnce
<1>3. ASSUME Once(p) = Blob!Ok(p) PROVE Blob!IsOk(Blob!hydrate_output(p)) /\ Blob!hydrate_output(p).ok = p
  BY <1>2, <1>3 DEF Blob!Ok, Blob!IsOk
<1>4. CASE p = Inline(b)
  <2>1. p.kind = "bytes"
    BY <1>4 DEF Inline, Blob!Bytes
  <2>2. Once(p) = Blob!Ok(p)
    BY <2>1 DEF Once
  <2>3. got = [ok |-> p]
    BY <1>2, <1>3, <2>1, <2>2 DEF Blob!resolve_output, Blob!Ok
  <2>4. p.blob = [data |-> Blob!FileBytes(b), name |-> b.name, mime |-> b.mime]
    BY <1>4 DEF Inline, Blob!Bytes
  <2> QED BY <2>1, <2>3, <2>4 DEF Blob!IsOk
<1>5. CASE p = InStore(b) /\ Blob!Untouched(b) /\ IsStored(b)
  <2>1. p.kind = "ref" /\ p.mime = {b.mime} /\ p.key = Blob!upload_key(b) /\ p.name = b.name
    BY <1>5 DEF InStore, Blob!Staged
  <2>2. b.mime # Blob!SPILLED_OUTPUT_MIME
    BY <1>5 DEF Blob!Untouched
  <2>3. Once(p) = Blob!Ok(p)
    BY <2>1, <2>2 DEF Once
  <2>4. got = Blob!fetch_staged(p)
    BY <1>3, <2>1, <2>3 DEF Blob!resolve_output
  <2>5. Blob!get(p.key) = [ok |-> Blob!FileBytes(b)]
    BY <1>5, <2>1 DEF IsStored, Blob!get, Blob!Ok
  <2>6. Blob!IsOk(Blob!get(p.key)) /\ Blob!get(p.key).ok = Blob!FileBytes(b)
    BY <2>5 DEF Blob!IsOk
  <2>7. Blob!Only(p.mime) = b.mime /\ p.mime # {}
    BY <2>1 DEF Blob!Only
  <2>8. PICK name : /\ got = Blob!Ok(Blob!Bytes([data |-> Blob!FileBytes(b), name |-> name, mime |-> b.mime]))
                    /\ b.name # <<>> => name = b.name
    <3> DEFINE name == IF p.name # <<>> THEN p.name ELSE Blob!last_segment(p.key)
    <3>1. Blob!fetch_staged(p) = Blob!Ok(Blob!Bytes([data |-> Blob!FileBytes(b), name |-> name, mime |-> b.mime]))
      BY <2>6, <2>7 DEF Blob!fetch_staged
    <3>2. b.name # <<>> => name = b.name
      BY <2>1
    <3> HIDE DEF name
    <3> QED BY <2>4, <3>1, <3>2
  <2> QED BY <2>8 DEF Blob!Ok, Blob!Bytes, Blob!IsOk
<1> QED BY <1>4, <1>5

\* Nothing that is stored goes away, and no output that was spilled is written over by
\* anything but another one of the same name.
Written == /\ DOMAIN objects \subseteq DOMAIN objects'
           /\ \A s \in Blob!Slots : HasSpill(s) => HasSpill(s)'

LEMMA HeldStays ==
    ASSUME Written
    PROVE  \A s \in Blob!Slots : \A o : Held(s, o) => Held(s, o)'
BY DEF Written, Held, Computed, Spilled

LEMMA UploadStays ==
    ASSUME \A b \in UploadedFiles : Blob!Untouched(b) /\ IsStored(b) => IsStored(b)'
    PROVE  \A p : Uploaded(p) => Uploaded(p)'
<1> SUFFICES ASSUME NEW p, Uploaded(p) PROVE Uploaded(p)'
  OBVIOUS
<1>1. PICK b \in UploadedFiles : p = Inline(b) \/ (p = InStore(b) /\ (Blob!Untouched(b) => IsStored(b)))
  BY DEF Uploaded
<1>2. Blob!Untouched(b)' = Blob!Untouched(b)
  BY DEF Blob!Untouched, Blob!Slots
<1> QED BY <1>1, <1>2 DEF Uploaded

LEMMA AttemptStays ==
    ASSUME Written, NEW a \in Blob!Acts, NEW at, AttemptHolds(a, at)
    PROVE  AttemptHolds(a, at)'
<1>1. at.phase # "none" => Held(a[1], at.output)'
  BY HeldStays DEF AttemptHolds, Blob!Acts
<1> QED BY <1>1 DEF AttemptHolds, Computed

LEMMA Puts ==
    ASSUME NEW key, NEW value, Blob!put(key, value)
    PROVE  /\ DOMAIN objects' = DOMAIN objects \cup {key} /\ objects'[key] = value
           /\ \A k \in DOMAIN objects : k # key => objects'[k] = objects[k]
BY DEF Blob!put

\* What is constant in these predicates.
LEMMA SameSpills == \A s \in Blob!Slots : Spills(s)' = Spills(s) /\ Readable(s)' = Readable(s)
BY DEF Spills, Blob!Namesakes, Blob!Slots, Computed, Readable

\* A step that stores a value that belongs at its key and leaves everyone with what he may hold.
LEMMA BlobStep ==
    ASSUME BlobInv, NothingYet', \A k \in DOMAIN objects' : StoredOk(k)',
           \A p \in input' : Uploaded(p)',
           IsFunction(spills, Blob!Acts)', \A a \in Blob!Acts : AttemptHolds(a, spills[a])',
           IsFunction(accepted, Blob!Slots)', \A s \in Blob!Slots : \A o \in accepted'[s] : Held(s, o)',
           reader' \in Seq(Results), Len(reader') <= Len(StepInputs),
           \A i \in 1..Len(reader') : \E o \in Readable(StepInputs[i]) : reader'[i] = Blob!Ok(o)
    PROVE  BlobInv'
<1>1. Blob!Slots' = Blob!Slots /\ Blob!Acts' = Blob!Acts /\ Results' = Results
  BY DEF Blob!Slots, Blob!Acts, Results, Readable, Spills, Blob!Namesakes, Computed, Blob!Output, Blob!Sizes, Blob!Ok
<1>2. \A i \in 1..Len(reader') : (\E o \in Readable(StepInputs[i]) : reader'[i] = Blob!Ok(o))
  OBVIOUS
<1>3. (\A i \in 1..Len(reader) : \E o \in Readable(StepInputs[i]) : reader[i] = Blob!Ok(o))'
  <2>1. ASSUME NEW i \in 1..Len(reader') PROVE Readable(StepInputs[i])' = Readable(StepInputs[i])
    <3>1. Len(reader') \in Nat /\ Len(StepInputs) \in Nat
      BY StoreAssumption
    <3>2. StepInputs[i] \in Blob!Slots
      BY <3>1 DEF Blob!Slots
    <3> QED BY <3>2, SameSpills
  <2> QED BY <1>2, <2>1
<1>4. (reader \in Seq(Results) /\ Len(reader) <= Len(StepInputs))'
  BY <1>1
<1>5. (\A a \in Blob!Acts : AttemptHolds(a, spills[a]))'
  BY <1>1
<1>6. (\A s \in Blob!Slots : \A o \in accepted[s] : Held(s, o))'
  BY <1>1
<1>7. (\A k \in DOMAIN objects : StoredOk(k))' /\ (\A p \in input : Uploaded(p))'
  OBVIOUS
<1> QED BY <1>3, <1>4, <1>5, <1>6, <1>7 DEF BlobInv

LEMMA BlobParts ==
    ASSUME BlobInv
    PROVE  /\ \A k \in DOMAIN objects : StoredOk(k)
           /\ \A p \in input : Uploaded(p)
           /\ NothingYet
           /\ IsFunction(spills, Blob!Acts) /\ \A a \in Blob!Acts : AttemptHolds(a, spills[a])
           /\ IsFunction(accepted, Blob!Slots) /\ \A s \in Blob!Slots : \A o \in accepted[s] : Held(s, o)
           /\ reader \in Seq(Results) /\ Len(reader) <= Len(StepInputs) /\ Len(reader) \in Nat
           /\ \A i \in 1..Len(reader) : \E o \in Readable(StepInputs[i]) : reader[i] = Blob!Ok(o)
<1>1. reader \in Seq(Results)
  BY DEF BlobInv
<1>2. Len(reader) \in Nat
  BY <1>1
<1> QED BY <1>2 DEF BlobInv

LEMMA ObjectsStay ==
    ASSUME BlobInv, UNCHANGED objects
    PROVE  /\ Written /\ \A k \in DOMAIN objects' : StoredOk(k)'
           /\ \A b \in UploadedFiles : IsStored(b) => IsStored(b)'
<1>1. \A k \in DOMAIN objects : StoredOk(k)
  BY DEF BlobInv
<1>2. Written
  BY SameSpills DEF Written, HasSpill
<1>3. \A k \in DOMAIN objects' : StoredOk(k)'
  BY <1>1, SameSpills DEF StoredOk
<1> QED BY <1>2, <1>3 DEF IsStored

LEMMA PutsStored ==
    ASSUME BlobInv, NEW key, NEW value, Blob!put(key, value),
           \/ \E s \in Blob!Slots : key = Blob!spill_key(s) /\ value \in Spills(s)
           \/ \E b \in UploadedFiles : key = Blob!upload_key(b) /\ value = Blob!FileBytes(b)
    PROVE  \A k \in DOMAIN objects' : StoredOk(k)'
<1>1. /\ DOMAIN objects' = DOMAIN objects \cup {key} /\ objects'[key] = value
      /\ \A k \in DOMAIN objects : k # key => objects'[k] = objects[k]
  BY Puts
<1> SUFFICES ASSUME NEW k \in DOMAIN objects' PROVE StoredOk(k)'
  OBVIOUS
<1> DEFINE Ok(v) == \/ \E s \in Blob!Slots : k = Blob!spill_key(s) /\ v \in Spills(s)
                    \/ \E b \in UploadedFiles : k = Blob!upload_key(b) /\ v = Blob!FileBytes(b)
<1>2. CASE k = key
  <2>1. Ok(value)
    BY <1>2
  <2>2. Ok(objects'[k])
    BY <1>1, <1>2, <2>1
  <2> QED BY <2>2, SameSpills DEF StoredOk
<1>3. CASE k # key
  <2>1. k \in DOMAIN objects /\ objects'[k] = objects[k]
    BY <1>1, <1>3
  <2>2. Ok(objects[k])
    BY <2>1 DEF BlobInv, StoredOk
  <2>3. Ok(objects'[k])
    BY <2>1, <2>2
  <2> QED BY <2>3, SameSpills DEF StoredOk
<1> QED BY <1>2, <1>3

LEMMA AttemptsStay ==
    ASSUME BlobInv, Written
    PROVE  \A a \in Blob!Acts : spills'[a] = spills[a] => AttemptHolds(a, spills[a])'
<1> SUFFICES ASSUME NEW a \in Blob!Acts, spills'[a] = spills[a] PROVE AttemptHolds(a, spills[a])'
  OBVIOUS
<1>1. PICK at : at = spills[a]
  OBVIOUS
<1>2. AttemptHolds(a, at)
  BY <1>1 DEF BlobInv
<1>3. AttemptHolds(a, at)'
  BY <1>2, AttemptStays
<1>4. spills'[a] = at
  BY <1>1
<1> QED BY <1>3, <1>4 DEF AttemptHolds

LEMMA BlobInit == Blob!Init => BlobInv
<1> SUFFICES ASSUME Blob!Init PROVE BlobInv
  OBVIOUS
<1>1. DOMAIN objects = {} /\ input = {} /\ reader = <<>>
  BY DEF Blob!Init
<1>2. IsFunction(spills, Blob!Acts) /\ \A a \in Blob!Acts : spills[a].phase = "none"
  BY DEF Blob!Init, IsFunction
<1>3. IsFunction(accepted, Blob!Slots) /\ \A s \in Blob!Slots : accepted[s] = {}
  BY DEF Blob!Init, IsFunction
<1>4. \A a \in Blob!Acts : AttemptHolds(a, spills[a])
  BY <1>2 DEF AttemptHolds
<1>5. reader \in Seq(Results) /\ Len(reader) = 0 /\ Len(StepInputs) \in Nat
  BY <1>1, StoreAssumption
<1>6. NothingYet
  BY <1>2, <1>3 DEF NothingYet
<1> QED BY <1>1, <1>2, <1>3, <1>4, <1>5, <1>6 DEF BlobInv

LEMMA BlobStageUpload ==
    ASSUME BlobInv, NEW b \in UploadedFiles, Blob!stage_upload(b)
    PROVE  BlobInv'
<1>1. UNCHANGED <<spills, accepted, reader>> /\ input = {}
  BY DEF Blob!stage_upload
<1>2. (\A k \in DOMAIN objects' : StoredOk(k)') /\ (\A p \in input' : Uploaded(p)')
  <2>1. CASE b.size <= inline_max
    <3>1. UNCHANGED objects /\ input' = {Inline(b)}
      BY <2>1, StoreAssumption DEF Blob!stage_upload, Inline
    <3> QED BY <3>1, ObjectsStay DEF Uploaded
  <2>2. CASE ~(b.size <= inline_max)
    <3>1. Blob!put(Blob!upload_key(b), Blob!FileBytes(b)) /\ input' = {InStore(b)}
      BY <2>2, StoreAssumption DEF Blob!stage_upload, InStore
    <3>2. \A k \in DOMAIN objects' : StoredOk(k)'
      BY <3>1, PutsStored
    <3>3. IsStored(b)'
      BY <3>1, Puts DEF IsStored
    <3> QED BY <3>1, <3>2, <3>3 DEF Uploaded
  <2> QED BY <2>1, <2>2
<1>3. (\A a \in Blob!Acts : spills[a].phase = "none") /\ (\A s \in Blob!Slots : accepted[s] = {})
  BY <1>1, BlobParts DEF NothingYet
<1>4. \A a \in Blob!Acts : AttemptHolds(a, spills[a])'
  BY <1>1, <1>3 DEF AttemptHolds
<1>5. \A s \in Blob!Slots : \A o \in accepted'[s] : Held(s, o)'
  BY <1>1, <1>3
<1>6. NothingYet'
  BY <1>1, <1>3 DEF NothingYet, Blob!Acts, Blob!Slots
<1>7. IsFunction(accepted, Blob!Slots)' /\ IsFunction(spills, Blob!Acts)'
  BY <1>1, BlobParts DEF IsFunction, Blob!Acts, Blob!Slots
<1> QED BY <1>1, <1>2, <1>4, <1>5, <1>6, <1>7, BlobParts, BlobStep

\* A step of one attempt.
LEMMA BlobAttempt ==
    ASSUME BlobInv, NEW a \in Blob!Acts, NEW at, spills' = [spills EXCEPT ![a] = at], AttemptHolds(a, at)',
           Written, \A k \in DOMAIN objects' : StoredOk(k)', (\A p \in input : Uploaded(p))',
           UNCHANGED <<input, accepted, reader>>, input # {}
    PROVE  BlobInv'
<1>1. IsFunction(spills, Blob!Acts)
  BY BlobParts
<1>2. /\ IsFunction(spills', Blob!Acts) /\ spills'[a] = at
      /\ \A b \in Blob!Acts : b # a => spills'[b] = spills[b]
  BY <1>1 DEF IsFunction
<1>3. ASSUME NEW b \in Blob!Acts PROVE AttemptHolds(b, spills[b])'
  <2>1. CASE b = a
    BY <1>2, <2>1 DEF AttemptHolds
  <2>2. CASE b # a
    BY <1>2, <2>2, AttemptsStay
  <2> QED BY <2>1, <2>2
<1>4. \A s \in Blob!Slots : \A o \in accepted'[s] : Held(s, o)'
  BY BlobParts, HeldStays
<1>5. IsFunction(spills, Blob!Acts)'
  BY <1>2 DEF IsFunction, Blob!Acts, Blob!Slots
<1>6. IsFunction(accepted, Blob!Slots)'
  BY BlobParts DEF IsFunction, Blob!Slots
<1>7. NothingYet'
  BY DEF NothingYet
<1> QED BY <1>3, <1>4, <1>5, <1>6, <1>7, BlobParts, BlobStep

\* A step that leaves the objects and the upload alone leaves them as they should be.
LEMMA StoreStays ==
    ASSUME BlobInv, UNCHANGED <<objects, input>>
    PROVE  /\ Written /\ \A k \in DOMAIN objects' : StoredOk(k)'
           /\ (\A p \in input : Uploaded(p))'
<1>1. Written /\ \A k \in DOMAIN objects' : StoredOk(k)'
  BY ObjectsStay
<1>2. \A p : Uploaded(p) => Uploaded(p)'
  BY ObjectsStay, UploadStays
<1> QED BY <1>1, <1>2, BlobParts

LEMMA BlobExecute ==
    ASSUME BlobInv, NEW a \in Blob!Acts, NEW size \in Blob!Sizes, Blob!execute(a, size)
    PROVE  BlobInv'
<1>1. PICK at : at = [phase |-> "ran", output |-> Blob!Output(a, size)]
  OBVIOUS
<1>2. spills' = [spills EXCEPT ![a] = at] /\ UNCHANGED <<objects, input, accepted, reader>> /\ input # {}
  BY <1>1 DEF Blob!execute
<1>3. Blob!Output(a, size) \in Computed(a[1])
  <2>1. a = <<a[1], a[2]>> /\ a[2] \in StepAttempts
    BY DEF Blob!Acts
  <2> QED BY <2>1 DEF Computed
<1>4. AttemptHolds(a, at)
  BY <1>1, <1>3 DEF AttemptHolds, Held
<1>5. AttemptHolds(a, at)'
  BY <1>2, <1>4, StoreStays, AttemptStays
<1> QED BY <1>2, <1>5, StoreStays, BlobAttempt

LEMMA BlobSpill ==
    ASSUME BlobInv, NEW a \in Blob!Acts, Blob!spill_output(a)
    PROVE  BlobInv'
<1>1. spills[a].phase = "ran" /\ UNCHANGED <<input, accepted, reader>>
  BY DEF Blob!spill_output
<1>2. PICK o : o = spills[a].output
  OBVIOUS
<1>3. o \in Computed(a[1]) /\ a[1] \in Blob!Slots
  BY <1>1, <1>2, BlobParts DEF AttemptHolds, Blob!Acts
<1>7. input # {}
  BY <1>1, BlobParts DEF NothingYet
<1>4. o.size \in Nat
  BY <1>3, ComputedIs, StoreAssumption DEF Blob!Sizes
<1>5. CASE o.size <= threshold
  <2>1. PICK at : at = [phase |-> "answers", output |-> o]
    OBVIOUS
  <2>2. spills' = [spills EXCEPT ![a] = at] /\ UNCHANGED <<objects, input, accepted, reader>>
    BY <1>1, <1>2, <1>4, <1>5, <2>1, StoreAssumption DEF Blob!spill_output
  <2>3. AttemptHolds(a, at)
    BY <1>3, <2>1 DEF AttemptHolds, Held
  <2>4. AttemptHolds(a, at)'
    BY <2>2, <2>3, StoreStays, AttemptStays
  <2> QED BY <1>7, <2>2, <2>4, StoreStays, BlobAttempt
<1>6. CASE ~(o.size <= threshold)
  <2>1. PICK at : at = [phase |-> "answers", output |-> Spilled(a[1])]
    OBVIOUS
  <2>2. PICK key : key = Blob!spill_key(a[1])
    OBVIOUS
  <2>3. spills' = [spills EXCEPT ![a] = at] /\ Blob!put(key, o)
    BY <1>1, <1>2, <1>4, <1>6, <2>1, <2>2, StoreAssumption DEF Blob!spill_output, Spilled
  <2>4. /\ DOMAIN objects' = DOMAIN objects \cup {key} /\ objects'[key] = o
        /\ \A k \in DOMAIN objects : k # key => objects'[k] = objects[k]
    BY <2>3, Puts
  <2>5. o \in Spills(a[1])
    <3>1. o.size > threshold
      BY <1>4, <1>6, StoreAssumption
    <3>2. a[1] \in Blob!Namesakes(a[1])
      BY <1>3 DEF Blob!Namesakes
    <3> QED BY <1>3, <3>1, <3>2 DEF Spills
  <2>6. HasSpill(a[1])'
    BY <1>3, <2>2, <2>4, <2>5, SameSpills DEF HasSpill
  <2>7. Written
    <3>1. ASSUME NEW s \in Blob!Slots, HasSpill(s) PROVE HasSpill(s)'
      <4>1. CASE Blob!spill_key(s) = key
        <5>1. Spills(s) = Spills(a[1])
          BY <1>3, <2>2, <4>1, OneKeyOneSpill
        <5> QED BY <2>4, <2>5, <4>1, <5>1, SameSpills DEF HasSpill
      <4>2. CASE Blob!spill_key(s) # key
        <5>1. Blob!spill_key(s) \in DOMAIN objects /\ objects[Blob!spill_key(s)] \in Spills(s)
          BY <3>1 DEF HasSpill
        <5> QED BY <2>4, <4>2, <5>1, SameSpills DEF HasSpill
      <4> QED BY <4>1, <4>2
    <3> QED BY <2>4, <3>1 DEF Written
  <2>8. \A k \in DOMAIN objects' : StoredOk(k)'
    BY <1>3, <2>2, <2>3, <2>5, PutsStored
  <2>9. (\A p \in input : Uploaded(p))'
    <3>1. ASSUME NEW b \in UploadedFiles, Blob!Untouched(b), IsStored(b) PROVE IsStored(b)'
      <4>1. Blob!upload_key(b) # key
        BY <1>3, <2>2, <3>1 DEF Blob!Untouched
      <4> QED BY <2>4, <3>1, <4>1 DEF IsStored
    <3>2. \A p : Uploaded(p) => Uploaded(p)'
      BY <3>1, UploadStays
    <3> QED BY <1>1, <3>2, BlobParts
  <2>10. AttemptHolds(a, at)'
    <3>1. Held(a[1], Spilled(a[1]))'
      BY <2>6 DEF Held, Spilled
    <3> QED BY <2>1, <3>1 DEF AttemptHolds
  <2> QED BY <1>1, <1>7, <2>3, <2>7, <2>8, <2>9, <2>10, BlobAttempt
<1> QED BY <1>5, <1>6

LEMMA BlobAccept ==
    ASSUME BlobInv, NEW a \in Blob!Acts, Blob!accept(a)
    PROVE  BlobInv'
<1>1. PICK o : o = spills[a].output
  OBVIOUS
<1>2. PICK t : t = a[1]
  OBVIOUS
<1>3. /\ accepted' = [accepted EXCEPT ![t] = {o}] /\ UNCHANGED <<objects, input, spills, reader>>
      /\ spills[a].phase = "answers" /\ t \in Blob!Slots
  BY <1>1, <1>2 DEF Blob!accept, Blob!Acts
<1>4. Held(t, o)
  BY <1>1, <1>2, <1>3, BlobParts DEF AttemptHolds
<1>5. Written /\ (\A k \in DOMAIN objects' : StoredOk(k)') /\ (\A p \in input : Uploaded(p))'
  BY <1>3, StoreStays
<1>6. /\ IsFunction(accepted', Blob!Slots) /\ accepted'[t] = {o}
      /\ \A s \in Blob!Slots : s # t => accepted'[s] = accepted[s]
  BY <1>3, BlobParts DEF IsFunction
<1>7. ASSUME NEW s \in Blob!Slots, NEW p \in accepted'[s] PROVE Held(s, p)'
  <2>1. Held(s, p)
    BY <1>4, <1>6, BlobParts
  <2> QED BY <1>5, <2>1, HeldStays
<1>8. IsFunction(accepted, Blob!Slots)' /\ IsFunction(spills, Blob!Acts)'
  BY <1>3, <1>6, BlobParts DEF IsFunction, Blob!Acts, Blob!Slots
<1>9. \A b \in Blob!Acts : AttemptHolds(b, spills[b])'
  BY <1>3, <1>5, AttemptsStay
<1>10. NothingYet'
  BY <1>3, BlobParts DEF NothingYet, Blob!Acts
<1> QED BY <1>3, <1>5, <1>7, <1>8, <1>9, <1>10, BlobParts, BlobStep

\* A step of the reader alone.
LEMMA BlobReads ==
    ASSUME BlobInv, UNCHANGED <<objects, input, spills, accepted>>,
           reader' \in Seq(Results), Len(reader') <= Len(StepInputs),
           \A i \in 1..Len(reader') : \E o \in Readable(StepInputs[i]) : reader'[i] = Blob!Ok(o)
    PROVE  BlobInv'
<1>1. Written /\ (\A k \in DOMAIN objects' : StoredOk(k)') /\ (\A p \in input : Uploaded(p))'
  BY StoreStays
<1>2. IsFunction(accepted, Blob!Slots)' /\ IsFunction(spills, Blob!Acts)'
  BY BlobParts DEF IsFunction, Blob!Acts, Blob!Slots
<1>3. \A b \in Blob!Acts : AttemptHolds(b, spills[b])'
  BY <1>1, AttemptsStay
<1>4. \A s \in Blob!Slots : \A o \in accepted'[s] : Held(s, o)'
  BY <1>1, BlobParts, HeldStays
<1>5. NothingYet'
  BY BlobParts DEF NothingYet, Blob!Acts, Blob!Slots
<1> QED BY <1>1, <1>2, <1>3, <1>4, <1>5, BlobStep

LEMMA BlobResolve ==
    ASSUME BlobInv, Blob!resolve_input
    PROVE  BlobInv'
<1>1. PICK i : i = Len(reader) + 1
  OBVIOUS
<1>2. /\ i \in 1..Len(StepInputs) /\ i - 1 = Len(reader) /\ Len(reader) \in Nat
      /\ UNCHANGED <<objects, input, spills, accepted>>
  BY <1>1, BlobParts, StoreAssumption DEF Blob!resolve_input
<1>3. PICK s : s = StepInputs[i]
  OBVIOUS
<1>4. s \in Blob!Slots /\ accepted[s] # {}
  BY <1>2, <1>3 DEF Blob!Slots, Blob!resolve_input
<1>5. PICK o : o = Blob!Only(accepted[s])
  OBVIOUS
<1>6. o \in accepted[s]
  BY <1>4, <1>5 DEF Blob!Only
<1>7. Held(s, o)
  BY <1>4, <1>6, BlobParts
<1>8. PICK c \in Readable(s) : Blob!resolve_output(o) = Blob!Ok(c)
  BY <1>4, <1>7, BlobParts, ResolvesHeld
<1>9. PICK r : r = Blob!Ok(c)
  OBVIOUS
<1>10. reader' = Append(reader, r) /\ r \in Results
  BY <1>1, <1>3, <1>4, <1>5, <1>8, <1>9 DEF Blob!resolve_input, Results
<1>11. /\ reader' \in Seq(Results) /\ Len(reader') = Len(reader) + 1 /\ reader'[i] = r
       /\ \A k \in 1..Len(reader) : reader'[k] = reader[k]
  BY <1>1, <1>2, <1>10, BlobParts
<1>12. ASSUME NEW k \in 1..Len(reader') PROVE \E p \in Readable(StepInputs[k]) : reader'[k] = Blob!Ok(p)
  <2>1. CASE k = i
    BY <1>3, <1>8, <1>9, <1>11, <2>1
  <2>2. CASE k # i
    <3>1. k \in 1..Len(reader) /\ reader'[k] = reader[k]
      BY <1>1, <1>2, <1>11, <2>2
    <3> QED BY <3>1, BlobParts
  <2> QED BY <2>1, <2>2
<1> QED BY <1>1, <1>2, <1>11, <1>12, BlobReads

LEMMA BlobRetry ==
    ASSUME BlobInv, Blob!retry_reader
    PROVE  BlobInv'
<1>1. reader' = <<>> /\ UNCHANGED <<objects, input, spills, accepted>>
  BY DEF Blob!retry_reader
<1>2. reader' \in Seq(Results) /\ Len(reader') = 0 /\ Len(StepInputs) \in Nat
  BY <1>1, StoreAssumption
<1> QED BY <1>1, <1>2, BlobReads

LEMMA BlobStutters ==
    ASSUME BlobInv, UNCHANGED blobs
    PROVE  BlobInv'
<1>1. UNCHANGED <<objects, input, spills, accepted>> /\ reader' = reader
  BY DEF blobs
<1> QED BY <1>1, BlobParts, BlobReads

LEMMA BlobKeeps ==
    ASSUME BlobInv, Blob!Next
    PROVE  BlobInv'
<1>1. ASSUME NEW b \in UploadedFiles, Blob!stage_upload(b) PROVE BlobInv'
  BY <1>1, BlobStageUpload
<1>2. ASSUME NEW a \in Blob!Acts, NEW size \in Blob!Sizes, Blob!execute(a, size) PROVE BlobInv'
  BY <1>2, BlobExecute
<1>3. ASSUME NEW a \in Blob!Acts, Blob!spill_output(a) PROVE BlobInv'
  BY <1>3, BlobSpill
<1>4. ASSUME NEW a \in Blob!Acts, Blob!accept(a) PROVE BlobInv'
  BY <1>4, BlobAccept
<1>5. CASE Blob!resolve_input
  BY <1>5, BlobResolve
<1>6. CASE Blob!retry_reader
  BY <1>6, BlobRetry
<1> QED BY <1>1, <1>2, <1>3, <1>4, <1>5, <1>6 DEF Blob!Next

LEMMA BlobSound == ASSUME BlobInv PROVE Blob!StoreWhole
<1>1. ASSUME NEW i \in 1..Len(reader)
      PROVE  /\ Blob!IsOk(reader[i])
             /\ \E s \in Blob!Namesakes(StepInputs[i]), n \in StepAttempts, size \in Blob!Sizes :
                  reader[i].ok = Blob!Output(<<s, n>>, size) /\ (s = StepInputs[i] \/ size > threshold)
  <2>1. PICK t : t = StepInputs[i]
    OBVIOUS
  <2>2. PICK o \in Readable(t) : reader[i] = Blob!Ok(o)
    BY <2>1, BlobParts
  <2>3. Blob!IsOk(reader[i]) /\ reader[i].ok = o
    BY <2>2 DEF Blob!IsOk, Blob!Ok
  <2>4. PICK s \in Blob!Namesakes(t) : o \in Computed(s) /\ (s = t \/ o.size > threshold)
    <3>1. Len(reader) \in Nat /\ Len(reader) <= Len(StepInputs) /\ Len(StepInputs) \in Nat
      BY BlobParts, StoreAssumption
    <3>2. t \in Blob!Namesakes(t)
      BY <2>1, <3>1 DEF Blob!Namesakes, Blob!Slots
    <3> QED BY <3>2 DEF Readable, Spills
  <2>5. PICK n \in StepAttempts : o = Blob!Output(<<s, n>>, o.size) /\ o.size \in Blob!Sizes
    BY <2>4, ComputedIs
  <2> QED BY <2>1, <2>3, <2>4, <2>5
<1>2. ASSUME NEW p \in input
      PROVE  \E b \in UploadedFiles :
               Blob!InputOf(p, b) /\ (p.kind = "bytes" \/ Blob!Untouched(b) => Blob!AsSent(Blob!resolve_output(p), b))
  <2>1. \A k \in DOMAIN objects : StoredOk(k)
    BY BlobParts
  <2>2. PICK b \in UploadedFiles : p = Inline(b) \/ (p = InStore(b) /\ (Blob!Untouched(b) => IsStored(b)))
    BY BlobParts DEF Uploaded
  <2>3. Blob!InputOf(p, b)
    BY <2>2 DEF Blob!InputOf, Inline, InStore
  <2>4. p = InStore(b) => p.kind # "bytes"
    BY DEF InStore, Blob!Staged
  <2>5. p.kind = "bytes" \/ Blob!Untouched(b) => Blob!AsSent(Blob!resolve_output(p), b)
    BY <2>1, <2>2, <2>4, ResolvesUpload
  <2> QED BY <2>3, <2>5
<1> QED BY <1>1, <1>2 DEF Blob!StoreWhole

----------------------------------------------------------------------------
(* The inductive invariant of whichever part runs.                         *)

IInv == /\ which \in {"submission", "connections", "index", "blobs"}
        /\ which = "submission" => SubInv
        /\ which = "connections" => ConInv
        /\ which = "index" => IdxInv
        /\ which = "blobs" => BlobInv

LEMMA SubStutters ==
    ASSUME SubInv, UNCHANGED submission
    PROVE  SubInv'
<1>1. /\ writes' = writes /\ jobs' \subseteq jobs
      /\ UNCHANGED <<req, pc, table, moved, items, ctx, route, status>>
  BY DEF submission
<1> QED BY <1>1, EndStep

LEMMA ConStutters ==
    ASSUME ConInv, UNCHANGED connections
    PROVE  ConInv'
BY ConUnchanged DEF connections

\* Where a job may write is decided by an invariant of the whole submission: the context
\* never mixes a tenant with the deployment's host and key, the route fits the path, and
\* a started job keeps both; of the connections: a row is its tenant's, its pair was
\* probed together, and the request that made it has ended; of the index: a task that
\* an attempt awaited is done for good, and a refusal of its documents stays one; and of
\* the blob store: what stands at the key of a slot was spilled by one that is called the
\* same, and the upload stays until a step spills over it (meili_context, submit_item,
\* create_connection, patch_connection, delete_connection, resolve_connection,
\* MeiliIndexerPlugin::execute, BlobStore::put).
THEOREM Invariance == SpecDestination => []IInv
<1>1. InitDestination => IInv
  BY SubInit, ConInit, IdxStart, BlobInit DEF InitDestination, IInv
<1>2. ASSUME IInv, [NextDestination]_<<which, submission, connections, indexer, blobs>> PROVE IInv'
  <2>1. CASE NextDestination
    <3>1. CASE which = "submission" /\ Sub!Next
      <4>1. SubInv' /\ which' = which
        BY <1>2, <2>1, <3>1, SubKeeps DEF IInv, NextDestination
      <4> QED BY <3>1, <4>1 DEF IInv
    <3>2. CASE which = "connections" /\ Con!Next
      <4>1. ConInv' /\ which' = which
        BY <1>2, <2>1, <3>2, ConKeeps DEF IInv, NextDestination
      <4> QED BY <3>2, <4>1 DEF IInv
    <3>3. CASE which = "index" /\ Idx!Next
      <4>1. IdxInv' /\ which' = which
        BY <1>2, <2>1, <3>3, IdxKeeps DEF IInv, NextDestination
      <4> QED BY <3>3, <4>1 DEF IInv
    <3>4. CASE which = "blobs" /\ Blob!Next
      <4>1. BlobInv' /\ which' = which
        BY <1>2, <2>1, <3>4, BlobKeeps DEF IInv, NextDestination
      <4> QED BY <3>4, <4>1 DEF IInv
    <3> QED BY <2>1, <3>1, <3>2, <3>3, <3>4 DEF NextDestination
  <2>2. CASE UNCHANGED <<which, submission, connections, indexer, blobs>>
    <3>1. which = "submission" => SubInv'
      BY <1>2, <2>2, SubStutters DEF IInv
    <3>2. which = "connections" => ConInv'
      BY <1>2, <2>2, ConStutters DEF IInv
    <3>3. which = "index" => IdxInv'
      BY <1>2, <2>2, IdxStutters DEF IInv
    <3>4. which = "blobs" => BlobInv'
      BY <1>2, <2>2, BlobStutters DEF IInv
    <3> QED BY <1>2, <2>2, <3>1, <3>2, <3>3, <3>4 DEF IInv
  <2> QED BY <1>2, <2>1, <2>2
<1> QED BY <1>1, <1>2, PTL DEF SpecDestination

\* For every request, pipeline table, archive and set of stored rows: a tenant's job
\* writes with the tenant's destination only, and to the locked index only when the path
\* names one; for every number of overlapping requests on connections: a worker uses a
\* pair that was stored for its own tenant, on a host that passed the policy; a stored
\* pair was proven unless requests overlapped; a deleted row stays gone (context.rs
\* resolve_request_context, ingest.rs submit_one, connections.rs patch_connection).
THEOREM DestinationsAreSound == SpecDestination => []DestinationSound
<1>1. IInv => DestinationSound
  BY SubSound, ConSound DEF IInv, DestinationSound
<1> QED BY <1>1, Invariance, PTL

\* For every request and pipeline table: an archive reaches a job whole only with a
\* pipeline whose trigger names its type, unless the table changed between the two
\* resolutions of one submission (ingest.rs archive_plan, submit_one).
THEOREM WholeArchivesAreNamed == SpecDestination => []WholeOnlyIfNamed
<1>1. IInv => WholeOnlyIfNamed
  BY SubSound DEF IInv, WholeOnlyIfNamed
<1> QED BY <1>1, Invariance, PTL

\* For every number of jobs, retries, documents, batch limits and slices of a wait, and
\* whatever is lost on the way: an index step that ended well has sent each document once,
\* in batches within both limits, and holds them all in the index when it waited; one that
\* failed for good on a task meets an index that refuses its documents, and never fails
\* because another job, or an attempt that was given up, was there first
\* (meili-indexer lib.rs plan_batches, wait_for_task, check_creation, execute).
THEOREM IndexedIsStored == SpecDestination => []IndexedMeansStored
<1>1. IInv => IndexedMeansStored
  BY IdxSound DEF IInv, IndexedMeansStored
<1> QED BY <1>1, Invariance, PTL

\* For every number of slots, attempts and uploads, and whatever the steps are called: a
\* later step reads, slot by slot in its order, what an attempt of that slot computed, or
\* of one that is called the same when it was spilled, also while attempts that were given
\* up still overwrite what a newer one stored; and the upload as it was sent, unless a step
\* spills over it or it poses as an output (BlobStore::spill_output, hydrate_output,
\* resolve_input, stage_upload).
THEOREM FilesAreWhole == SpecDestination => []FilesWhole
<1>1. IInv => FilesWhole
  BY BlobSound DEF IInv, FilesWhole
<1> QED BY <1>1, Invariance, PTL
=============================================================================
