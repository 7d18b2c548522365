------------------------------ MODULE MCCaches ------------------------------
(***************************************************************************)
(* Caches on small instances.  Two AI steps overlap in the first ticks     *)
(* only, through any replicas in the first and through one after it; a     *)
(* step that runs alone sees the windows of a target open and close.       *)
(***************************************************************************)
EXTENDS Caches, FiniteSets, TLC

CONSTANT MaxOverlap  \* bound: the last tick at which two AI steps are under way

\* The steps that are not waiting for their first attempt, and the replicas in use.
UnderWay == {s \in Steps : step[s] # Ai!NewStep(1)}
InUse == UNION {step[s].rep : s \in Steps} \cup {r \in Replicas : targets[r] # {}}

MCNext == Next /\ (Cardinality(UnderWay') > 1
                     => nowA' = 0 \/ (nowA' <= MaxOverlap /\ Cardinality(InUse') <= 1))
MCSpec == Init /\ [][MCNext]_vars

\* Nothing tells one step, replica or reader from another.
Symmetry == {s @@ r @@ q : s \in Permutations(Steps), r \in Permutations(Replicas), q \in Permutations(Readers)}
=============================================================================
