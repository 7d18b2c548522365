------------------------------ MODULE RecentAnswer ------------------------------
(***************************************************************************)
(* What a cache in front of the Lab promises, whatever it keeps and in     *)
(* whatever order the answers of the Lab arrive: a question is answered    *)
(* with something that was true less than Window before it was asked, or  *)
(* not at all.  LabCredits and AiTarget implement this specification.      *)
(***************************************************************************)
EXTENDS Integers

CONSTANTS Calls,      \* the requests that may be under way
          Subjects,   \* what is asked about: the Lab accounts
          Values,     \* what the Lab may say of a subject
          Window      \* how old an answer may be

VARIABLES now,        \* the clock
          truth,      \* what the Lab would say of each subject now
          lastTrue,   \* when each value was last the truth about a subject
          ask         \* per call: {}, or its question and what it was told

recent == <<now, truth, lastTrue, ask>>

\* "Never" in lastTrue: before any question's window.
Never == -Window

Init == /\ now = 0
        /\ truth \in [Subjects -> Values]
        /\ lastTrue = [s \in Subjects |-> [v \in Values |-> IF v = truth[s] THEN 0 ELSE Never]]
        /\ ask = [c \in Calls |-> {}]

Tick == /\ now' = now + 1
        /\ lastTrue' = [s \in Subjects |-> [lastTrue[s] EXCEPT ![truth[s]] = now']]
        /\ UNCHANGED <<truth, ask>>

Change(s, v) == /\ truth' = [truth EXCEPT ![s] = v]
                /\ lastTrue' = [lastTrue EXCEPT ![s][v] = now]
                /\ UNCHANGED <<now, ask>>

Ask(c, s) == /\ ask[c] = {}
             /\ ask' = [ask EXCEPT ![c] = {[of |-> s, at |-> now, says |-> {}]}]
             /\ UNCHANGED <<now, truth, lastTrue>>

\* The answer was the truth at some moment after the start of the question's window.
Answer(c, v) == \E q \in ask[c] :
                  /\ q.says = {} /\ lastTrue[q.of][v] > q.at - Window
                  /\ ask' = [ask EXCEPT ![c] = {[q EXCEPT !.says = {v}]}]
                  /\ UNCHANGED <<now, truth, lastTrue>>

\* The caller goes on, with its answer or without one.
Close(c) == /\ ask[c] # {}
            /\ ask' = [ask EXCEPT ![c] = {}]
            /\ UNCHANGED <<now, truth, lastTrue>>

Next == \/ Tick
        \/ \E s \in Subjects, v \in Values : Change(s, v)
        \/ \E c \in Calls : \/ \E s \in Subjects : Ask(c, s)
                            \/ \E v \in Values : Answer(c, v)
                            \/ Close(c)

Spec == Init /\ [][Next]_recent
=============================================================================
