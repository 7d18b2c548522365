---------------------------- MODULE MCLabOutbox -----------------------------
(***************************************************************************)
(* Two replicas and two events, one of them posted by a worker that is not   *)
(* upgraded yet.                                                             *)
(***************************************************************************)
EXTENDS LabOutbox, TLC

CONSTANTS e1, e2, s1, s2

MCEvent  == {e1, e2}
MCSender == {s1, s2}
SenderSymmetry == Permutations(MCSender)
OneSender == {s1}
OneLegacy == {e1}
=============================================================================
