------------------------------ MODULE MCJobRow ------------------------------
(***************************************************************************)
(* Two polling clients, one step besides "none", and two attempts of          *)
(* record_job_started (three in the code: a third adds a second stray patch,  *)
(* which writes what the first one wrote).                                    *)
(***************************************************************************)
EXTENDS JobRow

CONSTANTS s1, r1, r2

MCStep == {s1}
MCReader == {r1, r2}
=============================================================================
