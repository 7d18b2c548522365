--------------------------- MODULE MCPipelineJob ----------------------------
(***************************************************************************)
(* The diamond of dag.rs's own tests, a -> {b, c} -> d, with c fanned out    *)
(* and d also reading a's output, so that it waits for two earlier waves.    *)
(***************************************************************************)
EXTENDS PipelineJob

CONSTANTS a, b, c, d

MCStep   == {a, b, c, d}
MCOrder  == <<a, b, c, d>>
MCDeps   == [s \in MCStep |-> CASE s = a -> {} [] s = b -> {a}
                                [] s = c -> {a} [] s = d -> {a, b, c}]
MCFanOut == {c}
=============================================================================
