----------------------------- MODULE MCProfiler -----------------------------
(***************************************************************************)
(* Two callers.  Either they run two pipelines that allocate nothing, and  *)
(* the list is what is at stake, or they run one pipeline, and its         *)
(* counters are.                                                           *)
(***************************************************************************)
EXTENDS Profiler, TLC

CONSTANTS blur, sharpen
MCnum_funcs == blur :> 1 @@ sharpen :> 2
MCWorkloads == {[names |-> {blur, sharpen}, sizes |-> {}],
                [names |-> {blur}, sizes |-> {1, 2}]}
=============================================================================
