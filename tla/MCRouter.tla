------------------------------ MODULE MCRouter ------------------------------
(***************************************************************************)
(* An instance of Router for TLC: two engines on one profile, a worker on  *)
(* another.                                                                *)
(***************************************************************************)
EXTENDS Router

MCWorker   == {"v", "s", "x"}
MCGPUType  == [w \in MCWorker |-> IF w = "x" THEN "cpu" ELSE "gpu"]
MCEngineOf == [w \in MCWorker |-> IF w = "s" THEN "sglang" ELSE "vllm"]
=============================================================================
