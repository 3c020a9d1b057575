------------------------------ MODULE MCDrift ------------------------------
(***************************************************************************)
(* An instance of Drift for TLC.  A bad result has a worse tail latency    *)
(* (a warning) and much less throughput (critical, also when some of the   *)
(* results are good).                                                      *)
(***************************************************************************)
EXTENDS Drift

Good == [ttft_p50 |-> 50, ttft_p99 |-> 100, tok_per_sec |-> 100, gpu_mem |-> 0]
Bad  == [ttft_p50 |-> 50, ttft_p99 |-> 118, tok_per_sec |-> 60,  gpu_mem |-> 8]

MCLevel == {"good", "bad"}
MCValue == [l \in MCLevel |-> IF l = "good" THEN Good ELSE Bad]
=============================================================================
