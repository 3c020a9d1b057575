----------------------------- MODULE MCLocalRun -----------------------------
(***************************************************************************)
(* The instance of LocalRun for TLC.                                       *)
(***************************************************************************)
EXTENDS LocalRun

CONSTANTS c1, t1, t2

MCFlag ==
  [kind : {"run", "agent"}, keepWorker : {FALSE}, apiKey : {NoKey}]
    \cup {[kind |-> "detach", keepWorker |-> TRUE, apiKey |-> NoKey],
          [kind |-> "run", keepWorker |-> FALSE, apiKey |-> t1]}
=============================================================================
