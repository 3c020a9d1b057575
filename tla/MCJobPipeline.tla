---------------------------- MODULE MCJobPipeline ----------------------------
(* Small instances of JobPipeline: one GPU profile, and worker processes    *)
(* that all serve at the same address, one after the other, or each at its  *)
(* own.                                                                     *)
EXTENDS JobPipeline, TLC

SameGPU == [w \in WorkerID |-> "h100"]
AskGPU == [j \in Job |-> "h100"]
OneURL == [w \in WorkerID |-> "u"]
OwnURL == [w \in WorkerID |-> w]

JobSymmetry == Permutations(Job)
WorkerSymmetry == Permutations(WorkerID)
=============================================================================
