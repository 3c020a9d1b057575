--------------------------- MODULE InferencePhases ---------------------------
(***************************************************************************)
(* What a user may see happen to the status of an OptimizedInference:      *)
(* the phases and the benchmark job recorded with them.                    *)
(*                                                                         *)
(* The phases are the ones Reconcile writes.  The comment on the type,     *)
(* k8s/crds/optimized_inference_types.go:33, says otherwise: "Phase moves  *)
(* through Pending, Benchmarking, Deploying, Ready and Failed".  No code   *)
(* writes Benchmarking or Ready; what they seem to mean is Optimizing and  *)
(* Running here.                                                           *)
(***************************************************************************)
EXTENDS Naturals

VARIABLES phase, job      \* job = 0: status.benchmarkJobID is empty

seen == <<phase, job>>

Phase == {"", "Pending", "Optimizing", "Deploying", "Running", "Failed"}

Init == phase = "" /\ job = 0

Accept == phase = "" /\ phase' = "Pending" /\ UNCHANGED job

\* A benchmark is submitted whatever the resource is doing, until one has an id.
Submit == /\ phase # "" /\ job = 0
          /\ phase' = "Optimizing" /\ job' \in Nat

SubmitFails == phase # "" /\ job = 0 /\ phase' = "Failed" /\ UNCHANGED job

BenchmarkEnds == /\ phase = "Optimizing"
                 /\ phase' \in {"Deploying", "Failed"} /\ UNCHANGED job

Deploy == /\ phase \in {"Pending", "Deploying"}
          /\ phase' \in {"Running", "Failed"} /\ UNCHANGED job

Next == Accept \/ Submit \/ SubmitFails \/ BenchmarkEnds \/ Deploy

Spec == Init /\ [][Next]_seen
=============================================================================
