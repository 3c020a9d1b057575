------------------------------ MODULE JobStates ------------------------------
(***************************************************************************)
(* The states of a benchmark job and the edges the code declares between   *)
(* them (internal/jobs/state.go).  "none" stands for a job that has no row *)
(* in public.jobs yet.                                                     *)
(***************************************************************************)

JobState == {"pending", "running", "collecting", "analyzing",
             "completed", "failed", "cancelled"}

\* validTransitions, as the set of its edges.
validTransitions ==
  {<<"pending", "running">>,
   <<"running", "collecting">>, <<"running", "failed">>, <<"running", "cancelled">>,
   <<"collecting", "analyzing">>, <<"collecting", "failed">>,
   <<"analyzing", "completed">>, <<"analyzing", "failed">>}

ValidTransition(from, to) == <<from, to>> \in validTransitions

IsTerminal(state) == state \in {"completed", "failed", "cancelled"}
=============================================================================
