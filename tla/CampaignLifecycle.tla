------------------------- MODULE CampaignLifecycle -------------------------
(***************************************************************************)
(* What a client of the campaign API relies on: the states a campaign goes *)
(* through (internal/campaigns/campaign.go).  It is submitted once, claimed *)
(* once, ends once, and stays as it ended.  "none" is a campaign that has  *)
(* no row.                                                                 *)
(***************************************************************************)
VARIABLE state

State == {"none", "pending", "running", "completed", "failed", "cancelled"}

IsTerminal(s) == s \in {"completed", "failed", "cancelled"}

Init == state = "none"

Submit == state = "none" /\ state' = "pending"

Claim == state = "pending" /\ state' = "running"

Finish == state = "running" /\ state' \in {"completed", "failed"}

Cancel == state \in {"pending", "running"} /\ state' = "cancelled"

Next == Submit \/ Claim \/ Finish \/ Cancel

Spec == Init /\ [][Next]_state
=============================================================================
