---------------------------- MODULE CampaignFeed ----------------------------
(***************************************************************************)
(* A campaign's progress as a client follows it: the events the agent      *)
(* loop records (Store.AppendEvent), GET /v1/campaigns/{id}/events, which  *)
(* reads the row first and a page of events after it, and followCampaign,  *)
(* which polls with a cursor until an answer says the campaign is done.    *)
(*                                                                         *)
(* The row moves as module CampaignLifecycle says, which module Campaigns  *)
(* is shown to implement.  An event is its sequence number.                *)
(***************************************************************************)
EXTENDS Naturals, Sequences

CONSTANTS
  Page,        \* events in one answer: the handler's default limit
  MaxEvents    \* bound: events of a campaign

ASSUME FeedAssumption == Page \in Nat \ {0} /\ MaxEvents \in Nat

VARIABLES
  state,      \* state of the row in public.campaigns
  looping,    \* the agent loop is running and may record events
  log,        \* highest seq in campaign_events: its rows are 1..log
  follow,     \* where followCampaign is
  snap,       \* the state GetCampaignEvents has read for the current answer
  cursor,     \* afterSeq
  shown,      \* the events rendered so far
  full        \* the last page was a full one (history)

vars == <<state, looping, log, follow, snap, cursor, shown, full>>

Lifecycle == INSTANCE CampaignLifecycle

TypeOK ==
  /\ state \in Lifecycle!State /\ snap \in Lifecycle!State
  /\ looping \in BOOLEAN /\ full \in BOOLEAN
  /\ log \in 0..MaxEvents
  /\ follow \in {"poll", "read", "wait", "ended"}
  /\ cursor \in 0..log
  /\ shown \in Seq(1..MaxEvents)

\* The campaign has been created; its client follows it from the start.
Init ==
  /\ state = "pending" /\ snap = "pending"
  /\ looping = FALSE
  /\ log = 0
  /\ follow = "poll" /\ cursor = 0 /\ shown = << >> /\ full = FALSE

-----------------------------------------------------------------------------
(* The campaign.                                                           *)

feedVars == <<follow, snap, cursor, shown, full>>

StartRun ==
  /\ Lifecycle!Claim /\ looping' = TRUE
  /\ UNCHANGED <<log, feedVars>>

\* AppendEvent numbers the event in the INSERT.  An event that cannot be stored is
\* dropped and leaves no gap.
AppendEvent ==
  /\ looping /\ log < MaxEvents
  /\ log' = log + 1
  /\ UNCHANGED <<state, looping, feedVars>>

\* Mutant: the outcome is stored before the loop has recorded its last events.
FinishRunEarly ==
  /\ looping
  /\ Lifecycle!Finish \/ (state = "cancelled" /\ UNCHANGED state)
  /\ UNCHANGED <<looping, log, feedVars>>

\* Run has returned, and Complete or Fail stores the outcome.
FinishRun ==
  /\ looping /\ looping' = FALSE
  /\ Lifecycle!Finish \/ (state = "cancelled" /\ UNCHANGED state)
  /\ UNCHANGED <<log, feedVars>>

\* The loop goes on: it looks at the row before a benchmark only.
CancelCampaign ==
  /\ Lifecycle!Cancel
  /\ UNCHANGED <<looping, log, feedVars>>

-----------------------------------------------------------------------------
(* The follower, and the handler that answers it.                          *)

\* GetCampaignEvents reads the row.
ReadRow ==
  /\ follow = "poll"
  /\ follow' = "read" /\ snap' = state
  /\ UNCHANGED <<state, looping, log, cursor, shown, full>>

\* Events: the rows after the cursor, at most a page of them.
Rows == IF log - cursor < Page THEN log - cursor ELSE Page

\* last_seq
LastSeq == cursor + Rows

\* Mutant: only success ends a campaign.
IsDoneCompleted == snap = "completed"

\* done
IsDone == Lifecycle!IsTerminal(snap)

\* GetCampaignEvents reads the events and answers; followCampaign renders them, moves its
\* cursor and ends if the answer says so.
ReadEvents ==
  /\ follow = "read"
  /\ shown' = shown \o [i \in 1..Rows |-> cursor + i]
  /\ cursor' = LastSeq
  /\ full' = (Rows = Page)
  /\ follow' = IF IsDone THEN "ended" ELSE "wait"
  /\ UNCHANGED <<state, looping, log, snap>>

\* A read or the request fails, or the answer is lost: the cursor stays.
PollFails ==
  /\ follow \in {"poll", "read"}
  /\ follow' = "wait"
  /\ UNCHANGED <<state, looping, log, snap, cursor, shown, full>>

Tick ==
  /\ follow = "wait"
  /\ follow' = "poll"
  /\ UNCHANGED <<state, looping, log, snap, cursor, shown, full>>

-----------------------------------------------------------------------------
Next ==
  \/ StartRun \/ AppendEvent \/ FinishRun \/ CancelCampaign
  \/ ReadRow \/ ReadEvents \/ PollFails \/ Tick

Spec == Init /\ [][Next]_vars

\* Campaigns are run and end (Campaigns, CampaignEnds), the ticker ticks, and requests
\* that are repeated for ever do not fail for ever.
Fairness ==
  /\ WF_vars(StartRun) /\ WF_vars(FinishRun)
  /\ WF_vars(Tick) /\ SF_vars(ReadRow) /\ SF_vars(ReadEvents)

FairSpec == Spec /\ Fairness

-----------------------------------------------------------------------------
\* A client sees the events in order, each once and none left out, whatever requests fail in
\* between; and followCampaign has seen all of them when it ends on a campaign that completed
\* or failed, although the row and the events are read one after the other: the row is read
\* first, and the loop has recorded its last event before the row is final.  (The final page
\* must not be a full one.)
FollowedToTheEnd ==
  /\ shown = [i \in 1..cursor |-> i]
  /\ follow = "ended" /\ snap \in {"completed", "failed"} /\ ~full => cursor = log

\* followCampaign ends once the campaign has.
FollowEnds == <>(follow = "ended")

-----------------------------------------------------------------------------
(* The inductive invariant behind the theorems of CampaignFeedProofs.      *)

\* The loop runs on a row that is not final, unless it was cancelled.
LoopMeansOpen == looping => state \in {"running", "cancelled"}

\* A final state that was read is still the state of the row.
FinalStays == snap \in {"completed", "failed"} => state = snap

FeedInv == TypeOK /\ LoopMeansOpen /\ FinalStays /\ FollowedToTheEnd
=============================================================================
