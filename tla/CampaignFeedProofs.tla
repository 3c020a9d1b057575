------------------------- MODULE CampaignFeedProofs -------------------------
(***************************************************************************)
(* Proofs, for every page size and number of events, that a follower sees  *)
(* every event once and in order, and all of them when it ends.            *)
(*                                                                         *)
(* FeedInv is inductive.  GetCampaignEvents reads the row before the       *)
(* events; that this order is enough rests on FinalStays and               *)
(* LoopMeansOpen: once a final state was read nothing is recorded any      *)
(* more, so a page that is not full ends at the last event there will be.  *)
(***************************************************************************)
EXTENDS CampaignFeed, TLAPS

\* A page appended to the events shown so far continues their numbering.
LEMMA PageContinues ==
  ASSUME NEW m \in Nat, NEW n \in Nat
  PROVE  [i \in 1..m |-> i] \o [i \in 1..n |-> m + i] = [i \in 1..(m + n) |-> i]
OBVIOUS

\* The numbering of the events shown is a sequence of event numbers.
LEMMA NumberingIsASequence ==
  ASSUME NEW m \in Nat, NEW n \in Nat, m <= n
  PROVE  [i \in 1..m |-> i] \in Seq(1..n)
OBVIOUS

\* The campaign's own steps: the follower has seen no final state while they are possible.
LEMMA CampaignPreserves ==
  ASSUME FeedInv, StartRun \/ AppendEvent \/ FinishRun \/ CancelCampaign
  PROVE  FeedInv'
<1> USE DEF FeedInv, LoopMeansOpen, FinalStays
<1>1. UNCHANGED feedVars
  BY DEF StartRun, AppendEvent, FinishRun, CancelCampaign
<1>2. snap \notin {"completed", "failed"}
  BY DEF StartRun, AppendEvent, FinishRun, CancelCampaign, Lifecycle!Claim, Lifecycle!Finish,
         Lifecycle!Cancel
<1>3. log' = log \/ (log < MaxEvents /\ log' = log + 1)
  BY DEF StartRun, AppendEvent, FinishRun, CancelCampaign
<1>4. state' \in Lifecycle!State /\ looping' \in BOOLEAN /\ LoopMeansOpen'
  BY DEF TypeOK, StartRun, AppendEvent, FinishRun, CancelCampaign, Lifecycle!Claim,
         Lifecycle!Finish, Lifecycle!Cancel, Lifecycle!State
<1>5. TypeOK'
  BY <1>1, <1>3, <1>4, FeedAssumption DEF TypeOK, feedVars
<1> QED
  BY <1>1, <1>2, <1>4, <1>5 DEF feedVars, FollowedToTheEnd

\* An answer: what is rendered continues what was, and a page that is not full reaches the end.
LEMMA ReadEventsPreserves ==
  ASSUME FeedInv, ReadEvents
  PROVE  FeedInv'
<1> USE FeedAssumption DEF FeedInv
<1>1. /\ Rows \in Nat /\ Rows <= log - cursor
      /\ cursor \in Nat /\ log \in Nat /\ log <= MaxEvents
      /\ Rows # Page => cursor + Rows = log
  BY DEF TypeOK, Rows
<1>2. UNCHANGED <<state, looping, log, snap>> /\ cursor' = cursor + Rows
  BY DEF ReadEvents, LastSeq
<1>3. shown' = [i \in 1..cursor' |-> i]
  BY <1>1, <1>2, PageContinues DEF ReadEvents, FollowedToTheEnd
<1>4. cursor' \in 0..log' /\ cursor' \in Nat /\ cursor' <= MaxEvents
  BY <1>1, <1>2
<1>5. shown' \in Seq(1..MaxEvents)
  BY <1>3, <1>4, NumberingIsASequence
<1>6. follow' \in {"poll", "read", "wait", "ended"} /\ full' \in BOOLEAN
  BY DEF ReadEvents
<1>7. TypeOK'
  BY <1>2, <1>4, <1>5, <1>6 DEF TypeOK
<1>8. ~full' => cursor' = log'
  BY <1>1, <1>2 DEF ReadEvents
<1> QED
  BY <1>2, <1>3, <1>7, <1>8 DEF FollowedToTheEnd, LoopMeansOpen, FinalStays

\* The other steps of the follower show nothing; ReadRow takes the state of the row.
LEMMA FollowerPreserves ==
  ASSUME FeedInv, ReadRow \/ PollFails \/ Tick
  PROVE  FeedInv'
<1> USE DEF FeedInv
<1>1. /\ UNCHANGED <<state, looping, log, cursor, shown, full>>
      /\ snap' \in {snap, state} /\ follow' \in {"poll", "read", "wait"}
  BY DEF ReadRow, PollFails, Tick
<1>2. TypeOK'
  BY <1>1 DEF TypeOK
<1> QED
  BY <1>1, <1>2 DEF FollowedToTheEnd, LoopMeansOpen, FinalStays

-----------------------------------------------------------------------------
\* FeedInv is an invariant of the feed, whatever requests fail.
THEOREM FeedInvariance == Spec => []FeedInv
<1>1. Init => FeedInv
  <2> SUFFICES ASSUME Init PROVE FeedInv
    OBVIOUS
  <2>1. shown = [i \in 1..cursor |-> i]
    BY DEF Init
  <2>2. looping \in BOOLEAN /\ full \in BOOLEAN
    BY DEF Init
  <2>3. log \in 0..MaxEvents /\ cursor \in 0..log /\ shown \in Seq(1..MaxEvents)
    BY FeedAssumption DEF Init
  <2>4. TypeOK
    BY <2>2, <2>3 DEF Init, TypeOK, Lifecycle!State
  <2> QED
    BY <2>1, <2>4 DEF Init, FeedInv, LoopMeansOpen, FinalStays, FollowedToTheEnd
<1>2. FeedInv /\ [Next]_vars => FeedInv'
  <2> SUFFICES ASSUME FeedInv, [Next]_vars PROVE FeedInv'
    OBVIOUS
  <2>1. CASE StartRun \/ AppendEvent \/ FinishRun \/ CancelCampaign
    BY <2>1, CampaignPreserves
  <2>2. CASE ReadEvents
    BY <2>2, ReadEventsPreserves
  <2>3. CASE ReadRow \/ PollFails \/ Tick
    BY <2>3, FollowerPreserves
  <2>4. CASE UNCHANGED vars
    BY <2>4 DEF vars, FeedInv, TypeOK, LoopMeansOpen, FinalStays, FollowedToTheEnd
  <2> QED
    BY <2>1, <2>2, <2>3, <2>4 DEF Next
<1> QED
  BY <1>1, <1>2, PTL DEF Spec

\* GetCampaignEvents and followCampaign: events are shown once, in order and, when the follower
\* ends on a page that is not full, all of them.
THEOREM FollowersMissNothing == Spec => []FollowedToTheEnd
<1>1. FeedInv => FollowedToTheEnd
  BY DEF FeedInv
<1> QED
  BY <1>1, FeedInvariance, PTL
=============================================================================
