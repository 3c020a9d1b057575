SPECIFICATION FairSpec
CONSTANTS
  Page = 2
  MaxEvents = 5
INVARIANTS FollowedToTheEnd
PROPERTIES FollowEnds
CHECK_DEADLOCK FALSE
