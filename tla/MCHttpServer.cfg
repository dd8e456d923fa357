CONSTANTS
  UserIds <- MCUserIds
  MaxUserNum = 2
  MaxUsersNum = 1
  MaxScene = 1
  NumJoints = 1
  FrameTags = 2
  HttpRequests <- MCHttpRequests
SPECIFICATION FairSpec
INVARIANTS
  LocksOneAtATime
  CachesAgree
PROPERTIES
  RequestAnswered
  UnrelatedAnswered
  UpdateReturns
\* A getter by id can leak DetectedUsers' mutex and stop both threads.
CHECK_DEADLOCK FALSE
