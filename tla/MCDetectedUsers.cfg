CONSTANTS
  UserIds <- MCUserIds
  MaxUsersNum = 2
  MaxScene = 3
  FrameTags = 2
  AfterUpdate = "wait"
SPECIFICATION Spec
INVARIANTS
  TypeOK
  WholeFrame
  MirrorsScene
  CenterPointsSnapshot
  ByIdData
  UserIdsReal
PROPERTY LeakFreezes
\* getDepthById throws with the mutex held: both threads can end up waiting
\* for it.
CHECK_DEADLOCK FALSE
