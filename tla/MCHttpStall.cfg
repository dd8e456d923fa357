CONSTANTS
  UserIds <- MCUserIds
  MaxUserNum = 2
  MaxUsersNum = 1
  MaxScene = 1
  NumJoints = 1
  FrameTags = 2
  HttpRequests <- MCHttpRequests
SPECIFICATION FairSpec
PROPERTY UpdateDataKeepsRunning
CHECK_DEADLOCK FALSE
