CONSTANTS
  UserIds <- MCUserIds
  WatchedIds <- MCWatchedIds
  HandIds <- MCHandIds
  NeedPose = TRUE
  DT = 5
SPECIFICATION ReportSpec
INVARIANTS
  TypeOK
  TrackedPresent
  NobodyForgotten
  ReportsFollowed
PROPERTY PoseFollowed
