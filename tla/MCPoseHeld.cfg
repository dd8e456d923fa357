CONSTANTS
  UserIds <- MCUserIds
  NeedPose = TRUE
  DT = 5
SPECIFICATION FairSpec
PROPERTY ReportedWhenHeld
