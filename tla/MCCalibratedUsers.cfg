CONSTANTS
  UserIds <- MCUserIds
  MaxUserNum = 3
  MaxScene = 2
  NumJoints = 2
  FrameTags = 2
  AfterUpdate = "wait"
SPECIFICATION Spec
INVARIANTS
  WholeSkeletons
  MirrorsTracked
  SkeletonSnapshot
  IdsDistinct
PROPERTIES
  AbsenceHonest
