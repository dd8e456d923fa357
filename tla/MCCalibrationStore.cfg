CONSTANTS
  UserIds <- MCUserIds
  HasPose = TRUE
SPECIFICATION Spec
INVARIANTS
  TypeOK
  Coherent
  NobodyForgotten
