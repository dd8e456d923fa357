CONSTANTS
  UserIds <- MCUserIds
  HasPose = TRUE
SPECIFICATION Spec
PROPERTY LoadedForNewUser
