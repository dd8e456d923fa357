-------------------------- MODULE CalibrationStore --------------------------
(***************************************************************************)
(* The callbacks of KinectHttpServer.cpp: how a user in view comes by a    *)
(* skeleton, by calibration or from the file UserCalibration.bin.  They    *)
(* run on the main thread, one at a time, inside WaitAndUpdateAll(); the   *)
(* users they start tracking are those CalibratedUsers publishes.          *)
(***************************************************************************)
EXTENDS Naturals

CONSTANTS
  UserIds,   \* the XnUserIDs OpenNI hands out
  HasPose    \* pose[0] is not '\0'

ASSUME CalibrationStoreAssumption == HasPose \in BOOLEAN

VARIABLES
  \* The user generator and its capabilities, external:
  users,       \* GetUsers
  detecting,   \* between StartPoseDetection and StopPoseDetection
  calibrating, \* IsCalibrating
  calibrated,  \* IsCalibrated
  tracked,     \* IsTracking
  \* UserCalibration.bin, external: it outlives the program.
  file         \* holds a calibration

capabilities == <<detecting, calibrating, calibrated, tracked>>
vars == <<users, capabilities, file>>

-----------------------------------------------------------------------------

\* Slips: the loop runs past nUsers; the detection goes on.
LoadCalibrationBeyond(listed) ==
  \E u \in UserIds \ (calibrated \cup calibrating) :
    /\ calibrated' = calibrated \cup {u} /\ tracked' = tracked \cup {u}
    /\ detecting' = detecting \ {u}
    /\ UNCHANGED calibrating

LoadCalibrationDetecting(listed) ==
  \E u \in listed \ (calibrated \cup calibrating) :
    /\ calibrated' = calibrated \cup {u} /\ tracked' = tracked \cup {u}
    /\ UNCHANGED <<detecting, calibrating>>

\* LoadCalibration gives the file to the first user GetUsers lists that has
\* no calibration and is in none; it need not be the one that just came, and
\* there always is such a user.
LoadCalibration(listed) ==
  \E u \in listed \ (calibrated \cup calibrating) :
    /\ calibrated' = calibrated \cup {u} /\ tracked' = tracked \cup {u}
    /\ detecting' = detecting \ {u}
    /\ UNCHANGED calibrating

StartPoseDetection(u) ==
  /\ detecting' = detecting \cup {u}
  /\ UNCHANGED <<calibrating, calibrated, tracked>>

\* Without a pose calibration starts at once.
RequestCalibration(u) ==
  /\ calibrating' = calibrating \cup {u} /\ detecting' = detecting \ {u}
  /\ UNCHANGED <<calibrated, tracked>>

\* Without a file, or when OpenNI refuses it, the newcomer is calibrated.
User_NewUser(u) ==
  /\ u \notin users
  /\ users' = users \cup {u}
  /\ \/ file /\ LoadCalibration(users \cup {u})
     \/ IF HasPose THEN StartPoseDetection(u) ELSE RequestCalibration(u)
  /\ UNCHANGED file

\* It only prints; the generator forgets the user.
User_LostUser(u) ==
  /\ u \in users
  /\ users' = users \ {u}
  /\ detecting' = detecting \ {u} /\ calibrating' = calibrating \ {u}
  /\ calibrated' = calibrated \ {u} /\ tracked' = tracked \ {u}
  /\ UNCHANGED file

Pose_Detected(u) ==
  /\ u \in detecting
  /\ RequestCalibration(u)
  /\ UNCHANGED <<users, file>>

\* A slip: StartTracking forgotten.
Calibration_EndUntracked(u) ==
  /\ u \in calibrating
  /\ calibrating' = calibrating \ {u}
  /\ calibrated' = calibrated \cup {u}
  /\ file' = TRUE
  /\ UNCHANGED <<users, detecting, tracked>>

\* Calibration_End with success: SaveCalibration writes the first calibrated
\* user's data, and there is one.
Calibration_End(u) ==
  /\ u \in calibrating
  /\ calibrating' = calibrating \ {u}
  /\ calibrated' = calibrated \cup {u} /\ tracked' = tracked \cup {u}
  /\ file' = TRUE
  /\ UNCHANGED <<users, detecting>>

\* A slip: no new attempt.
Calibration_FailureStops(u) ==
  /\ u \in calibrating
  /\ calibrating' = calibrating \ {u}
  /\ UNCHANGED <<users, detecting, calibrated, tracked, file>>

Calibration_Failure(u) ==
  /\ u \in calibrating
  /\ calibrating' = calibrating \ {u} /\ detecting' = detecting \cup {u}
  /\ UNCHANGED <<users, calibrated, tracked, file>>

-----------------------------------------------------------------------------

\* The program starts with or without a file of an earlier run.
Init ==
  /\ users = {} /\ file \in BOOLEAN
  /\ detecting = {} /\ calibrating = {} /\ calibrated = {} /\ tracked = {}

Next ==
  \E u \in UserIds :
    \/ User_NewUser(u) \/ User_LostUser(u) \/ Pose_Detected(u)
    \/ Calibration_End(u) \/ Calibration_Failure(u)

Spec == Init /\ [][Next]_vars

-----------------------------------------------------------------------------

\* OpenNI is only asked about users in view.
TypeOK ==
  /\ users \subseteq UserIds
  /\ detecting \subseteq users /\ calibrating \subseteq users
  /\ calibrated \subseteq users /\ tracked \subseteq users
  /\ file \in BOOLEAN

\* "Make sure state is coherent" (KinectHttpServer.cpp:91): a calibrated user
\* is tracked, and is neither waited for in the pose nor calibrated again,
\* whoever the file was loaded for.
Coherent ==
  /\ calibrated = tracked
  /\ detecting \cap (calibrating \cup calibrated) = {}
  /\ calibrating \cap calibrated = {}

\* As long as nothing was ever saved, no order of poses, failures and
\* departures leaves a user in view without a way to a skeleton.
NobodyForgotten ==
  ~file => users = detecting \cup calibrating \cup tracked

\* KinectHttpServer.h:62: a user that comes when there is a file is loaded
\* from it and needs no calibration; at least, when the file is loaded for
\* somebody because this user came, it is for this user.
LoadedForNewUser ==
  [][\A u \in UserIds :
       u \in users' \ users /\ tracked' # tracked => u \in tracked']_vars
=============================================================================
