---------------------------- MODULE PoseTracking ----------------------------
(***************************************************************************)
(* AbstractUserDetector.cpp and FrontPoseDetector.cpp: whom the detector   *)
(* tracks and when it reports the pose "front".  All of it runs on the     *)
(* main thread: OpenNI's callbacks inside WaitAndUpdateAll(), then         *)
(* detect() at the end of updateData().  UserDetector shares the callbacks *)
(* and broadcasts each of them.                                            *)
(*                                                                         *)
(* The reports are the changes of posing: detectPose() when it becomes     *)
(* TRUE, lostPose() when it becomes FALSE.                                 *)
(***************************************************************************)
EXTENDS Naturals

CONSTANTS
  UserIds,   \* the XnUserIDs OpenNI hands out: never 0
  NeedPose,  \* NeedPoseForCalibration(): the member pose is not NULL
  DT         \* how many frames a pose must outlast

ASSUME PoseTrackingAssumption ==
  UserIds \subseteq Nat \ {0} /\ NeedPose \in BOOLEAN /\ DT \in Nat

VARIABLES
  users,          \* external: the user generator's users
  skeleton,       \* external: what its capabilities do for a user
  front,          \* external: the tracked user's arms in the frame
  mainPc,         \* in "WaitAndUpdateAll", or about to "detect"
  tracking, tracking_user,
  posingTime, posing,
  held            \* history: for how many frames on end the pose was held

generator == <<users, skeleton, front>>
detector == <<tracking, tracking_user, posingTime, posing>>
vars == <<generator, detector, mainPc, held>>

\* Both counts only ever meet the test "> DT": they stop above it.
Count(n) == IF n > DT THEN n ELSE n + 1

-----------------------------------------------------------------------------
(* The callbacks.                                                          *)

\* startCalibration: with the pose first, or at once.
StartCalibration(u) ==
  skeleton' =
    [skeleton EXCEPT ![u] = IF NeedPose THEN "pose" ELSE "calibrating"]

OnNewUser(u) ==
  /\ mainPc = "WaitAndUpdateAll" /\ u \notin users
  /\ users' = users \cup {u}
  /\ StartCalibration(u)
  /\ UNCHANGED <<front, detector, mainPc, held>>

\* A slip: the id forgotten, the flag kept.
OnLostUserKeepsTracking(u) ==
  /\ mainPc = "WaitAndUpdateAll" /\ u \in users
  /\ users' = users \ {u} /\ skeleton' = [skeleton EXCEPT ![u] = "none"]
  /\ tracking_user' = IF u = tracking_user THEN 0 ELSE tracking_user
  /\ UNCHANGED <<front, tracking, posingTime, posing, mainPc, held>>

\* The user's skeleton goes with it.
OnLostUser(u) ==
  /\ mainPc = "WaitAndUpdateAll" /\ u \in users
  /\ users' = users \ {u} /\ skeleton' = [skeleton EXCEPT ![u] = "none"]
  /\ IF u = tracking_user
       THEN tracking_user' = 0 /\ tracking' = FALSE
       ELSE UNCHANGED <<tracking_user, tracking>>
  /\ UNCHANGED <<front, posingTime, posing, mainPc, held>>

OnPoseStart(u) ==
  /\ mainPc = "WaitAndUpdateAll" /\ skeleton[u] = "pose"
  /\ skeleton' = [skeleton EXCEPT ![u] = "calibrating"]
  /\ UNCHANGED <<users, front, detector, mainPc, held>>

\* onCalibrationEnd with success: the last one calibrated is the one tracked.
OnCalibrationSuccess(u) ==
  /\ mainPc = "WaitAndUpdateAll" /\ skeleton[u] = "calibrating"
  /\ skeleton' = [skeleton EXCEPT ![u] = "tracking"]
  /\ tracking' = TRUE /\ tracking_user' = u
  /\ UNCHANGED <<users, front, posingTime, posing, mainPc, held>>

\* A slip: a failed calibration is not tried again.
OnCalibrationFailureStops(u) ==
  /\ mainPc = "WaitAndUpdateAll" /\ skeleton[u] = "calibrating"
  /\ skeleton' = [skeleton EXCEPT ![u] = "none"]
  /\ UNCHANGED <<users, front, detector, mainPc, held>>

OnCalibrationFailure(u) ==
  /\ mainPc = "WaitAndUpdateAll" /\ skeleton[u] = "calibrating"
  /\ StartCalibration(u)
  /\ UNCHANGED <<users, front, detector, mainPc, held>>

Callback ==
  \E u \in UserIds :
    \/ OnNewUser(u) \/ OnLostUser(u) \/ OnPoseStart(u)
    \/ OnCalibrationSuccess(u) \/ OnCalibrationFailure(u)

-----------------------------------------------------------------------------
(* The frame.                                                              *)

\* WaitAndUpdateAll() returns.
WaitAndUpdateAll ==
  /\ mainPc = "WaitAndUpdateAll"
  /\ mainPc' = "detect"
  /\ front' \in BOOLEAN
  /\ UNCHANGED <<users, skeleton, detector, held>>

\* Slips: the time runs down instead of starting again; the flag stays up
\* after lostPose().
DetectRunsDown ==
  /\ mainPc = "detect"
  /\ IF tracking /\ front
       THEN /\ posingTime' = Count(posingTime) /\ held' = Count(held)
            /\ posing' = (posing \/ posingTime' > DT)
       ELSE /\ held' = 0
            /\ IF tracking THEN posingTime' = posingTime - 1 /\ posing' = FALSE
                           ELSE UNCHANGED <<posingTime, posing>>
  /\ mainPc' = "WaitAndUpdateAll"
  /\ UNCHANGED <<generator, tracking, tracking_user>>

DetectKeepsPosing ==
  /\ mainPc = "detect"
  /\ IF tracking /\ front
       THEN /\ posingTime' = Count(posingTime) /\ held' = Count(held)
            /\ posing' = (posing \/ posingTime' > DT)
       ELSE /\ posingTime' = (IF tracking /\ posing THEN 0 ELSE posingTime)
            /\ held' = 0 /\ UNCHANGED posing
  /\ mainPc' = "WaitAndUpdateAll"
  /\ UNCHANGED <<generator, tracking, tracking_user>>

\* detect(): calcPose() says "front" if the joints are sure and the arms
\* forward.
Detect ==
  /\ mainPc = "detect"
  /\ IF tracking /\ front
       THEN /\ posingTime' = Count(posingTime) /\ held' = Count(held)
            /\ posing' = (posing \/ posingTime' > DT)
       ELSE /\ held' = 0
            /\ IF tracking /\ posing THEN posingTime' = 0 /\ posing' = FALSE
                                     ELSE UNCHANGED <<posingTime, posing>>
  /\ mainPc' = "WaitAndUpdateAll"
  /\ UNCHANGED <<generator, tracking, tracking_user>>

-----------------------------------------------------------------------------

Init ==
  /\ users = {} /\ skeleton = [u \in UserIds |-> "none"] /\ front = FALSE
  /\ mainPc = "WaitAndUpdateAll"
  /\ tracking = FALSE /\ tracking_user = 0
  /\ posingTime = 0 /\ posing = FALSE /\ held = 0

Next == Callback \/ WaitAndUpdateAll \/ Detect

Spec == Init /\ [][Next]_vars

\* main.cpp's loop: WaitAndUpdateAll() returns with every frame, and
\* updateData() comes to its end.
FairSpec == Spec /\ WF_vars(WaitAndUpdateAll) /\ WF_vars(Detect)

-----------------------------------------------------------------------------

\* The types of the members.
TypeOK ==
  /\ users \subseteq UserIds
  /\ skeleton \in [UserIds -> {"none", "pose", "calibrating", "tracking"}]
  /\ front \in BOOLEAN /\ mainPc \in {"WaitAndUpdateAll", "detect"}
  /\ tracking \in BOOLEAN /\ tracking_user \in UserIds \cup {0}
  /\ posingTime \in 0 .. DT + 1 /\ posing \in BOOLEAN /\ held \in 0 .. DT + 1

\* detect() asks OpenNI for the joints of a user that is in view and has a
\* skeleton, whatever callbacks came before it, for whichever users.
TrackedPresent ==
  IF tracking
    THEN tracking_user \in users /\ skeleton[tracking_user] = "tracking"
    ELSE tracking_user = 0

\* Every user in view is on its way to a skeleton or has one: no sequence of
\* poses and failed calibrations leaves it behind.
NobodyForgotten == \A u \in UserIds : u \in users <=> skeleton[u] # "none"

\* A tracked user that keeps the pose is reported for good, one that keeps
\* away from it is not.
PoseFollowed ==
  /\ <>[](tracking /\ front) => <>[]posing
  /\ <>[](tracking /\ ~front) => <>[]~posing

\* FrontPoseDetector.cpp:22: the pose is reported when it has gone on for the
\* prescribed time.
ReportedWhenHeld == [][~posing /\ posing' => held' > DT]_vars
=============================================================================
