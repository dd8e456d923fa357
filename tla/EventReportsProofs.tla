------------------------- MODULE EventReportsProofs -------------------------
(***************************************************************************)
(* What PoseTracking promises, for every set of users, with or without a   *)
(* calibration pose and however long a pose must last; and what            *)
(* EventReports, which extends it, promises for any number of users and    *)
(* hands: the reports leave a client that believes them right about        *)
(* everybody but the exceptions that ReportsFollowed names.                *)
(***************************************************************************)
EXTENDS EventReports, TLAPS

-----------------------------------------------------------------------------
(* The pose detector by itself: PoseTracking.                              *)

\* TrackedPresent leans on NobodyForgotten: a user that comes is no user that
\* is already tracked, and one with a skeleton is in view.
IInv == TypeOK /\ TrackedPresent /\ NobodyForgotten

\* The invariant holds before the first user comes.
LEMMA InitEstablishes == Init => IInv
<1>1. 0 \in 0 .. DT + 1
  BY PoseTrackingAssumption DEF PoseTrackingAssumption
<1>2. Init => TypeOK
  BY <1>1 DEF Init, TypeOK
<1>3. Init => TrackedPresent /\ NobodyForgotten
  BY DEF Init, TrackedPresent, NobodyForgotten
<1>. QED
  BY <1>2, <1>3 DEF IInv

\* The counts stop at DT + 1.
LEMMA CountType ==
  ASSUME NEW n \in 0 .. DT + 1
  PROVE  Count(n) \in 0 .. DT + 1
  BY PoseTrackingAssumption DEF PoseTrackingAssumption, Count

\* A callback, for whichever user, keeps the invariant.
LEMMA CallbackKeeps ==
  ASSUME IInv, NEW u \in UserIds,
         \/ OnNewUser(u) \/ OnLostUser(u) \/ OnPoseStart(u)
         \/ OnCalibrationSuccess(u) \/ OnCalibrationFailure(u)
  PROVE  IInv'
<1>. USE DEF IInv
<1>0. u # 0
  BY PoseTrackingAssumption DEF PoseTrackingAssumption
<1>1. CASE OnNewUser(u)
  <2>1. TypeOK'
    BY <1>1 DEF OnNewUser, StartCalibration, TypeOK, detector
  <2>2. TrackedPresent'
    BY <1>1 DEF OnNewUser, StartCalibration, TypeOK, TrackedPresent, detector
  <2>3. NobodyForgotten'
    BY <1>1 DEF OnNewUser, StartCalibration, TypeOK, NobodyForgotten
  <2>. QED
    BY <2>1, <2>2, <2>3
<1>2. CASE OnLostUser(u)
  <2>1. TypeOK'
    BY <1>2 DEF OnLostUser, TypeOK
  <2>2. TrackedPresent'
    BY <1>2 DEF OnLostUser, TypeOK, TrackedPresent
  <2>3. NobodyForgotten'
    BY <1>2 DEF OnLostUser, TypeOK, NobodyForgotten
  <2>. QED
    BY <2>1, <2>2, <2>3
<1>3. CASE OnPoseStart(u)
  <2>1. TypeOK'
    BY <1>3 DEF OnPoseStart, TypeOK, detector
  <2>2. TrackedPresent'
    BY <1>3 DEF OnPoseStart, TypeOK, TrackedPresent, detector
  <2>3. NobodyForgotten'
    BY <1>3 DEF OnPoseStart, TypeOK, NobodyForgotten
  <2>. QED
    BY <2>1, <2>2, <2>3
<1>4. CASE OnCalibrationSuccess(u)
  <2>1. TypeOK'
    BY <1>4 DEF OnCalibrationSuccess, TypeOK
  <2>2. TrackedPresent'
    BY <1>4 DEF OnCalibrationSuccess, TypeOK, TrackedPresent, NobodyForgotten
  <2>3. NobodyForgotten'
    BY <1>4 DEF OnCalibrationSuccess, TypeOK, NobodyForgotten
  <2>. QED
    BY <2>1, <2>2, <2>3
<1>5. CASE OnCalibrationFailure(u)
  <2>1. TypeOK'
    BY <1>5 DEF OnCalibrationFailure, StartCalibration, TypeOK, detector
  <2>2. TrackedPresent'
    BY <1>5
       DEF OnCalibrationFailure, StartCalibration, TypeOK, TrackedPresent,
           detector
  <2>3. NobodyForgotten'
    BY <1>5
       DEF OnCalibrationFailure, StartCalibration, TypeOK, NobodyForgotten
  <2>. QED
    BY <2>1, <2>2, <2>3
<1>. QED
  BY <1>1, <1>2, <1>3, <1>4, <1>5

\* A frame keeps the invariant.
LEMMA FrameKeeps ==
  ASSUME IInv, WaitAndUpdateAll \/ Detect
  PROVE  IInv'
<1>1. CASE WaitAndUpdateAll
  BY <1>1 DEF IInv, WaitAndUpdateAll, TypeOK, TrackedPresent, NobodyForgotten,
              detector
<1>2. CASE Detect
  <2>1. posingTime' \in 0 .. DT + 1 /\ held' \in 0 .. DT + 1
    BY <1>2, CountType, PoseTrackingAssumption
       DEF IInv, Detect, TypeOK, PoseTrackingAssumption
  <2>2. posing' \in BOOLEAN
    BY <1>2 DEF IInv, Detect, TypeOK
  <2>. QED
    BY <1>2, <2>1, <2>2
       DEF IInv, Detect, TypeOK, TrackedPresent, NobodyForgotten, generator
<1>. QED
  BY <1>1, <1>2

\* The invariant holds in every reachable state.
THEOREM Invariance == Spec => []IInv
<1>1. IInv /\ [Next]_vars => IInv'
  <2>. SUFFICES ASSUME IInv, [Next]_vars PROVE IInv'
    OBVIOUS
  <2>1. CASE Callback
    BY <2>1, CallbackKeeps DEF Callback
  <2>2. CASE WaitAndUpdateAll \/ Detect
    BY <2>2, FrameKeeps
  <2>3. CASE UNCHANGED vars
    BY <2>3 DEF IInv, TypeOK, TrackedPresent, NobodyForgotten, vars, generator,
                detector
  <2>. QED
    BY <2>1, <2>2, <2>3 DEF Next
<1>. QED
  BY InitEstablishes, <1>1, PTL DEF Spec

\* The members keep their types.
THEOREM Types == Spec => []TypeOK
<1>1. IInv => TypeOK
  BY DEF IInv
<1>. QED
  BY <1>1, Invariance, PTL

\* Whatever the callbacks did, detect() asks for the joints of a user that is
\* in view and has a skeleton.
THEOREM TrackedIsPresent == Spec => []TrackedPresent
<1>1. IInv => TrackedPresent
  BY DEF IInv
<1>. QED
  BY <1>1, Invariance, PTL

\* No user in view is left without a way to a skeleton.
THEOREM NoUserForgotten == Spec => []NobodyForgotten
<1>1. IInv => NobodyForgotten
  BY DEF IInv
<1>. QED
  BY <1>1, Invariance, PTL

-----------------------------------------------------------------------------
(* All the reports: EventReports.                                          *)

\* The users a client knows of, and what becomes of them, have their states.
ReportTypeOK ==
  /\ known \in [WatchedIds -> {"none", "pose", "calibrating", "tracking"}]
  /\ told \in [WatchedIds -> {"lost", "detect", "calibration"}]
  /\ handTracking \in BOOLEAN

\* The flag is down only over hands that were there together with the one
\* that took it down; of two hands each is one that was there with another.
FlagCovers ==
  /\ ~handTracking => hands \subseteq together
  /\ \A a, b \in hands : a # b => a \in together

ReportInv == IInv /\ ReportTypeOK /\ FlagCovers /\ ReportsFollowed

-----------------------------------------------------------------------------
(* The pose detector inside EventReports is the one of PoseTracking.       *)

\* What is reported besides the pose changes nothing of the pose detector.
LEMMA ReportNextSteps == [ReportNext]_reportVars => [Next]_vars
<1>. SUFFICES ASSUME [ReportNext]_reportVars PROVE [Next]_vars
  OBVIOUS
<1>1. CASE PoseCallback \/ NextFrame \/ DetectAndReport
  BY <1>1 DEF PoseCallback, NextFrame, DetectAndReport, Next
<1>2. ASSUME NEW u \in WatchedIds,
             \/ UserDetected(u) \/ UserLost(u) \/ UserPoses(u)
             \/ \E success \in BOOLEAN : UserCalibrationEnd(u, success)
      PROVE  UNCHANGED vars
  BY <1>2 DEF UserDetected, UserLost, UserPoses, UserCalibrationEnd, Becomes
<1>3. ASSUME NEW h \in HandIds,
             OnHandCreate(h) \/ OnHandUpdate(h) \/ OnHandDestroy(h)
      PROVE  UNCHANGED vars
  BY <1>3 DEF OnHandCreate, OnHandUpdate, OnHandDestroy, HandStep
<1>4. CASE UNCHANGED reportVars
  BY <1>4 DEF reportVars
<1>. QED
  BY <1>1, <1>2, <1>3, <1>4 DEF ReportNext

\* The reports implement the pose detector and its fairness: what is proved
\* of PoseTracking holds of the process that makes all the reports.
THEOREM ReportsImplementPoses == ReportSpec => FairSpec
<1>1. ReportInit => Init
  BY DEF ReportInit
<1>. QED
  BY <1>1, ReportNextSteps, PTL DEF ReportSpec, FairSpec, Spec

\* Hence detect() finds the tracked user, and nobody is forgotten.
LEMMA PoseInvariance == ReportSpec => []IInv
  BY ReportsImplementPoses, Invariance, PTL DEF FairSpec

-----------------------------------------------------------------------------
(* The three reports, one lemma for each.                                  *)

LEMMA ReportInitEstablishes ==
  ReportInit => ReportTypeOK /\ FlagCovers /\ ReportsFollowed
<1>. SUFFICES ASSUME ReportInit
              PROVE  ReportTypeOK /\ FlagCovers /\ ReportsFollowed
  OBVIOUS
<1>1. ReportTypeOK /\ FlagCovers
  BY DEF ReportInit, ReportTypeOK, FlagCovers
<1>2. UsersFollowed
  BY DEF ReportInit, UsersFollowed
<1>3. PosesFollowed
  BY DEF ReportInit, Init, PosesFollowed
<1>4. HandsFollowed
  BY DEF ReportInit, HandsFollowed
<1>. QED
  BY <1>1, <1>2, <1>3, <1>4 DEF ReportsFollowed

\* UserDetector reports what becomes of a user whenever a client could be
\* wrong about it otherwise.
LEMMA UserReports ==
  ASSUME ReportTypeOK, UsersFollowed, NEW u \in WatchedIds,
         \/ UserDetected(u) \/ UserLost(u) \/ UserPoses(u)
         \/ \E success \in BOOLEAN : UserCalibrationEnd(u, success)
  PROVE  /\ ReportTypeOK' /\ UsersFollowed'
         /\ UNCHANGED <<vars, poseReports, handReports>>
<1>1. CASE UserDetected(u)
  BY <1>1 DEF UserDetected, Becomes, SendUserData, Calibrating, ReportTypeOK,
              UsersFollowed, handReports
<1>2. CASE UserLost(u)
  BY <1>2 DEF UserLost, Becomes, SendUserData, ReportTypeOK, UsersFollowed,
              handReports
<1>3. CASE UserPoses(u)
  BY <1>3 DEF UserPoses, Becomes, ReportTypeOK, UsersFollowed, handReports
<1>4. ASSUME NEW success \in BOOLEAN, UserCalibrationEnd(u, success)
      PROVE  /\ ReportTypeOK' /\ UsersFollowed'
             /\ UNCHANGED <<vars, poseReports, handReports>>
  <2>1. CASE success
    BY <1>4, <2>1 DEF UserCalibrationEnd, Becomes, SendUserData, ReportTypeOK,
                      UsersFollowed, handReports
  <2>2. CASE ~success
    BY <1>4, <2>2 DEF UserCalibrationEnd, Becomes, Calibrating, ReportTypeOK,
                      UsersFollowed, handReports
  <2>. QED
    BY <2>1, <2>2
<1>. QED
  BY <1>1, <1>2, <1>3, <1>4

\* No callback reports a pose or takes a report back, but who is tracked may
\* change: then a client is wrong about the two it changed between.
LEMMA CallbackReports ==
  ASSUME IInv, PosesFollowed, PoseCallback
  PROVE  PosesFollowed'
<1>1. posing' = posing
  BY DEF PoseCallback, Callback, OnNewUser, OnLostUser, OnPoseStart,
         OnCalibrationSuccess, OnCalibrationFailure, detector
<1>2. believed' = believed /\ switched \subseteq switched'
  BY DEF PoseCallback
<1>3. CASE posing /\ tracking_user' # tracking_user
  <2>1. ASSUME NEW u \in UserIds \ switched'
        PROVE  u # tracking_user /\ u # tracking_user'
    BY <1>3, <2>1, PoseTrackingAssumption
       DEF PoseCallback, PoseTrackingAssumption
  <2>. QED
    BY <1>1, <1>2, <2>1 DEF PosesFollowed
<1>4. CASE ~posing \/ tracking_user' = tracking_user
  BY <1>1, <1>2, <1>4 DEF PosesFollowed
<1>. QED
  BY <1>3, <1>4

\* detectPose() and lostPose() tell of the tracked user what detect() found.
LEMMA DetectReports ==
  ASSUME IInv, PosesFollowed, DetectAndReport
  PROVE  PosesFollowed'
<1>1. posing \in BOOLEAN /\ posing' \in BOOLEAN
  BY DEF IInv, TypeOK, DetectAndReport, Detect
<1>2. tracking_user' = tracking_user /\ switched' = switched
  BY DEF DetectAndReport, Detect
<1>3. CASE ~posing /\ posing'
  BY <1>2, <1>3 DEF DetectAndReport, PosesFollowed
<1>4. CASE posing /\ ~posing'
  BY <1>2, <1>4 DEF DetectAndReport, PosesFollowed
<1>5. CASE posing = posing'
  BY <1>2, <1>5 DEF DetectAndReport, PosesFollowed
<1>. QED
  BY <1>1, <1>3, <1>4, <1>5

\* A hand whose end is not reported was there together with another.
LEMMA HandReports ==
  ASSUME ReportTypeOK, FlagCovers, HandsFollowed, NEW h \in HandIds,
         OnHandCreate(h) \/ OnHandUpdate(h) \/ OnHandDestroy(h)
  PROVE  /\ ReportTypeOK' /\ FlagCovers' /\ HandsFollowed'
         /\ UNCHANGED <<vars, userReports, poseReports>>
<1>1. CASE OnHandCreate(h)
  <2>1. CASE hands = {}
    BY <1>1, <2>1 DEF OnHandCreate, HandStep, ReportTypeOK, FlagCovers,
                      HandsFollowed, userReports
  <2>2. CASE hands # {}
    BY <1>1, <2>2 DEF OnHandCreate, HandStep, ReportTypeOK, FlagCovers,
                      HandsFollowed, userReports
  <2>. QED
    BY <2>1, <2>2
<1>2. CASE OnHandUpdate(h)
  BY <1>2 DEF OnHandUpdate, HandStep, ReportTypeOK, FlagCovers, HandsFollowed,
              userReports
<1>3. CASE OnHandDestroy(h)
  <2>1. CASE handTracking
    BY <1>3, <2>1 DEF OnHandDestroy, HandStep, ReportTypeOK, FlagCovers,
                      HandsFollowed, userReports
  <2>2. CASE ~handTracking
    BY <1>3, <2>2 DEF OnHandDestroy, HandStep, ReportTypeOK, FlagCovers,
                      HandsFollowed, userReports
  <2>. QED
    BY <2>1, <2>2
<1>. QED
  BY <1>1, <1>2, <1>3

-----------------------------------------------------------------------------

\* No step makes a client wrong about anybody who is no exception.
LEMMA ReportNextKeeps ==
  ASSUME IInv, ReportTypeOK, FlagCovers, ReportsFollowed,
         [ReportNext]_reportVars
  PROVE  (ReportTypeOK /\ FlagCovers /\ ReportsFollowed)'
<1>. USE DEF ReportsFollowed
<1>1. CASE PoseCallback \/ DetectAndReport
  <2>1. PosesFollowed'
    BY <1>1, CallbackReports, DetectReports
  <2>2. UNCHANGED <<userReports, handReports>>
    BY <1>1 DEF PoseCallback, DetectAndReport
  <2>. QED
    BY <2>1, <2>2 DEF userReports, handReports, ReportTypeOK, FlagCovers,
                      UsersFollowed, HandsFollowed
<1>2. CASE NextFrame
  BY <1>2 DEF NextFrame, WaitAndUpdateAll, detector, userReports, poseReports,
              handReports, ReportTypeOK, FlagCovers, UsersFollowed,
              PosesFollowed, HandsFollowed
<1>3. ASSUME NEW u \in WatchedIds,
             \/ UserDetected(u) \/ UserLost(u) \/ UserPoses(u)
             \/ \E success \in BOOLEAN : UserCalibrationEnd(u, success)
      PROVE  (ReportTypeOK /\ FlagCovers /\ ReportsFollowed)'
  BY <1>3, UserReports
     DEF vars, detector, poseReports, handReports, FlagCovers, PosesFollowed,
         HandsFollowed
<1>4. ASSUME NEW h \in HandIds,
             OnHandCreate(h) \/ OnHandUpdate(h) \/ OnHandDestroy(h)
      PROVE  (ReportTypeOK /\ FlagCovers /\ ReportsFollowed)'
  BY <1>4, HandReports
     DEF vars, detector, userReports, poseReports, UsersFollowed,
         PosesFollowed
<1>5. CASE UNCHANGED reportVars
  BY <1>5 DEF reportVars, vars, detector, userReports, poseReports,
              handReports, ReportTypeOK, FlagCovers, UsersFollowed,
              PosesFollowed, HandsFollowed
<1>. QED
  BY <1>1, <1>2, <1>3, <1>4, <1>5 DEF ReportNext

\* A client that believes the reports is right about every user, pose and
\* hand but those that ReportsFollowed excepts.
THEOREM ClientsFollow == ReportSpec => []ReportsFollowed
<1>. DEFINE Inv == ReportTypeOK /\ FlagCovers /\ ReportsFollowed
<1>1. ReportInit => Inv
  BY ReportInitEstablishes
<1>2. IInv /\ Inv /\ [ReportNext]_reportVars => Inv'
  BY ReportNextKeeps
<1>3. Inv => ReportsFollowed
  OBVIOUS
<1>. HIDE DEF Inv
<1>. QED
  BY <1>1, <1>2, <1>3, PoseInvariance, PTL DEF ReportSpec

\* In the process that makes all the reports, too, detect() asks for the
\* joints of a user that is in view and has a skeleton.
THEOREM TrackedIsPresentAmongReports == ReportSpec => []TrackedPresent
  BY ReportsImplementPoses, TrackedIsPresent, PTL DEF FairSpec
=============================================================================
