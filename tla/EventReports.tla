---------------------------- MODULE EventReports ----------------------------
(***************************************************************************)
(* Everything the server reports of people: UserDetector's users, the pose *)
(* detector's poses, by id, and HandDetector's hands.  All three run on    *)
(* the main thread and end in broadcastText.  UserDetector has a user      *)
(* generator of its own; what else AbstractUserDetector keeps for it,      *)
(* tracking and tracking_user, is never read.                              *)
(*                                                                         *)
(* Of a report only its effect is kept, on a client that believes all it   *)
(* is told.                                                                *)
(***************************************************************************)
EXTENDS PoseTracking, FiniteSets

CONSTANTS
  WatchedIds,  \* the XnUserIDs UserDetector's generator hands out
  HandIds      \* the XnUserIDs the hands generator hands out

VARIABLES
  known,       \* external: the skeletons of UserDetector's generator
  told,        \* external: the users a client knows of
  believed,    \* external: those it takes to pose
  switched,    \* history: who was tracked at first or next when the tracked
               \* user changed during a pose
  hands,       \* external: the hands generator's hands
  handTracking,\* HandDetector::tracking
  toldHands,   \* external: the hands a client knows of
  together     \* history: hands that there were at the same time as others

userReports == <<known, told>>
poseReports == <<believed, switched>>
handReports == <<hands, handTracking, toldHands, together>>
reportVars == <<vars, userReports, poseReports, handReports>>

-----------------------------------------------------------------------------
(* UserDetector: the callbacks of AbstractUserDetector, each with a report.*)

SendUserData(u, action) == told' = [told EXCEPT ![u] = action]

Calibrating == IF NeedPose THEN "pose" ELSE "calibrating"

\* AbstractUserDetector's part, of its own generator.
Becomes(u, from, to) ==
  /\ mainPc = "WaitAndUpdateAll" /\ known[u] \in from
  /\ known' = [known EXCEPT ![u] = to]
  /\ UNCHANGED <<vars, poseReports, handReports>>

UserDetected(u) ==
  /\ Becomes(u, {"none"}, Calibrating)
  /\ SendUserData(u, "detect")

UserLost(u) ==
  /\ Becomes(u, {"pose", "calibrating", "tracking"}, "none")
  /\ SendUserData(u, "lost")

UserPoses(u) == Becomes(u, {"pose"}, "calibrating") /\ UNCHANGED told

UserCalibrationEnd(u, success) ==
  /\ Becomes(u, {"calibrating"}, IF success THEN "tracking" ELSE Calibrating)
  /\ IF success THEN SendUserData(u, "calibration") ELSE UNCHANGED told

-----------------------------------------------------------------------------
(* The pose detector's reports, by the user tracked when they are made.    *)

PoseCallback ==
  /\ Callback
  /\ switched' = IF posing /\ tracking_user' # tracking_user
                   THEN switched \cup ({tracking_user, tracking_user'} \ {0})
                   ELSE switched
  /\ UNCHANGED <<believed, userReports, handReports>>

\* detectPose() and lostPose().
DetectAndReport ==
  /\ Detect
  /\ believed' = IF ~posing /\ posing' THEN believed \cup {tracking_user}
                 ELSE IF posing /\ ~posing' THEN believed \ {tracking_user}
                 ELSE believed
  /\ UNCHANGED <<switched, userReports, handReports>>

NextFrame ==
  WaitAndUpdateAll /\ UNCHANGED <<userReports, poseReports, handReports>>

-----------------------------------------------------------------------------
(* HandDetector.                                                           *)

HandStep ==
  mainPc = "WaitAndUpdateAll" /\ UNCHANGED <<vars, userReports, poseReports>>

\* Any time after onGestureRecognized has called StartTracking.
OnHandCreate(h) ==
  /\ HandStep /\ h \notin hands
  /\ hands' = hands \cup {h}
  /\ together' = IF hands = {} THEN together ELSE together \cup hands'
  /\ handTracking' = TRUE
  /\ toldHands' = toldHands \cup {h}

OnHandUpdate(h) ==
  /\ HandStep /\ h \in hands
  /\ toldHands' = toldHands \cup {h}
  /\ UNCHANGED <<hands, handTracking, together>>

\* A slip: the flag goes down without a report.
OnHandDestroyUntold(h) ==
  /\ HandStep /\ h \in hands
  /\ hands' = hands \ {h}
  /\ handTracking' = FALSE
  /\ UNCHANGED <<toldHands, together>>

\* Reported only while tracking is TRUE, whichever hand it became TRUE for.
OnHandDestroy(h) ==
  /\ HandStep /\ h \in hands
  /\ hands' = hands \ {h}
  /\ handTracking' = FALSE
  /\ toldHands' = IF handTracking THEN toldHands \ {h} ELSE toldHands
  /\ UNCHANGED together

-----------------------------------------------------------------------------

ReportInit ==
  /\ Init
  /\ known = [u \in WatchedIds |-> "none"]
  /\ told = [u \in WatchedIds |-> "lost"]
  /\ believed = {} /\ switched = {}
  /\ hands = {} /\ handTracking = FALSE /\ toldHands = {} /\ together = {}

ReportNext ==
  \/ PoseCallback \/ NextFrame \/ DetectAndReport
  \/ \E u \in WatchedIds :
       \/ UserDetected(u) \/ UserLost(u) \/ UserPoses(u)
       \/ \E success \in BOOLEAN : UserCalibrationEnd(u, success)
  \/ \E h \in HandIds : OnHandCreate(h) \/ OnHandUpdate(h) \/ OnHandDestroy(h)

ReportSpec ==
  /\ ReportInit /\ [][ReportNext]_reportVars
  /\ WF_vars(WaitAndUpdateAll) /\ WF_vars(Detect)

-----------------------------------------------------------------------------

\* What a client is told of users is so.
UsersFollowed ==
  \A u \in WatchedIds :
    told[u] = CASE known[u] = "none" -> "lost"
                [] known[u] = "tracking" -> "calibration"
                [] OTHER -> "detect"

\* detectPose() and lostPose() name whoever is tracked at the moment: a client
\* is right about everyone but those that came to be tracked, or ceased to be,
\* during a pose.
PosesFollowed ==
  \A u \in UserIds \ switched :
    u \in believed <=> (posing /\ tracking_user = u)

\* One flag for all hands: a client knows every hand that there is, and no
\* other but one that was there together with another.
HandsFollowed ==
  /\ hands \subseteq toldHands
  /\ toldHands \ hands \subseteq together

\* UserDetector, AbstractPoseDetector and HandDetector: a client that believes
\* the reports knows the users, poses and hands, with the exceptions that the
\* ids of poses and the one flag of hands make.
ReportsFollowed == UsersFollowed /\ PosesFollowed /\ HandsFollowed
=============================================================================
