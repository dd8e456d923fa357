----------------------- MODULE CalibrationStoreProofs -----------------------
(***************************************************************************)
(* What CalibrationStore promises, for every set of users.                 *)
(***************************************************************************)
EXTENDS CalibrationStore, TLAPS

\* NobodyForgotten alone says nothing once a file is there, TypeOK and
\* Coherent hold all the time.
IInv == TypeOK /\ Coherent /\ NobodyForgotten

\* A user that comes keeps the invariant, whoever the file is loaded for.
LEMMA NewUserKeeps ==
  ASSUME IInv, NEW u \in UserIds, User_NewUser(u)
  PROVE  IInv'
<1>. USE DEF IInv, TypeOK, Coherent, NobodyForgotten
<1>1. CASE file /\ LoadCalibration(users \cup {u})
  <2>1. PICK v \in (users \cup {u}) \ (calibrated \cup calibrating) :
          /\ calibrated' = calibrated \cup {v} /\ tracked' = tracked \cup {v}
          /\ detecting' = detecting \ {v}
          /\ UNCHANGED calibrating
    BY <1>1 DEF LoadCalibration
  <2>2. users' = users \cup {u} /\ file' = file
    BY DEF User_NewUser
  <2>3. v \in users'
    BY <2>1, <2>2
  <2>4. TypeOK'
    BY <2>1, <2>2, <2>3
  <2>5. Coherent'
    BY <2>1, <2>2
  <2>6. NobodyForgotten'
    BY <1>1, <2>2
  <2>. QED
    BY <2>4, <2>5, <2>6
<1>2. CASE StartPoseDetection(u)
  BY <1>2 DEF User_NewUser, StartPoseDetection
<1>3. CASE RequestCalibration(u)
  BY <1>3 DEF User_NewUser, RequestCalibration
<1>. QED
  BY <1>1, <1>2, <1>3 DEF User_NewUser

\* The invariant holds in every reachable state.
THEOREM Invariance == Spec => []IInv
<1>1. Init => IInv
  BY DEF Init, IInv, TypeOK, Coherent, NobodyForgotten
<1>2. IInv /\ [Next]_vars => IInv'
  <2>. SUFFICES ASSUME IInv, [Next]_vars PROVE IInv'
    OBVIOUS
  <2>1. ASSUME NEW u \in UserIds, User_NewUser(u) PROVE IInv'
    BY <2>1, NewUserKeeps
  <2>2. ASSUME NEW u \in UserIds, User_LostUser(u) PROVE IInv'
    BY <2>2 DEF User_LostUser, IInv, TypeOK, Coherent, NobodyForgotten
  <2>3. ASSUME NEW u \in UserIds, Pose_Detected(u) PROVE IInv'
    BY <2>3 DEF Pose_Detected, RequestCalibration, IInv, TypeOK, Coherent,
                NobodyForgotten
  <2>4. ASSUME NEW u \in UserIds, Calibration_End(u) PROVE IInv'
    BY <2>4 DEF Calibration_End, IInv, TypeOK, Coherent, NobodyForgotten
  <2>5. ASSUME NEW u \in UserIds, Calibration_Failure(u) PROVE IInv'
    BY <2>5 DEF Calibration_Failure, IInv, TypeOK, Coherent, NobodyForgotten
  <2>6. CASE UNCHANGED vars
    BY <2>6 DEF IInv, TypeOK, Coherent, NobodyForgotten, vars, capabilities
  <2>. QED
    BY <2>1, <2>2, <2>3, <2>4, <2>5, <2>6 DEF Next
<1>. QED
  BY <1>1, <1>2, PTL DEF Spec

\* OpenNI is only asked about users in view.
THEOREM Types == Spec => []TypeOK
<1>1. IInv => TypeOK
  BY DEF IInv
<1>. QED
  BY <1>1, Invariance, PTL

\* A calibrated user is tracked, and neither waited for in the pose nor
\* calibrated again, whoever the file was loaded for.
THEOREM StateIsCoherent == Spec => []Coherent
<1>1. IInv => Coherent
  BY DEF IInv
<1>. QED
  BY <1>1, Invariance, PTL

\* Until a calibration is saved no user in view is left behind.
THEOREM NobodyForgottenUnsaved == Spec => []NobodyForgotten
<1>1. IInv => NobodyForgotten
  BY DEF IInv
<1>. QED
  BY <1>1, Invariance, PTL
=============================================================================
