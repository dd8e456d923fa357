--------------------------- MODULE CalibratedUsers ---------------------------
(***************************************************************************)
(* CalibratedUsers.cpp: the cache of the tracked users and the positions   *)
(* of their joints.  The main thread rewrites it in update() after every   *)
(* frame; the HTTP daemon's thread reads it in the four getters.  All      *)
(* accesses are under a scoped_lock, which a throw releases, but one:      *)
(* getCalibratedUserIds tests the count before it locks, and update() sets *)
(* the count to 0 before it counts again.                                  *)
(*                                                                         *)
(* Joints are read and written one at a time.  A position is the user and  *)
(* the joint it belongs to and the tag of the frame it was measured in.    *)
(***************************************************************************)
EXTENDS Naturals, Sequences

CONSTANTS
  UserIds,     \* the XnUserIDs OpenNI hands out
  MaxUserNum,  \* MAX_USER_NUM, the first dimension of skeletons
  MaxScene,    \* the most users OpenNI has in view at once
  NumJoints,   \* NUM_JOINTS, the size of parts_
  FrameTags,   \* frames are told apart modulo this number
  AfterUpdate  \* where the main thread goes when update() returns

\* skeletons is indexed by the XnUserID itself, without a test.
ASSUME CalibratedUsersAssumption ==
  /\ MaxUserNum \in Nat
  /\ UserIds \subseteq 1 .. MaxUserNum - 1
  /\ MaxScene \in Nat
  /\ NumJoints \in Nat \ {0}
  /\ FrameTags \in Nat \ {0}
  /\ AfterUpdate \notin {"calibrated", "users", "joints"}

VARIABLES
  generator,  \* xn::UserGenerator, external: users, those tracked, the frame
  mainPc,     \* where the main thread is
  mainI,      \* i of update()
  mainJoint,  \* how many joints of users[i] update() has copied
  httpPc,     \* where the HTTP daemon's thread is
  httpI,      \* the joint or the slot the getter is at
  request,    \* the request being handled
  user,       \* the Json::Value "user" of the reply under construction
  mutex,      \* "free", or the thread that holds it
  skeletons, calibratedUsers, calibratedCount

cache == <<skeletons, calibratedUsers, calibratedCount>>
mainThread == <<mainPc, mainI, mainJoint>>
httpThread == <<httpPc, httpI, user>>
vars == <<generator, mainThread, httpThread, request, mutex, cache>>

Slots == 0 .. MaxUserNum - 1
Joints == 0 .. NumJoints - 1
NotAJoint == NumJoints
Positions == [user : UserIds, joint : Joints, frame : 0 .. FrameTags - 1]
NoPosition == [user |-> 0, joint |-> 0, frame |-> 0]
NoUser == [ids |-> <<>>, eJoint |-> <<>>, number |-> 0, empty |-> FALSE]

Scenes ==
  {s \in UNION {[1 .. n -> UserIds] : n \in 0 .. MaxScene} :
     \A i, j \in DOMAIN s : s[i] = s[j] => i = j}

LookupOps == {"getSkeletonById", "getSkeletonJointPosition"}
Ops == LookupOps \cup {"getNumberOfCalibratedUsers", "getCalibratedUserIds"}
Requests ==
  [op : Ops \ LookupOps, id : {0}, joint : {0}]
    \cup [op : {"getSkeletonById"}, id : UserIds \cup {0}, joint : {0}]
    \cup [op : {"getSkeletonJointPosition"}, id : UserIds \cup {0},
          joint : Joints \cup {NotAJoint}]

-----------------------------------------------------------------------------
(* The main thread: CalibratedUsers::update.                               *)

\* numUsers after GetUsers(users, numUsers).
NumUsers ==
  IF Len(generator.users) < MaxUserNum THEN Len(generator.users)
                                       ELSE MaxUserNum

UserId == generator.users[mainI + 1]
IsTracking(u) == u \in generator.tracking
SkeletonJointPosition(u, j) ==
  [user |-> u, joint |-> j, frame |-> generator.frame]

\* users is a local array: only the reset of the count can be observed.
UpdateLock ==
  /\ mainPc = "calibrated" /\ mutex = "free"
  /\ mutex' = "main" /\ calibratedCount' = 0
  /\ mainPc' = "users" /\ mainI' = 0
  /\ UNCHANGED <<generator, mainJoint, httpThread, request, skeletons,
                 calibratedUsers>>

\* A slip: no test of IsTracking.
UpdateUserAny ==
  /\ mainPc = "users" /\ mainI < NumUsers
  /\ mainPc' = "joints" /\ mainJoint' = 0
  /\ UNCHANGED <<generator, mainI, httpThread, request, mutex, cache>>

UpdateUser ==
  /\ mainPc = "users" /\ mainI < NumUsers
  /\ IF IsTracking(UserId)
       THEN mainPc' = "joints" /\ mainJoint' = 0 /\ UNCHANGED mainI
       ELSE mainI' = mainI + 1 /\ UNCHANGED <<mainPc, mainJoint>>
  /\ UNCHANGED <<generator, httpThread, request, mutex, cache>>

UpdateJoint ==
  /\ mainPc = "joints" /\ mainJoint < NumJoints
  /\ skeletons' =
       [skeletons EXCEPT ![UserId][mainJoint] =
          SkeletonJointPosition(UserId, mainJoint)]
  /\ mainJoint' = mainJoint + 1
  /\ UNCHANGED <<generator, mainPc, mainI, httpThread, request, mutex,
                 calibratedUsers, calibratedCount>>

\* A slip: the loop may stop one joint early.
UpdateCountShort ==
  /\ mainPc = "joints" /\ mainJoint + 1 >= NumJoints
  /\ calibratedUsers' = [calibratedUsers EXCEPT ![calibratedCount] = UserId]
  /\ calibratedCount' = calibratedCount + 1
  /\ mainPc' = "users" /\ mainI' = mainI + 1 /\ mainJoint' = 0
  /\ UNCHANGED <<generator, httpThread, request, mutex, skeletons>>

UpdateCount ==
  /\ mainPc = "joints" /\ mainJoint = NumJoints
  /\ calibratedUsers' = [calibratedUsers EXCEPT ![calibratedCount] = UserId]
  /\ calibratedCount' = calibratedCount + 1
  /\ mainPc' = "users" /\ mainI' = mainI + 1 /\ mainJoint' = 0
  /\ UNCHANGED <<generator, httpThread, request, mutex, skeletons>>

UpdateUnlock ==
  /\ mainPc = "users" /\ mainI = NumUsers
  /\ mutex' = "free"
  /\ mainPc' = AfterUpdate /\ mainI' = 0
  /\ UNCHANGED <<generator, mainJoint, httpThread, request, cache>>

Update ==
  UpdateLock \/ UpdateUser \/ UpdateJoint \/ UpdateCount \/ UpdateUnlock

-----------------------------------------------------------------------------
(* The HTTP thread: the getters, from "call" to "send" or "sendError".     *)

\* A slip: a single user is not enough for a list.
GetCalibratedUserIdsOne ==
  /\ httpPc = "call" /\ request.op = "getCalibratedUserIds"
  /\ \/ /\ calibratedCount > 1
        /\ httpPc' = "idsLock" /\ UNCHANGED user
     \/ /\ calibratedCount <= 1
        /\ httpPc' = "send" /\ user' = [user EXCEPT !.empty = TRUE]
  /\ UNCHANGED <<generator, mainThread, httpI, request, mutex, cache>>

\* getCalibratedUserIds tests the count without the mutex; with no user the
\* answer's id is "".
GetCalibratedUserIds ==
  /\ httpPc = "call" /\ request.op = "getCalibratedUserIds"
  /\ \/ /\ calibratedCount # 0
        /\ httpPc' = "idsLock" /\ UNCHANGED user
     \/ /\ calibratedCount = 0
        /\ httpPc' = "send" /\ user' = [user EXCEPT !.empty = TRUE]
  /\ UNCHANGED <<generator, mainThread, httpI, request, mutex, cache>>

\* A slip: getCalibratedUserIds goes on without the lock.
GetterNoLock ==
  /\ \/ httpPc = "call" /\ request.op \in Ops \ {"getCalibratedUserIds"}
     \/ httpPc = "idsLock"
  /\ \/ mutex = "free" /\ mutex' = "http"
     \/ httpPc = "idsLock" /\ UNCHANGED mutex
  /\ httpPc' = request.op
  /\ UNCHANGED <<generator, mainThread, httpI, user, request, cache>>

GetterLock ==
  /\ \/ httpPc = "call" /\ request.op \in Ops \ {"getCalibratedUserIds"}
     \/ httpPc = "idsLock"
  /\ mutex = "free"
  /\ mutex' = "http"
  /\ httpPc' = request.op
  /\ UNCHANGED <<generator, mainThread, httpI, user, request, cache>>

GetNumberOfCalibratedUsers ==
  /\ httpPc = "getNumberOfCalibratedUsers"
  /\ user' = [user EXCEPT !.number = calibratedCount]
  /\ mutex' = "free" /\ httpPc' = "send"
  /\ UNCHANGED <<generator, mainThread, httpI, request, cache>>

GetCalibratedUserIdsRead ==
  /\ httpPc = "getCalibratedUserIds" /\ httpI < calibratedCount
  /\ user' = [user EXCEPT !.ids = Append(@, calibratedUsers[httpI])]
  /\ httpI' = httpI + 1
  /\ UNCHANGED <<generator, mainThread, httpPc, request, mutex, cache>>

GetCalibratedUserIdsUnlock ==
  /\ httpPc = "getCalibratedUserIds" /\ httpI >= calibratedCount
  /\ mutex' = "free" /\ httpPc' = "send"
  /\ UNCHANGED <<generator, mainThread, httpI, user, request, cache>>

\* A slip: the loop ends one user early.
FoundShort ==
  \E i \in Slots : i + 1 < calibratedCount /\ calibratedUsers[i] = request.id

\* The loop that looks the requested user up.
Found ==
  \E i \in Slots : i < calibratedCount /\ calibratedUsers[i] = request.id

\* The throws: the scoped_lock releases the mutex.
LookupThrow ==
  /\ httpPc \in LookupOps
  /\ \/ ~Found
     \/ httpPc = "getSkeletonJointPosition" /\ request.joint = NotAJoint
  /\ mutex' = "free" /\ httpPc' = "sendError"
  /\ UNCHANGED <<generator, mainThread, httpI, user, request, cache>>

GetSkeletonJointPosition ==
  /\ httpPc = "getSkeletonJointPosition"
  /\ Found /\ request.joint # NotAJoint
  /\ user' = [user EXCEPT !.ids = <<request.id>>,
                          !.eJoint = <<skeletons[request.id][request.joint]>>]
  /\ mutex' = "free" /\ httpPc' = "send"
  /\ UNCHANGED <<generator, mainThread, httpI, request, cache>>

\* A slip: the scope of the lock ends with the lookup.
GetSkeletonByIdUnlocked ==
  /\ httpPc = "getSkeletonById" /\ Found
  /\ user' = [user EXCEPT !.ids = <<request.id>>]
  /\ httpPc' = "skeleton" /\ mutex' = "free"
  /\ UNCHANGED <<generator, mainThread, httpI, request, cache>>

GetSkeletonByIdFound ==
  /\ httpPc = "getSkeletonById" /\ Found
  /\ user' = [user EXCEPT !.ids = <<request.id>>]
  /\ httpPc' = "skeleton"
  /\ UNCHANGED <<generator, mainThread, httpI, request, mutex, cache>>

GetSkeletonByIdRead ==
  /\ httpPc = "skeleton" /\ httpI < NumJoints
  /\ user' = [user EXCEPT !.eJoint = Append(@, skeletons[request.id][httpI])]
  /\ httpI' = httpI + 1
  /\ UNCHANGED <<generator, mainThread, httpPc, request, mutex, cache>>

GetSkeletonByIdUnlock ==
  /\ httpPc = "skeleton" /\ httpI = NumJoints
  /\ mutex' = "free" /\ httpPc' = "send"
  /\ UNCHANGED <<generator, mainThread, httpI, user, request, cache>>

Getter ==
  \/ GetCalibratedUserIds \/ GetterLock \/ GetNumberOfCalibratedUsers
  \/ GetCalibratedUserIdsRead \/ GetCalibratedUserIdsUnlock
  \/ LookupThrow \/ GetSkeletonJointPosition
  \/ GetSkeletonByIdFound \/ GetSkeletonByIdRead \/ GetSkeletonByIdUnlock

-----------------------------------------------------------------------------
(* The two threads around this cache alone.                                *)

\* The constructor sets the count only; nothing reads what lies beyond it.
InitCache ==
  /\ mutex = "free"
  /\ skeletons = [u \in Slots |-> [j \in Joints |-> NoPosition]]
  /\ calibratedUsers = [i \in Slots |-> 0]
  /\ calibratedCount = 0

Init ==
  /\ InitCache
  /\ generator = [users |-> <<>>, tracking |-> {}, frame |-> 0]
  /\ mainPc = "wait" /\ mainI = 0 /\ mainJoint = 0
  /\ httpPc = "idle" /\ httpI = 0
  /\ request \in Requests /\ user = NoUser

WaitAndUpdateAll ==
  /\ mainPc = "wait"
  /\ \E scene \in Scenes :
     \E tracking \in SUBSET {scene[i] : i \in DOMAIN scene} :
       generator' = [users |-> scene, tracking |-> tracking,
                     frame |-> (generator.frame + 1) % FrameTags]
  /\ mainPc' = "calibrated"
  /\ UNCHANGED <<mainI, mainJoint, httpThread, request, mutex, cache>>

HandleRequest ==
  /\ httpPc = "idle"
  /\ request' \in Requests
  /\ httpPc' = "call"
  /\ UNCHANGED <<generator, mainThread, httpI, user, mutex, cache>>

\* The locals of the request go out of scope with its answer.
Send ==
  /\ httpPc \in {"send", "sendError"}
  /\ httpPc' = "idle" /\ httpI' = 0 /\ user' = NoUser
  /\ UNCHANGED <<generator, mainThread, request, mutex, cache>>

Next == WaitAndUpdateAll \/ Update \/ HandleRequest \/ Getter \/ Send

Spec == Init /\ [][Next]_vars

-----------------------------------------------------------------------------
(* What the class promises.                                                *)

UpdatePcs == {"calibrated", "users", "joints"}

\* u's joints, each its own, of the frame with this tag.
WholeSkeleton(skeleton, u, tag) ==
  \A j \in Joints : skeleton[j] = [user |-> u, joint |-> j, frame |-> tag]

\* Outside update() every listed user is listed once and has a whole
\* skeleton, and all the skeletons are of one frame.
WholeSkeletons ==
  mutex # "main" =>
    \E tag \in 0 .. FrameTags - 1 :
      \A i \in Slots : i < calibratedCount =>
        /\ calibratedUsers[i] \in UserIds
        /\ WholeSkeleton(skeletons[calibratedUsers[i]],
                         calibratedUsers[i], tag)
        /\ \A k \in Slots :
             k < calibratedCount /\ calibratedUsers[i] = calibratedUsers[k]
               => i = k

\* When update() is over the users listed are exactly those OpenNI tracks,
\* with the skeletons of the generator's frame.
ShowsTracked ==
  /\ {calibratedUsers[i] : i \in {k \in Slots : k < calibratedCount}} =
       {u \in UserIds : IsTracking(u)}
  /\ \A u \in UserIds :
       IsTracking(u) => WholeSkeleton(skeletons[u], u, generator.frame)
MirrorsTracked == mainPc \in {"wait", AfterUpdate} => ShowsTracked

\* The answer of getSkeletonById is the asked user's whole skeleton, in the
\* joints' order, of one frame.
SkeletonSnapshot ==
  httpPc = "send" /\ request.op = "getSkeletonById" =>
    /\ user.ids = <<request.id>> /\ Len(user.eJoint) = NumJoints
    /\ \E tag \in 0 .. FrameTags - 1 : \A j \in Joints :
         user.eJoint[j + 1] = [user |-> request.id, joint |-> j, frame |-> tag]

\* getCalibratedUserIds lists every user once, although it decided to list
\* before it had the lock.
IdsDistinct ==
  httpPc = "send" /\ request.op = "getCalibratedUserIds" =>
    \A k, l \in DOMAIN user.ids : user.ids[k] = user.ids[l] => k = l

ErrorHonest ==
  httpPc # "sendError" /\ httpPc' = "sendError"
    /\ request.joint # NotAJoint /\ mainPc # "calibrated" =>
      ~IsTracking(request.id)

EmptyHonest ==
  ~user.empty /\ user'.empty =>
    mainPc \in UpdatePcs \/ generator.tracking = {}

\* getSkeletonJointPosition and getCalibratedUserIds: nothing is missing from
\* an answer without a reason.  "User is not tracking" is only thrown for a
\* user OpenNI does not track, unless update() has yet to take in the new
\* frame; the "" of the ids means that nobody is tracked, or that the unlocked
\* test fell into an update().
AbsenceHonest == [][ErrorHonest /\ EmptyHonest]_vars
=============================================================================
