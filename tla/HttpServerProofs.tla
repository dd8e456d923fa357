--------------------------- MODULE HttpServerProofs ---------------------------
(***************************************************************************)
(* What HttpServer promises, for all users, frames and requests: its two   *)
(* threads take its six mutexes one at a time, and its six caches agree    *)
(* when updateData() has returned.                                         *)
(***************************************************************************)
EXTENDS HttpServer, FiniteSetTheorems, TLAPS

-----------------------------------------------------------------------------
(* The mutexes: the one that a throw has left locked is the only one a     *)
(* thread ever holds while it waits.                                       *)

Threads == {"free", "main", "http"}

\* Where a thread is tells which mutex it holds, whoever wants it.  Only the
\* mutex of DetectedUsers can be the HTTP thread's wherever that thread is.
MutexInv ==
  /\ frameMutex \in [FrameCaches -> Threads]
  /\ calibratedMutex \in Threads /\ detectedMutex \in Threads
  /\ \A c \in FrameCaches : frameMutex[c] = "main" => mainPc = c
  /\ \A c \in FrameCaches : frameMutex[c] = "http" =>
       httpPc = "copy" /\ CacheOf[request.op] = c
  /\ calibratedMutex = "main" => mainPc \in {"users", "joints"}
  /\ calibratedMutex = "http" => httpPc \in CU!Ops \cup {"skeleton"}
  /\ detectedMutex = "main" => mainPc \in {"getUsers", "getCoM"}
  /\ httpPc = "idsLock" => request.op = "getCalibratedUserIds"
  /\ httpPc = "byIdLock" => request.op \in DU!ByIdOps

\* No mutex is locked when main() starts the daemon.
LEMMA InitEstablishes == Init => MutexInv
  BY DEF Init, CU!InitCache, DU!InitCache, MutexInv, Threads, CU!Ops,
         CU!LookupOps

\* A step of the main thread takes or releases the mutex of the cache it is
\* at.
LEMMA MainThreadKeeps ==
  ASSUME MutexInv, MainThread
  PROVE  MutexInv'
<1>1. CASE WaitAndUpdateAll
  BY <1>1 DEF WaitAndUpdateAll, MutexInv, FrameCaches, frameCaches,
              calibrated, detected, httpThread
<1>2. ASSUME NEW c \in FrameCaches, FrameUpdateLock(c)
      PROVE  MutexInv'
  BY <1>2 DEF FrameUpdateLock, MutexInv, Threads, FrameCaches, mainThread,
              calibrated, detected, httpThread
<1>3. ASSUME NEW c \in FrameCaches, FrameUpdate(c)
      PROVE  MutexInv'
  BY <1>3 DEF FrameUpdate, MutexInv, Threads, FrameCaches, AfterCache,
              calibrated, detected, httpThread
<1>4. CASE CalibratedUsersUpdate
  BY <1>4 DEF CalibratedUsersUpdate, CU!Update, CU!UpdateLock,
     CU!UpdateUser, CU!UpdateJoint, CU!UpdateCount, CU!UpdateUnlock,
     CU!httpThread, CU!cache, MutexInv, Threads, FrameCaches, frameCaches,
     detected
<1>5. CASE DetectedUsersUpdate
  BY <1>5 DEF DetectedUsersUpdate, DU!Update, DU!UpdateLock,
     DU!UpdateGetUsers, DU!UpdateCount, DU!UpdateGetCoM, DU!UpdateUnlock,
     DU!httpThread, DU!cache, MutexInv, Threads, FrameCaches, frameCaches,
     calibrated
<1>6. CASE Detect
  BY <1>6 DEF Detect, MutexInv, FrameCaches, frameCaches, calibrated, detected,
              httpThread
<1>. QED
  BY <1>1, <1>2, <1>3, <1>4, <1>5, <1>6 DEF MainThread

\* It holds no mutex while it broadcasts, so none stays locked when the
\* broadcast throws.
LEMMA BroadcastKeeps ==
  ASSUME MutexInv, BroadcastReturns \/ BroadcastThrows
  PROVE  MutexInv'
  BY DEF BroadcastReturns, BroadcastThrows, MutexInv, FrameCaches,
         frameCaches, calibrated, detected, httpThread

\* A getter of CalibratedUsers leaves with the mutex free, throw or no throw.
LEMMA CalibratedUsersGetterKeeps ==
  ASSUME MutexInv, CalibratedUsersGetter
  PROVE  MutexInv'
<1>. USE DEF MutexInv, CU!mainThread, CU!cache, CU!Ops, CU!LookupOps,
             Threads, frameCaches, detected
<1>0. CU!Getter /\ UNCHANGED <<response, frameCaches, detected>>
  BY DEF CalibratedUsersGetter
<1>1. CASE CU!GetCalibratedUserIds \/ CU!GetterLock
  BY <1>0, <1>1 DEF CU!GetCalibratedUserIds, CU!GetterLock
<1>2. CASE \/ CU!GetNumberOfCalibratedUsers \/ CU!GetCalibratedUserIdsRead
           \/ CU!GetCalibratedUserIdsUnlock
  BY <1>0, <1>2 DEF CU!GetNumberOfCalibratedUsers,
     CU!GetCalibratedUserIdsRead, CU!GetCalibratedUserIdsUnlock
<1>3. CASE CU!LookupThrow \/ CU!GetSkeletonJointPosition
  BY <1>0, <1>3 DEF CU!LookupThrow, CU!GetSkeletonJointPosition
<1>4. CASE \/ CU!GetSkeletonByIdFound \/ CU!GetSkeletonByIdRead
           \/ CU!GetSkeletonByIdUnlock
  BY <1>0, <1>4 DEF CU!GetSkeletonByIdFound, CU!GetSkeletonByIdRead,
     CU!GetSkeletonByIdUnlock
<1>. QED
  BY <1>0, <1>1, <1>2, <1>3, <1>4 DEF CU!Getter

\* A getter of DetectedUsers starts with no mutex, whatever it leaves locked.
LEMMA DetectedUsersGetterKeeps ==
  ASSUME MutexInv, DetectedUsersGetter
  PROVE  MutexInv'
<1>. USE DEF MutexInv, DU!mainThread, DU!cache, DU!ByIdOps, DU!LockFirstOps,
             CU!Ops, CU!LookupOps, Threads, frameCaches, calibrated
<1>0. /\ DU!Getter
      /\ UNCHANGED <<mainJoint, response, frameCaches, calibrated>>
  BY DEF DetectedUsersGetter
<1>1. CASE DU!GetUserIds \/ DU!GetUserIdsLoop \/ DU!GetUserIdsRead
  BY <1>0, <1>1 DEF DU!GetUserIds, DU!GetUserIdsLoop, DU!GetUserIdsRead
<1>2. CASE DU!GetterLock \/ DU!ByIdTest
  BY <1>0, <1>2 DEF DU!GetterLock, DU!ByIdTest
<1>3. CASE \/ DU!GetNumberOfDetectedUsers \/ DU!GetCenterPointsRead
           \/ DU!GetCenterPointsUnlock
  BY <1>0, <1>3 DEF DU!GetNumberOfDetectedUsers, DU!GetCenterPointsRead,
     DU!GetCenterPointsUnlock
<1>4. CASE DU!ByIdFound \/ DU!ByIdThrow
  BY <1>0, <1>4 DEF DU!ByIdFound, DU!ByIdThrow
<1>. QED
  BY <1>0, <1>1, <1>2, <1>3, <1>4 DEF DU!Getter

\* The other steps of the HTTP thread: an image cache is left as it is
\* entered, with its mutex free.
LEMMA HandlerKeeps ==
  ASSUME MutexInv,
         \/ HandleRequest \/ CreateResponse \/ FrameGetterLock
         \/ FrameGetterUnlock \/ Send \/ SendError \/ Transmit
  PROVE  MutexInv'
<1>. USE DEF MutexInv, Threads, mainThread, frameCaches, calibrated, detected,
             CU!Ops, CU!LookupOps
<1>1. CASE HandleRequest \/ CreateResponse
  BY <1>1 DEF HandleRequest, CreateResponse
<1>2. CASE FrameGetterLock
  BY <1>2 DEF FrameGetterLock
<1>3. CASE FrameGetterUnlock
  BY <1>3 DEF FrameGetterUnlock
<1>4. CASE Send \/ SendError \/ Transmit
  BY <1>4 DEF Send, SendError, Transmit
<1>. QED
  BY <1>1, <1>2, <1>3, <1>4

\* The invariant holds in every reachable state.
THEOREM Invariance == Spec => []MutexInv
<1>1. MutexInv /\ [Next]_vars => MutexInv'
  <2>. SUFFICES ASSUME MutexInv, [Next]_vars PROVE MutexInv'
    OBVIOUS
  <2>1. CASE MainThread
    BY <2>1, MainThreadKeeps
  <2>2. CASE HandleRequest \/ HandlerThread
    BY <2>2, HandlerKeeps, CalibratedUsersGetterKeeps,
       DetectedUsersGetterKeeps DEF HandlerThread
  <2>3. CASE BroadcastReturns \/ BroadcastThrows
    BY <2>3, BroadcastKeeps
  <2>4. CASE UNCHANGED vars
    BY <2>4 DEF vars, mainThread, httpThread, frameCaches, calibrated,
                detected, MutexInv
  <2>. QED
    BY <2>1, <2>2, <2>3, <2>4 DEF Next
<1>. QED
  BY InitEstablishes, <1>1, PTL DEF Spec

\* What is inside one mutex is not inside another.
LEMMA AtMostOne ==
  ASSUME NEW S, \A a, b \in S : a = b
  PROVE  Cardinality(S) <= 1
<1>1. CASE S = {}
  BY <1>1, FS_EmptySet
<1>2. ASSUME NEW a \in S
      PROVE  Cardinality(S) <= 1
  <2>1. S = {a}
    BY <1>2
  <2>. QED
    BY <2>1, FS_Singleton
<1>. QED
  BY <1>1, <1>2

\* Neither the main loop nor the HTTP daemon holds a mutex while it waits for
\* another one, a frame or a client (one that blocks a broadcast too), and so
\* the two cannot wait for each other: but for the mutex that a getter by id
\* has leaked.
THEOREM OneLockAtATime == Spec => []LocksOneAtATime
<1>1. MutexInv => LocksOneAtATime
  <2>. SUFFICES ASSUME MutexInv PROVE LocksOneAtATime
    OBVIOUS
  <2>. USE DEF MutexInv
  <2>1. Cardinality(Held("main")) <= 1
    <3>1. \A a, b \in Held("main") : a = b
      BY DEF Held, FrameCaches
    <3>. QED
      BY <3>1, AtMostOne
  <2>2. MainWaits => Held("main") = {}
    BY DEF MainWaits, Broadcasting, Held, FrameCaches
  <2>3. ASSUME ~Leaked PROVE Cardinality(Held("http")) <= 1
    <3>1. \A a, b \in Held("http") : a = b
      BY <2>3 DEF Leaked, DU!Leaked, Held, DU!LockFirstOps, DU!ByIdOps,
                  CU!Ops, CU!LookupOps, FrameCaches
    <3>. QED
      BY <3>1, AtMostOne
  <2>4. HttpWaits => Held("http") \subseteq
                       (IF Leaked THEN {"detected"} ELSE {})
    BY DEF HttpWaits, Leaked, DU!Leaked, Held, DU!LockFirstOps, DU!ByIdOps,
           CU!Ops, CU!LookupOps
  <2>. QED
    BY <2>1, <2>2, <2>3, <2>4 DEF LocksOneAtATime
<1>. QED
  BY <1>1, Invariance, PTL

-----------------------------------------------------------------------------
(* The caches.  The HTTP thread writes to none of them.  What the main     *)
(* thread does to each user cache is therefore what CalibratedUsers or     *)
(* DetectedUsers does with an HTTP thread that stays idle: the server      *)
(* implements either of them, and what is proved of them holds in it.      *)

\* A frame has come and updateData() has not begun, nor will it after a throw.
AtCallbacks == {"callbacks", "exitCallbacks"}

\* The main thread as CalibratedUsers knows it: everything between the frame
\* and its update() is that call, everything after it the wait.
CalibratedInside == mainPc \in {"users", "joints"}
CalibratedPc ==
  IF mainPc \in FrameCaches \cup AtCallbacks THEN "calibrated"
  ELSE IF mainPc = "calibrated" \/ CalibratedInside THEN mainPc ELSE "wait"

CUP == INSTANCE CalibratedUsersProofs WITH
  AfterUpdate <- "wait", mainPc <- CalibratedPc,
  mainI <- IF CalibratedInside THEN mainI ELSE 0,
  mutex <- IF CalibratedInside THEN "main" ELSE "free",
  httpPc <- "idle", httpI <- 0, user <- CU!NoUser,
  request <- [op |-> "getNumberOfCalibratedUsers", id |-> 0, joint |-> 0]

\* And as DetectedUsers knows it, whose update() is the last: detect() and what
\* it broadcasts are part of the wait.
DetectedInside == mainPc \in {"getUsers", "getCoM"}
DetectedPc ==
  IF DetectedInside THEN mainPc
  ELSE IF mainPc \in {"detect", "broadcast", "exitDetect", "wait"} THEN "wait"
  ELSE "detected"

DUP == INSTANCE DetectedUsersProofs WITH
  AfterUpdate <- "wait", mainPc <- DetectedPc,
  mainI <- IF DetectedInside THEN mainI ELSE 0,
  mutex <- IF DetectedInside THEN "main" ELSE "free",
  generator <- [users |-> generator.users, frame |-> generator.frame],
  httpPc <- "idle", httpI <- 0, user <- DU!NoUser,
  request <- [op |-> "getUserIds", id |-> 0]

\* What both instances assume of the constants.
LEMMA CacheAssumptions ==
  /\ CUP!CalibratedUsersAssumption /\ DUP!DetectedUsersAssumption
<1>1. UserIds \subseteq Nat \ {0}
  BY HttpServerAssumption DEF HttpServerAssumption
<1>. QED
  BY <1>1, HttpServerAssumption DEF HttpServerAssumption

-----------------------------------------------------------------------------
(* What the two caches do not see.                                         *)

\* Everything the main thread alone may change.
updated ==
  <<generator, mainThread, CU!cache, DU!cache, frameMD>>

\* The HTTP thread changes no cache, whichever mutex it takes or leaves.
LEMMA HttpUpdatesNothing ==
  ASSUME HandleRequest \/ HandlerThread
  PROVE  UNCHANGED updated
<1>. USE DEF updated, mainThread, CU!cache, DU!cache, frameCaches, calibrated,
             detected
<1>1. CASE \/ HandleRequest \/ CreateResponse \/ FrameGetterLock
           \/ FrameGetterUnlock \/ Send \/ SendError \/ Transmit
  BY <1>1 DEF HandleRequest, CreateResponse, FrameGetterLock,
     FrameGetterUnlock, Send, SendError, Transmit
<1>2. CASE CalibratedUsersGetter
  <2>1. CU!Getter /\ UNCHANGED <<response, frameCaches, detected>>
    BY <1>2 DEF CalibratedUsersGetter
  <2>2. UNCHANGED <<generator, CU!mainThread, CU!cache>>
    BY <2>1 DEF CU!Getter, CU!GetCalibratedUserIds, CU!GetterLock,
       CU!GetNumberOfCalibratedUsers, CU!GetCalibratedUserIdsRead,
       CU!GetCalibratedUserIdsUnlock, CU!LookupThrow,
       CU!GetSkeletonJointPosition, CU!GetSkeletonByIdFound,
       CU!GetSkeletonByIdRead, CU!GetSkeletonByIdUnlock
  <2>. QED
    BY <2>1, <2>2 DEF CU!mainThread
<1>3. CASE DetectedUsersGetter
  <2>1. /\ DU!Getter
        /\ UNCHANGED <<mainJoint, response, frameCaches, calibrated>>
    BY <1>3 DEF DetectedUsersGetter
  <2>2. UNCHANGED <<generator, DU!mainThread, DU!cache>>
    BY <2>1 DEF DU!Getter, DU!GetUserIds, DU!GetUserIdsLoop,
       DU!GetUserIdsRead, DU!GetterLock, DU!GetNumberOfDetectedUsers,
       DU!GetCenterPointsRead, DU!GetCenterPointsUnlock, DU!ByIdTest,
       DU!ByIdFound, DU!ByIdThrow
  <2>. QED
    BY <2>1, <2>2 DEF DU!mainThread
<1>. QED
  BY <1>1, <1>2, <1>3 DEF HandlerThread

\* Nor do the image caches touch the user caches, whose turn has not come.
LEMMA FrameCachesApart ==
  ASSUME NEW c \in FrameCaches, FrameUpdateLock(c) \/ FrameUpdate(c)
  PROVE  /\ UNCHANGED <<generator, mainI, mainJoint, CU!cache, DU!cache>>
         /\ mainPc \in FrameCaches
         /\ mainPc' \in FrameCaches \cup {"calibrated"}
  BY DEF FrameUpdateLock, FrameUpdate, FrameCaches, AfterCache, mainThread,
     calibrated, detected, CU!cache, DU!cache

-----------------------------------------------------------------------------
(* CalibratedUsers.                                                        *)

\* A step that changes nothing of what CalibratedUsers sees.
LEMMA CalibratedStutters ==
  ASSUME UNCHANGED <<generator, mainJoint, CU!cache>>,
         UNCHANGED <<CalibratedPc, CalibratedInside>>,
         CalibratedInside => UNCHANGED mainI
  PROVE  UNCHANGED CUP!vars
  BY DEF CUP!vars, CUP!mainThread, CUP!httpThread, CUP!cache, CU!cache

LEMMA CalibratedInitially == Init => CUP!Init
  BY DEF Init, CUP!Init, CU!InitCache, CUP!InitCache, CalibratedPc,
     CalibratedInside, FrameCaches, AtCallbacks, CU!Slots, CUP!Slots,
     CU!Joints, CUP!Joints, CU!NoPosition, CUP!NoPosition, CU!NoUser,
     CUP!NoUser, CUP!Requests, CUP!Ops, CUP!LookupOps

\* Its update() in the server is its update() alone.
LEMMA CalibratedUpdates ==
  ASSUME CalibratedUsersUpdate
  PROVE  CUP!Next
<1>. USE DEF CalibratedPc, CalibratedInside, FrameCaches, AtCallbacks,
             CUP!httpThread, CUP!cache, CU!cache, CU!httpThread
<1>0. CU!Update
  BY DEF CalibratedUsersUpdate
<1>1. CASE CU!UpdateLock
  <2>1. CUP!UpdateLock
    BY <1>1 DEF CU!UpdateLock, CUP!UpdateLock
  <2>. QED
    BY <2>1 DEF CUP!Next, CUP!Update
<1>2. CASE CU!UpdateUser
  <2>1. CUP!UpdateUser
    BY <1>2 DEF CU!UpdateUser, CUP!UpdateUser, CU!NumUsers, CUP!NumUsers,
       CU!UserId, CUP!UserId, CU!IsTracking, CUP!IsTracking
  <2>. QED
    BY <2>1 DEF CUP!Next, CUP!Update
<1>3. CASE CU!UpdateJoint
  <2>1. CUP!UpdateJoint
    BY <1>3 DEF CU!UpdateJoint, CUP!UpdateJoint, CU!UserId, CUP!UserId,
       CU!SkeletonJointPosition, CUP!SkeletonJointPosition
  <2>. QED
    BY <2>1 DEF CUP!Next, CUP!Update
<1>4. CASE CU!UpdateCount
  <2>1. CUP!UpdateCount
    BY <1>4 DEF CU!UpdateCount, CUP!UpdateCount, CU!UserId, CUP!UserId
  <2>. QED
    BY <2>1 DEF CUP!Next, CUP!Update
<1>5. CASE CU!UpdateUnlock
  <2>1. CUP!UpdateUnlock
    BY <1>5 DEF CU!UpdateUnlock, CUP!UpdateUnlock, CU!NumUsers, CUP!NumUsers
  <2>. QED
    BY <2>1 DEF CUP!Next, CUP!Update
<1>. QED
  BY <1>0, <1>1, <1>2, <1>3, <1>4, <1>5 DEF CU!Update

\* A frame begins for it when it begins for all.
LEMMA CalibratedFrames ==
  ASSUME WaitAndUpdateAll
  PROVE  CUP!Next
<1>1. CUP!WaitAndUpdateAll
  BY DEF WaitAndUpdateAll, CUP!WaitAndUpdateAll, CalibratedPc,
     CalibratedInside, FrameCaches, AtCallbacks, CUP!httpThread, CUP!cache,
     calibrated, CU!Scenes, CUP!Scenes
<1>. QED
  BY <1>1 DEF CUP!Next

\* DetectedUsers::update comes after it.
LEMMA CalibratedSkipsDetected ==
  ASSUME DetectedUsersUpdate
  PROVE  UNCHANGED CUP!vars
<1>1. /\ UNCHANGED <<generator, mainJoint, CU!cache>>
      /\ mainPc \in {"detected", "getUsers", "getCoM"}
      /\ mainPc' \in {"detected", "getUsers", "getCoM", "detect"}
  BY DEF DetectedUsersUpdate, DU!Update, DU!UpdateLock, DU!UpdateGetUsers,
     DU!UpdateCount, DU!UpdateGetCoM, DU!UpdateUnlock, calibrated, CU!cache
<1>. QED
  BY <1>1, CalibratedStutters
  DEF CalibratedPc, CalibratedInside, FrameCaches, AtCallbacks

\* Nor does a broadcast change what it sees, wherever it ends.
LEMMA CalibratedSkipsBroadcast ==
  ASSUME Detect \/ BroadcastReturns \/ BroadcastThrows
  PROVE  UNCHANGED CUP!vars
<1>1. /\ UNCHANGED <<generator, mainJoint, CU!cache>>
      /\ UNCHANGED <<CalibratedPc, CalibratedInside>> /\ ~CalibratedInside
  BY DEF Detect, BroadcastReturns, BroadcastThrows, CalibratedPc,
     CalibratedInside, FrameCaches, AtCallbacks, calibrated, CU!cache
<1>. QED
  BY <1>1, CalibratedStutters

\* The server implements CalibratedUsers.
THEOREM CalibratedUsersImplemented == Spec => CUP!Spec
<1>1. ASSUME [Next]_vars
      PROVE  [CUP!Next]_(CUP!vars)
  <2>1. ASSUME UNCHANGED updated
        PROVE  UNCHANGED CUP!vars
    BY <2>1, CalibratedStutters DEF updated, mainThread, CalibratedPc,
       CalibratedInside
  <2>2. ASSUME NEW c \in FrameCaches, FrameUpdateLock(c) \/ FrameUpdate(c)
        PROVE  UNCHANGED CUP!vars
    BY <2>2, FrameCachesApart, CalibratedStutters DEF CalibratedPc,
       CalibratedInside, FrameCaches, AtCallbacks
  <2>3. CASE MainThread \/ BroadcastReturns \/ BroadcastThrows
    BY <2>2, <2>3, CalibratedFrames, CalibratedUpdates,
       CalibratedSkipsDetected, CalibratedSkipsBroadcast DEF MainThread
  <2>4. CASE HandleRequest \/ HandlerThread
    BY <2>1, <2>4, HttpUpdatesNothing
  <2>5. CASE UNCHANGED vars
    BY <2>1, <2>5 DEF vars, updated, frameCaches, calibrated, detected,
       CU!cache, DU!cache
  <2>. QED
    BY <1>1, <2>3, <2>4, <2>5 DEF Next
<1>. QED
  BY <1>1, CalibratedInitially, PTL DEF Spec, CUP!Spec

-----------------------------------------------------------------------------
(* DetectedUsers.                                                          *)

LEMMA DetectedStutters ==
  ASSUME UNCHANGED <<generator, DU!cache, DetectedPc, DetectedInside>>,
         DetectedInside => UNCHANGED mainI
  PROVE  UNCHANGED DUP!vars
  BY DEF DUP!vars, DUP!mainThread, DUP!httpThread, DUP!cache, DU!cache

LEMMA DetectedInitially == Init => DUP!Init
  BY DEF Init, DUP!Init, DU!InitCache, DUP!InitCache, DetectedPc,
     DetectedInside, DU!Slots, DUP!Slots, DU!NoPoint, DUP!NoPoint, DU!NoUser,
     DUP!NoUser, DUP!Requests, DUP!LockFirstOps

\* Its update() in the server is its update() alone.
LEMMA DetectedUpdates ==
  ASSUME DetectedUsersUpdate
  PROVE  DUP!Next
<1>. USE DEF DetectedPc, DetectedInside, DUP!httpThread, DUP!cache, DU!cache,
             DU!httpThread, DU!NumUsers, DUP!NumUsers, DU!GetCoM, DUP!GetCoM
<1>0. DU!Update
  BY DEF DetectedUsersUpdate
<1>1. CASE DU!UpdateLock
  <2>1. DUP!UpdateLock
    BY <1>1 DEF DU!UpdateLock, DUP!UpdateLock
  <2>. QED
    BY <2>1 DEF DUP!Next, DUP!Update
<1>2. CASE DU!UpdateGetUsers
  <2>1. DUP!UpdateGetUsers
    BY <1>2 DEF DU!UpdateGetUsers, DUP!UpdateGetUsers
  <2>. QED
    BY <2>1 DEF DUP!Next, DUP!Update
<1>3. CASE DU!UpdateCount
  <2>1. DUP!UpdateCount
    BY <1>3 DEF DU!UpdateCount, DUP!UpdateCount
  <2>. QED
    BY <2>1 DEF DUP!Next, DUP!Update
<1>4. CASE DU!UpdateGetCoM
  <2>1. DUP!UpdateGetCoM
    BY <1>4 DEF DU!UpdateGetCoM, DUP!UpdateGetCoM
  <2>. QED
    BY <2>1 DEF DUP!Next, DUP!Update
<1>5. CASE DU!UpdateUnlock
  <2>1. DUP!UpdateUnlock
    BY <1>5 DEF DU!UpdateUnlock, DUP!UpdateUnlock
  <2>. QED
    BY <2>1 DEF DUP!Next, DUP!Update
<1>. QED
  BY <1>0, <1>1, <1>2, <1>3, <1>4, <1>5 DEF DU!Update

LEMMA DetectedFrames ==
  ASSUME WaitAndUpdateAll
  PROVE  DUP!Next
<1>1. /\ DetectedPc = "wait" /\ DetectedPc' = "detected"
      /\ ~DetectedInside /\ ~DetectedInside' /\ UNCHANGED detected
  BY DEF WaitAndUpdateAll, DetectedPc, DetectedInside
<1>2. /\ generator'.users \in DUP!Scenes
      /\ generator'.frame = (generator.frame + 1) % FrameTags
  BY DEF WaitAndUpdateAll, CU!Scenes, DUP!Scenes
<1>3. DUP!WaitAndUpdateAll
  BY <1>1, <1>2 DEF DUP!WaitAndUpdateAll, DUP!httpThread, DUP!cache, detected
<1>. QED
  BY <1>3 DEF DUP!Next

\* CalibratedUsers::update comes before it.
LEMMA DetectedSkipsCalibrated ==
  ASSUME CalibratedUsersUpdate
  PROVE  UNCHANGED DUP!vars
<1>1. /\ UNCHANGED <<generator, DU!cache>>
      /\ mainPc \in {"calibrated", "users", "joints"}
      /\ mainPc' \in {"calibrated", "users", "joints", "detected"}
  BY DEF CalibratedUsersUpdate, CU!Update, CU!UpdateLock, CU!UpdateUser,
     CU!UpdateJoint, CU!UpdateCount, CU!UpdateUnlock, detected, DU!cache
<1>. QED
  BY <1>1, DetectedStutters DEF DetectedPc, DetectedInside

\* detect() and its broadcast come after it, the callbacks before it.
LEMMA DetectedSkipsBroadcast ==
  ASSUME Detect \/ BroadcastReturns \/ BroadcastThrows
  PROVE  UNCHANGED DUP!vars
<1>1. /\ UNCHANGED <<generator, DU!cache, DetectedPc, DetectedInside>>
      /\ ~DetectedInside
  BY DEF Detect, BroadcastReturns, BroadcastThrows, DetectedPc,
     DetectedInside, detected, DU!cache
<1>. QED
  BY <1>1, DetectedStutters

\* The server implements DetectedUsers.
THEOREM DetectedUsersImplemented == Spec => DUP!Spec
<1>1. ASSUME [Next]_vars
      PROVE  [DUP!Next]_(DUP!vars)
  <2>1. ASSUME UNCHANGED updated
        PROVE  UNCHANGED DUP!vars
    BY <2>1, DetectedStutters DEF updated, mainThread, DetectedPc,
       DetectedInside
  <2>2. ASSUME NEW c \in FrameCaches, FrameUpdateLock(c) \/ FrameUpdate(c)
        PROVE  UNCHANGED DUP!vars
    BY <2>2, FrameCachesApart, DetectedStutters DEF DetectedPc,
       DetectedInside, FrameCaches
  <2>3. CASE MainThread \/ BroadcastReturns \/ BroadcastThrows
    BY <2>2, <2>3, DetectedFrames, DetectedUpdates, DetectedSkipsCalibrated,
       DetectedSkipsBroadcast DEF MainThread
  <2>4. CASE HandleRequest \/ HandlerThread
    BY <2>1, <2>4, HttpUpdatesNothing
  <2>5. CASE UNCHANGED vars
    BY <2>1, <2>5 DEF vars, updated, frameCaches, calibrated, detected,
       CU!cache, DU!cache
  <2>. QED
    BY <1>1, <2>3, <2>4, <2>5 DEF Next
<1>. QED
  BY <1>1, DetectedInitially, PTL DEF Spec, DUP!Spec

-----------------------------------------------------------------------------
(* The image caches, and all six together.                                 *)

Done ==
  [callbacks |-> {}, exitCallbacks |-> {},
   depthMap |-> {}, rgbImage |-> {"depthMap"},
   depthImage |-> {"depthMap", "rgbImage"},
   pointCloud |-> {"depthMap", "rgbImage", "depthImage"}]

\* The caches that updateData() has been at have the frame.
FramesInv ==
  /\ DOMAIN frameMD = FrameCaches
  /\ \A c \in IF mainPc \in DOMAIN Done THEN Done[mainPc] ELSE FrameCaches :
       frameMD[c] = generator.frame

LEMMA FramesInvariance == Spec => []FramesInv
<1>1. Init => FramesInv
  BY DEF Init, FramesInv, FrameCaches, Done
<1>2. ASSUME FramesInv, [Next]_vars
      PROVE  FramesInv'
  <2>. USE DEF FramesInv
  <2>1. ASSUME UNCHANGED updated
        PROVE  FramesInv'
    BY <1>2, <2>1 DEF updated, mainThread
  <2>2. CASE WaitAndUpdateAll
    BY <1>2, <2>2 DEF WaitAndUpdateAll, frameCaches, Done
  <2>3. ASSUME NEW c \in FrameCaches, FrameUpdateLock(c)
        PROVE  FramesInv'
    BY <1>2, <2>3 DEF FrameUpdateLock, mainThread
  <2>4. ASSUME NEW c \in FrameCaches, FrameUpdate(c)
        PROVE  FramesInv'
    BY <1>2, <2>4 DEF FrameUpdate, AfterCache, Done, FrameCaches
  <2>5. CASE CalibratedUsersUpdate
    <3>1. /\ UNCHANGED <<generator, frameMD>>
          /\ mainPc \notin DOMAIN Done /\ mainPc' \notin DOMAIN Done
      BY <2>5 DEF CalibratedUsersUpdate, CU!Update, CU!UpdateLock,
         CU!UpdateUser, CU!UpdateJoint, CU!UpdateCount, CU!UpdateUnlock,
         frameCaches, Done
    <3>. QED
      BY <1>2, <3>1
  <2>6. CASE DetectedUsersUpdate
    <3>1. /\ UNCHANGED <<generator, frameMD>>
          /\ mainPc \notin DOMAIN Done /\ mainPc' \notin DOMAIN Done
      BY <2>6 DEF DetectedUsersUpdate, DU!Update, DU!UpdateLock,
         DU!UpdateGetUsers, DU!UpdateCount, DU!UpdateGetCoM,
         DU!UpdateUnlock, frameCaches, Done
    <3>. QED
      BY <1>2, <3>1
  <2>7. CASE Detect \/ BroadcastReturns \/ BroadcastThrows
    BY <1>2, <2>7 DEF Detect, BroadcastReturns, BroadcastThrows, frameCaches,
                      Done, FrameCaches
  <2>8. CASE HandleRequest \/ HandlerThread
    BY <2>1, <2>8, HttpUpdatesNothing
  <2>9. CASE UNCHANGED vars
    BY <2>1, <2>9 DEF vars, updated, frameCaches, calibrated, detected,
       CU!cache, DU!cache
  <2>. QED
    BY <1>2, <2>2, <2>3, <2>4, <2>5, <2>6, <2>7, <2>8, <2>9
    DEF Next, MainThread
<1>. QED
  BY <1>1, <1>2, PTL DEF Spec

\* What is proved of the two classes alone, of this server's.
LEMMA UserCachesMirror ==
  Spec => [](/\ CUP!TypeOK /\ CUP!MirrorsTracked
             /\ DUP!TypeOK /\ DUP!MirrorsScene)
<1>1. CUP!Spec => []CUP!TypeOK
  BY CacheAssumptions, CUP!Types
<1>2. CUP!Spec => []CUP!MirrorsTracked
  BY CacheAssumptions, CUP!TrackedMirrored
<1>3. DUP!Spec => []DUP!TypeOK
  BY CacheAssumptions, DUP!Types
<1>4. DUP!Spec => []DUP!MirrorsScene
  BY CacheAssumptions, DUP!SceneMirrored
<1>. QED
  BY <1>1, <1>2, <1>3, <1>4, CalibratedUsersImplemented,
     DetectedUsersImplemented, PTL

\* When the last update() has returned all six caches show the same frame, and
\* every user with a skeleton is a user detected, whatever the HTTP thread
\* asked for meanwhile, while detect() broadcasts too.
THEOREM AllCachesAgree == Spec => []CachesAgree
<1>1. ASSUME FramesInv, CUP!TypeOK, CUP!MirrorsTracked, DUP!TypeOK,
             DUP!MirrorsScene
      PROVE  CachesAgree
  <2>. SUFFICES ASSUME mainPc \in {"detect", "broadcast", "wait"}
                PROVE  CachesAgree
    BY DEF CachesAgree
  <2>1. \A c \in FrameCaches : frameMD[c] = generator.frame
    BY <1>1 DEF FramesInv, FrameCaches, Done
  <2>2. CalibratedPc = "wait" /\ DetectedPc = "wait"
    BY DEF CalibratedPc, CalibratedInside, DetectedPc, DetectedInside,
           FrameCaches, AtCallbacks
  <2>3. CU!ShowsTracked
    BY <1>1, <2>2 DEF CUP!MirrorsTracked, CU!ShowsTracked, CUP!ShowsTracked,
       CU!Slots, CUP!Slots, CU!IsTracking, CUP!IsTracking,
       CU!WholeSkeleton, CUP!WholeSkeleton, CU!Joints, CUP!Joints
  <2>4. DU!ShowsScene
    BY <1>1, <2>2 DEF DUP!MirrorsScene, DU!ShowsScene, DUP!ShowsScene,
       DU!NumUsers, DUP!NumUsers, DU!Slots, DUP!Slots, DU!GetCoM, DUP!GetCoM
  <2>5. ASSUME MaxUsersNum >= MaxScene, NEW i \in 0 .. calibratedCount - 1
        PROVE  \E k \in 0 .. detectedUsersCount - 1 :
                 detectedUsers[k] = calibratedUsers[i]
    <3>. DEFINE users == generator.users
    <3>1. /\ Len(users) \in Nat /\ Len(users) <= MaxScene
          /\ DOMAIN users = 1 .. Len(users)
      <4>1. PICK n \in 0 .. MaxScene : users \in [1 .. n -> UserIds]
        BY <1>1 DEF CUP!TypeOK, CUP!Scenes
      <4>. QED
        BY <4>1, HttpServerAssumption DEF HttpServerAssumption
    <3>2. detectedUsersCount = Len(users) /\ DU!NumUsers = Len(users)
      BY <2>2, <2>4, <2>5, <3>1, HttpServerAssumption
      DEF DU!ShowsScene, DU!NumUsers, HttpServerAssumption
    <3>3. i \in CU!Slots /\ i < calibratedCount
      BY <1>1, HttpServerAssumption DEF CUP!TypeOK, CU!Slots,
         HttpServerAssumption
    <3>4. CU!IsTracking(calibratedUsers[i])
      BY <2>3, <3>3 DEF CU!ShowsTracked
    <3>5. PICK j \in 1 .. Len(users) : calibratedUsers[i] = users[j]
      BY <1>1, <3>1, <3>4 DEF CU!IsTracking, CUP!TypeOK
    <3>6. /\ j - 1 \in DU!Slots /\ j - 1 < DU!NumUsers /\ (j - 1) + 1 = j
          /\ j - 1 \in 0 .. detectedUsersCount - 1
      BY <2>5, <3>1, <3>2, HttpServerAssumption
      DEF DU!Slots, HttpServerAssumption
    <3>7. detectedUsers[j - 1] = users[j]
      BY <2>4, <3>6 DEF DU!ShowsScene
    <3>. QED
      BY <3>5, <3>6, <3>7
  <2>. QED
    BY <2>1, <2>3, <2>4, <2>5 DEF CachesAgree
<1>. QED
  BY <1>1, FramesInvariance, UserCachesMirror, PTL
=============================================================================
