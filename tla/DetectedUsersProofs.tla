------------------------ MODULE DetectedUsersProofs ------------------------
(***************************************************************************)
(* What DetectedUsers promises, for every set of users, every size of the  *)
(* arrays and every number of users in view.                               *)
(***************************************************************************)
EXTENDS DetectedUsers, TLAPS

MainInside == mainPc \in {"getUsers", "getCoM"}
HttpInside == httpPc \in LockFirstOps \cup ByIdOps

\* The mutex belongs to the thread inside; after a throw, to the HTTP thread.
LockInv ==
  /\ mutex = "main" <=> MainInside
  /\ HttpInside => mutex = "http" /\ httpPc = request.op
  /\ httpPc \in {"ids", "readId"} => request.op = "getUserIds"
  /\ httpPc = "byIdLock" => request.op \in ByIdOps
  /\ mainPc \notin {"getUsers", "getCoM"} => mainI = 0
  /\ MainInside => mainI <= NumUsers

\* How far update() has come.
Written(n) ==
  \A i \in Slots : i < n => detectedUsers[i] = generator.users[i + 1]
Measured(n) ==
  \A i \in Slots : i < n => centerPoint[i] = GetCoM(generator.users[i + 1])

UpdateInv ==
  /\ mainPc = "getUsers" => Written(mainI)
  /\ mainPc = "getCoM" =>
       detectedUsersCount = NumUsers /\ Written(NumUsers) /\ Measured(mainI)

\* Slots below the count, or already tested against it, hold real users.
SlotsInv ==
  /\ \A i \in Slots : i < detectedUsersCount => detectedUsers[i] \in UserIds
  /\ httpPc = "readId" => httpI \in Slots /\ detectedUsers[httpI] \in UserIds

\* How far the loop of getCenterPoints has come.
ReadInv ==
  /\ httpPc \in {"idle", "call", "byIdLock"} \cup ByIdOps => user = NoUser
  /\ httpPc = "getCenterPoints" =>
       /\ httpI <= detectedUsersCount
       /\ Len(user.ids) = httpI /\ Len(user.points) = httpI
       /\ \A k \in 1 .. httpI : /\ user.ids[k] = detectedUsers[k - 1]
                                /\ user.points[k] = centerPoint[k - 1]
  /\ httpPc \in {"idle", "call"} => httpI = 0

\* The properties are not inductive alone: WholeFrame after UpdateUnlock needs
\* UpdateInv, CenterPointsSnapshot needs ReadInv, UserIdsReal needs SlotsInv,
\* and all of them need to know who holds the mutex.
IInv ==
  /\ TypeOK /\ LockInv /\ UpdateInv /\ SlotsInv /\ ReadInv
  /\ WholeFrame /\ MirrorsScene /\ CenterPointsSnapshot /\ ByIdData
  /\ UserIdsReal

\* A frame's users are a sequence without repetitions.
LEMMA SceneFacts ==
  ASSUME NEW s \in Scenes
  PROVE  /\ s \in Seq(UserIds) /\ Len(s) \in Nat
         /\ \A i \in 1 .. Len(s) : s[i] \in UserIds
         /\ \A i, j \in 1 .. Len(s) : s[i] = s[j] => i = j
<1>1. PICK n \in 0 .. MaxScene : s \in [1 .. n -> UserIds]
  BY DEF Scenes
<1>2. s \in Seq(UserIds) /\ Len(s) = n /\ DOMAIN s = 1 .. n
  BY <1>1, DetectedUsersAssumption DEF DetectedUsersAssumption
<1>. QED
  BY <1>1, <1>2, DetectedUsersAssumption DEF Scenes, DetectedUsersAssumption

\* What GetUsers returns: as many users as fit, all real, all different.
LEMMA NumUsersFacts ==
  ASSUME TypeOK
  PROVE  /\ NumUsers \in 0 .. MaxUsersNum
         /\ \A i \in Slots : i < NumUsers =>
              /\ generator.users[i + 1] \in UserIds
              /\ GetCoM(generator.users[i + 1]) \in CentersOfMass
         /\ \A i, j \in Slots :
              /\ i < NumUsers /\ j < NumUsers
              /\ generator.users[i + 1] = generator.users[j + 1]
              => i = j
<1>1. generator.users \in Scenes /\ generator.frame \in 0 .. FrameTags - 1
  BY DEF TypeOK
<1>. DEFINE s == generator.users
<1>2. /\ Len(s) \in Nat
      /\ \A i \in 1 .. Len(s) : s[i] \in UserIds
      /\ \A i, j \in 1 .. Len(s) : s[i] = s[j] => i = j
  BY <1>1, SceneFacts
<1>3. NumUsers \in 0 .. MaxUsersNum /\ NumUsers <= Len(s)
  BY <1>2, DetectedUsersAssumption DEF NumUsers, DetectedUsersAssumption
<1>4. \A i \in Slots : i < NumUsers => i + 1 \in 1 .. Len(s)
  BY <1>2, <1>3, DetectedUsersAssumption DEF Slots, DetectedUsersAssumption
<1>5. \A i, j \in Slots : i + 1 = j + 1 => i = j
  BY DEF Slots
<1>. QED
  BY <1>1, <1>2, <1>3, <1>4, <1>5 DEF GetCoM, CentersOfMass

\* A step that leaves the HTTP thread alone keeps what the answers promise.
LEMMA RepliesKept ==
  ASSUME IInv, UNCHANGED <<httpThread, request>>
  PROVE  CenterPointsSnapshot' /\ ByIdData' /\ UserIdsReal'
<1>1. CenterPointsSnapshot'
  BY DEF IInv, TypeOK, CenterPointsSnapshot, httpThread
<1>2. ByIdData'
  BY DEF IInv, ByIdData, httpThread
<1>3. UserIdsReal'
  BY DEF IInv, UserIdsReal, httpThread
<1>. QED
  BY <1>1, <1>2, <1>3

\* A step of the HTTP thread keeps what update() promises.
LEMMA CacheKept ==
  ASSUME IInv, UNCHANGED <<generator, mainThread, cache>>,
         mutex' = "main" <=> mutex = "main"
  PROVE  UpdateInv' /\ WholeFrame' /\ MirrorsScene'
<1>1. UpdateInv'
  BY DEF IInv, UpdateInv, Written, Measured, cache, mainThread, NumUsers,
     GetCoM
<1>2. WholeFrame'
  BY DEF IInv, WholeFrame, cache
<1>3. MirrorsScene'
  BY DEF IInv, MirrorsScene, ShowsScene, cache, mainThread, NumUsers, GetCoM
<1>. QED
  BY <1>1, <1>2, <1>3

\* WaitAndUpdateAll keeps the inductive invariant.
LEMMA WaitAndUpdateAllKeeps ==
  ASSUME IInv, WaitAndUpdateAll
  PROVE  IInv'
<1>1. TypeOK'
  <2>1. (generator.frame + 1) % FrameTags \in 0 .. FrameTags - 1
    BY DetectedUsersAssumption
       DEF IInv, TypeOK, DetectedUsersAssumption, WaitAndUpdateAll
  <2>. QED
    BY <2>1 DEF IInv, TypeOK, UpdatePcs, cache, httpThread, WaitAndUpdateAll
<1>2. LockInv'
  BY DEF IInv, LockInv, MainInside, HttpInside, httpThread, WaitAndUpdateAll
<1>3. UpdateInv'
  BY DEF UpdateInv, WaitAndUpdateAll
<1>4. SlotsInv'
  BY DEF IInv, SlotsInv, cache, httpThread, WaitAndUpdateAll
<1>5. ReadInv'
  BY DEF IInv, ReadInv, cache, httpThread, WaitAndUpdateAll
<1>6. WholeFrame'
  BY DEF IInv, WholeFrame, cache, WaitAndUpdateAll
<1>7. MirrorsScene'
  BY DetectedUsersAssumption DEF MirrorsScene, ShowsScene,
     DetectedUsersAssumption, WaitAndUpdateAll
<1>. QED
  BY <1>1, <1>2, <1>3, <1>4, <1>5, <1>6, <1>7, RepliesKept
     DEF IInv, WaitAndUpdateAll

\* UpdateLock keeps the inductive invariant.
LEMMA UpdateLockKeeps ==
  ASSUME IInv, UpdateLock
  PROVE  IInv'
<1>1. TypeOK'
  BY DEF IInv, TypeOK, LockInv, UpdatePcs, cache, httpThread, UpdateLock
<1>2. LockInv'
  BY DEF IInv, TypeOK, LockInv, MainInside, HttpInside, httpThread, NumUsers,
     UpdateLock
<1>3. UpdateInv'
  BY DEF UpdateInv, Written, Slots, UpdateLock
<1>4. SlotsInv'
  BY DEF IInv, SlotsInv, cache, httpThread, UpdateLock
<1>5. ReadInv'
  BY DEF IInv, ReadInv, cache, httpThread, UpdateLock
<1>6. WholeFrame'
  BY DEF WholeFrame, UpdateLock
<1>7. MirrorsScene'
  BY DetectedUsersAssumption DEF MirrorsScene, ShowsScene,
     DetectedUsersAssumption, UpdateLock
<1>. QED
  BY <1>1, <1>2, <1>3, <1>4, <1>5, <1>6, <1>7, RepliesKept DEF IInv, UpdateLock

\* UpdateGetUsers keeps the inductive invariant.
LEMMA UpdateGetUsersKeeps ==
  ASSUME IInv, UpdateGetUsers
  PROVE  IInv'
<1>1. TypeOK'
  <2>1. mainI \in Slots /\ mainI + 1 \in 0 .. MaxUsersNum
    BY NumUsersFacts, DetectedUsersAssumption
       DEF IInv, TypeOK, Slots, DetectedUsersAssumption, UpdateGetUsers
  <2>2. generator.users[mainI + 1] \in Users
    BY <2>1, NumUsersFacts DEF IInv, Users, UpdateGetUsers
  <2>. QED
    BY <2>1, <2>2 DEF IInv, TypeOK, httpThread, UpdateGetUsers
<1>2. LockInv'
  BY DetectedUsersAssumption DEF IInv, TypeOK, LockInv, MainInside,
     HttpInside, httpThread, DetectedUsersAssumption, NumUsers, UpdateGetUsers
<1>3. UpdateInv'
  BY DEF IInv, TypeOK, LockInv, UpdateInv, Written, Slots, UpdateGetUsers
<1>4. SlotsInv'
  BY NumUsersFacts DEF IInv, SlotsInv, httpThread, CentersOfMass,
     UpdateGetUsers
<1>5. ReadInv'
  BY DEF IInv, LockInv, MainInside, HttpInside, ReadInv, LockFirstOps,
     httpThread, UpdateGetUsers
<1>6. WholeFrame'
  BY DEF IInv, LockInv, MainInside, WholeFrame, UpdateGetUsers
<1>7. MirrorsScene'
  BY DEF IInv, MirrorsScene, ShowsScene, NumUsers, GetCoM, UpdateGetUsers
<1>. QED
  BY <1>1, <1>2, <1>3, <1>4, <1>5, <1>6, <1>7, RepliesKept
     DEF IInv, UpdateGetUsers

\* UpdateCount keeps the inductive invariant.
LEMMA UpdateCountKeeps ==
  ASSUME IInv, UpdateCount
  PROVE  IInv'
<1>1. TypeOK'
  BY DetectedUsersAssumption DEF IInv, TypeOK, UpdatePcs, httpThread,
     DetectedUsersAssumption, UpdateCount
<1>2. LockInv'
  BY DEF IInv, TypeOK, LockInv, MainInside, HttpInside, httpThread, NumUsers,
     UpdateCount
<1>3. UpdateInv'
  BY DEF IInv, UpdateInv, Written, Measured, Slots, NumUsers, UpdateCount
<1>4. SlotsInv'
  BY NumUsersFacts DEF IInv, UpdateInv, Written, SlotsInv, httpThread,
     UpdateCount
<1>5. ReadInv'
  BY DEF IInv, LockInv, MainInside, HttpInside, ReadInv, LockFirstOps,
     httpThread, UpdateCount
<1>6. WholeFrame'
  BY DEF IInv, LockInv, MainInside, WholeFrame, UpdateCount
<1>7. MirrorsScene'
  BY DetectedUsersAssumption DEF MirrorsScene, ShowsScene,
     DetectedUsersAssumption, UpdateCount
<1>. QED
  BY <1>1, <1>2, <1>3, <1>4, <1>5, <1>6, <1>7, RepliesKept
     DEF IInv, UpdateCount

\* UpdateGetCoM keeps the inductive invariant.
LEMMA UpdateGetCoMKeeps ==
  ASSUME IInv, UpdateGetCoM
  PROVE  IInv'
<1>1. TypeOK'
  BY DetectedUsersAssumption DEF IInv, TypeOK, LockInv, UpdateInv, SlotsInv,
     Slots, NoPoint, httpThread, DetectedUsersAssumption, CentersOfMass,
     GetCoM, UpdateGetCoM
<1>2. LockInv'
  BY DEF IInv, TypeOK, LockInv, MainInside, HttpInside, UpdateInv, httpThread,
     NumUsers, UpdateGetCoM
<1>3. UpdateInv'
  BY DEF IInv, TypeOK, UpdateInv, Written, Measured, Slots, httpThread,
     NumUsers, GetCoM, UpdateGetCoM
<1>4. SlotsInv'
  BY DEF IInv, SlotsInv, httpThread, UpdateGetCoM
<1>5. ReadInv'
  BY DEF IInv, LockInv, MainInside, HttpInside, ReadInv, LockFirstOps,
     httpThread, UpdateGetCoM
<1>6. WholeFrame'
  BY DEF IInv, LockInv, MainInside, WholeFrame, UpdateGetCoM
<1>7. MirrorsScene'
  BY DEF IInv, MirrorsScene, ShowsScene, NumUsers, GetCoM, UpdateGetCoM
<1>. QED
  BY <1>1, <1>2, <1>3, <1>4, <1>5, <1>6, <1>7, RepliesKept
     DEF IInv, UpdateGetCoM

\* UpdateUnlock keeps the inductive invariant.
LEMMA UpdateUnlockKeeps ==
  ASSUME IInv, UpdateUnlock
  PROVE  IInv'
<1>1. TypeOK'
  BY DetectedUsersAssumption DEF IInv, TypeOK, cache, httpThread,
     DetectedUsersAssumption, UpdateUnlock
<1>2. LockInv'
  BY DetectedUsersAssumption DEF IInv, LockInv, MainInside, HttpInside,
     httpThread, DetectedUsersAssumption, UpdateUnlock
<1>3. UpdateInv'
  BY DEF IInv, UpdateInv, Written, Measured, Slots, cache, NumUsers,
     UpdateUnlock
<1>4. SlotsInv'
  BY DEF IInv, SlotsInv, cache, httpThread, UpdateUnlock
<1>5. ReadInv'
  BY DEF IInv, ReadInv, cache, httpThread, UpdateUnlock
<1>6. WholeFrame'
  <2>. DEFINE tag == generator.frame
  <2>1. /\ detectedUsersCount = NumUsers /\ UNCHANGED cache
        /\ \A i \in Slots : i < NumUsers =>
             /\ detectedUsers[i] = generator.users[i + 1]
             /\ centerPoint[i] = [user |-> detectedUsers[i], frame |-> tag]
    BY DEF IInv, UpdateInv, LockInv, MainInside, Written, Measured, GetCoM,
           UpdateUnlock
  <2>2. tag \in 0 .. FrameTags - 1
    BY DEF IInv, TypeOK
  <2>. QED
    BY <2>1, <2>2, NumUsersFacts DEF IInv, WholeFrame, cache
<1>7. MirrorsScene'
  BY DEF IInv, UpdateInv, Written, Measured, MirrorsScene, ShowsScene, cache,
     NumUsers, GetCoM, UpdateUnlock
<1>. QED
  BY <1>1, <1>2, <1>3, <1>4, <1>5, <1>6, <1>7, RepliesKept
     DEF IInv, UpdateUnlock

\* HandleRequest keeps the inductive invariant.
LEMMA HandleRequestKeeps ==
  ASSUME IInv, HandleRequest
  PROVE  IInv'
<1>1. TypeOK'
  BY DEF IInv, TypeOK, HttpPcs, cache, mainThread, HandleRequest
<1>2. LockInv' /\ SlotsInv'
  BY DEF IInv, LockInv, MainInside, HttpInside, SlotsInv, ByIdOps,
     LockFirstOps, cache, mainThread, NumUsers, HandleRequest
<1>3. ReadInv'
  BY DEF IInv, ReadInv, HandleRequest
<1>4. CenterPointsSnapshot'
  BY DEF CenterPointsSnapshot, HandleRequest
<1>5. ByIdData'
  BY DEF ByIdData, HandleRequest
<1>6. UserIdsReal'
  BY DEF IInv, ReadInv, UserIdsReal, NoUser, HandleRequest
<1>. QED
  BY <1>1, <1>2, <1>3, <1>4, <1>5, <1>6, CacheKept
     DEF IInv, LockInv, HttpInside,
     LockFirstOps, ByIdOps, HandleRequest

\* GetUserIds keeps the inductive invariant.
LEMMA GetUserIdsKeeps ==
  ASSUME IInv, GetUserIds
  PROVE  IInv'
<1>1. TypeOK'
  BY DEF IInv, TypeOK, HttpPcs, cache, mainThread, GetUserIds
<1>2. LockInv' /\ SlotsInv'
  BY DEF IInv, LockInv, MainInside, HttpInside, SlotsInv, ByIdOps,
     LockFirstOps, cache, mainThread, NumUsers, GetUserIds
<1>3. ReadInv'
  BY DEF ReadInv, ByIdOps, GetUserIds
<1>4. CenterPointsSnapshot'
  BY DEF CenterPointsSnapshot, GetUserIds
<1>5. ByIdData'
  BY DEF ByIdData, ByIdOps, GetUserIds
<1>6. UserIdsReal'
  BY DEF IInv, UserIdsReal, GetUserIds
<1>. QED
  BY <1>1, <1>2, <1>3, <1>4, <1>5, <1>6, CacheKept
     DEF IInv, LockInv, HttpInside,
     LockFirstOps, ByIdOps, GetUserIds

\* GetUserIdsLoop keeps the inductive invariant.
LEMMA GetUserIdsLoopKeeps ==
  ASSUME IInv, GetUserIdsLoop
  PROVE  IInv'
<1>1. TypeOK'
  BY DEF IInv, TypeOK, HttpPcs, cache, mainThread, GetUserIdsLoop
<1>2. LockInv' /\ SlotsInv'
  BY DetectedUsersAssumption DEF IInv, TypeOK, LockInv, MainInside,
     HttpInside, SlotsInv, Slots, ByIdOps, LockFirstOps, cache, mainThread,
     DetectedUsersAssumption, NumUsers, GetUserIdsLoop
<1>3. ReadInv'
  BY DEF ReadInv, ByIdOps, GetUserIdsLoop
<1>4. CenterPointsSnapshot'
  BY DEF IInv, LockInv, CenterPointsSnapshot, GetUserIdsLoop
<1>5. ByIdData'
  BY DEF IInv, LockInv, ByIdData, ByIdOps, GetUserIdsLoop
<1>6. UserIdsReal'
  BY DEF IInv, UserIdsReal, GetUserIdsLoop
<1>. QED
  BY <1>1, <1>2, <1>3, <1>4, <1>5, <1>6, CacheKept
     DEF IInv, LockInv, HttpInside,
     LockFirstOps, ByIdOps, GetUserIdsLoop

\* GetUserIdsRead keeps the inductive invariant.
LEMMA GetUserIdsReadKeeps ==
  ASSUME IInv, GetUserIdsRead
  PROVE  IInv'
<1>1. TypeOK'
  <2>1. detectedUsers[httpI] \in Users
    BY DEF IInv, SlotsInv, GetUserIdsRead, Users
  <2>2. Append(user.ids, detectedUsers[httpI]) \in Seq(Users)
    BY <2>1 DEF IInv, TypeOK
  <2>3. user' \in [ids : Seq(Users),
                  points : Seq(CentersOfMass \cup {NoPoint}),
                  number : 0 .. MaxUsersNum]
    BY <2>2 DEF IInv, TypeOK, GetUserIdsRead
  <2>. QED
    BY <2>3 DEF IInv, TypeOK, GetUserIdsRead, cache, mainThread, HttpPcs
<1>2. LockInv' /\ SlotsInv'
  BY DEF IInv, LockInv, MainInside, HttpInside, SlotsInv, ByIdOps,
     LockFirstOps, cache, mainThread, NumUsers, GetUserIdsRead
<1>3. ReadInv'
  BY DEF ReadInv, ByIdOps, GetUserIdsRead
<1>4. CenterPointsSnapshot'
  BY DEF CenterPointsSnapshot, GetUserIdsRead
<1>5. ByIdData'
  BY DEF ByIdData, GetUserIdsRead
<1>6. UserIdsReal'
  <2>1. detectedUsers[httpI] \in UserIds /\ user.ids \in Seq(Users)
        /\ user'.ids = Append(user.ids, detectedUsers[httpI])
    BY DEF IInv, TypeOK, SlotsInv, GetUserIdsRead
  <2>2. ASSUME request.op = "getUserIds", NEW k \in DOMAIN user'.ids
        PROVE  user'.ids[k] \in UserIds
    BY <2>1, <2>2 DEF IInv, UserIdsReal
  <2>. QED
    BY <2>2 DEF UserIdsReal, GetUserIdsRead
<1>. QED
  BY <1>1, <1>2, <1>3, <1>4, <1>5, <1>6, CacheKept
     DEF IInv, LockInv, HttpInside,
     LockFirstOps, ByIdOps, GetUserIdsRead

\* GetterLock keeps the inductive invariant.
LEMMA GetterLockKeeps ==
  ASSUME IInv, GetterLock
  PROVE  IInv'
<1>1. TypeOK'
  BY DEF IInv, TypeOK, LockInv, HttpPcs, cache, mainThread, GetterLock
<1>2. LockInv' /\ SlotsInv'
  BY DEF IInv, LockInv, MainInside, SlotsInv, ByIdOps, LockFirstOps, cache,
     mainThread, GetterLock
<1>3. ReadInv'
  BY DEF IInv, TypeOK, LockInv, ReadInv, ByIdOps, NoUser, cache, GetterLock
<1>4. CenterPointsSnapshot'
  BY DEF CenterPointsSnapshot, GetterLock
<1>5. ByIdData'
  BY DEF ByIdData, ByIdOps, GetterLock
<1>6. UserIdsReal'
  BY DEF IInv, UserIdsReal, GetterLock
<1>. QED
  BY <1>1, <1>2, <1>3, <1>4, <1>5, <1>6, CacheKept
     DEF IInv, LockInv, HttpInside,
     LockFirstOps, ByIdOps, GetterLock

\* GetNumberOfDetectedUsers keeps the inductive invariant.
LEMMA GetNumberOfDetectedUsersKeeps ==
  ASSUME IInv, GetNumberOfDetectedUsers
  PROVE  IInv'
<1>1. TypeOK'
  BY DEF IInv, TypeOK, HttpPcs, cache, mainThread, GetNumberOfDetectedUsers
<1>2. LockInv' /\ SlotsInv'
  BY DEF IInv, LockInv, MainInside, HttpInside, SlotsInv, ByIdOps,
     LockFirstOps, cache, mainThread, GetNumberOfDetectedUsers
<1>3. ReadInv'
  BY DEF ReadInv, ByIdOps, GetNumberOfDetectedUsers
<1>4. CenterPointsSnapshot'
  BY DEF IInv, LockInv, HttpInside, CenterPointsSnapshot, LockFirstOps,
     GetNumberOfDetectedUsers
<1>5. ByIdData'
  BY DEF IInv, LockInv, HttpInside, ByIdData, ByIdOps, LockFirstOps,
     GetNumberOfDetectedUsers
<1>6. UserIdsReal'
  BY DEF IInv, UserIdsReal, GetNumberOfDetectedUsers
<1>. QED
  BY <1>1, <1>2, <1>3, <1>4, <1>5, <1>6, CacheKept
     DEF IInv, LockInv, HttpInside,
     LockFirstOps, ByIdOps, GetNumberOfDetectedUsers

\* GetCenterPointsRead keeps the inductive invariant.
LEMMA GetCenterPointsReadKeeps ==
  ASSUME IInv, GetCenterPointsRead
  PROVE  IInv'
<1>1. TypeOK'
  <2>1. httpI \in Slots
    BY DetectedUsersAssumption
       DEF IInv, TypeOK, GetCenterPointsRead, Slots, DetectedUsersAssumption
  <2>2. /\ Append(user.ids, detectedUsers[httpI]) \in Seq(Users)
        /\ Append(user.points, centerPoint[httpI])
             \in Seq(CentersOfMass \cup {NoPoint})
    BY <2>1 DEF IInv, TypeOK
  <2>3. user' \in [ids : Seq(Users),
                  points : Seq(CentersOfMass \cup {NoPoint}),
                  number : 0 .. MaxUsersNum]
    BY <2>2 DEF IInv, TypeOK, GetCenterPointsRead
  <2>. QED
    BY <2>3 DEF IInv, TypeOK, GetCenterPointsRead, cache, mainThread
<1>2. LockInv' /\ SlotsInv'
  BY DEF IInv, LockInv, MainInside, HttpInside, SlotsInv, cache, mainThread,
     NumUsers, GetCenterPointsRead
<1>3. ReadInv'
  <2>1. /\ user.ids \in Seq(Users)
        /\ user.points \in Seq(CentersOfMass \cup {NoPoint})
        /\ httpI \in Nat /\ httpI < detectedUsersCount
        /\ detectedUsersCount \in Nat
        /\ Len(user.ids) = httpI /\ Len(user.points) = httpI
    BY DEF IInv, TypeOK, ReadInv, GetCenterPointsRead
  <2>2. /\ user'.ids = Append(user.ids, detectedUsers[httpI])
        /\ user'.points = Append(user.points, centerPoint[httpI])
        /\ httpI' = httpI + 1 /\ httpPc' = "getCenterPoints"
        /\ UNCHANGED cache
    BY DEF IInv, TypeOK, GetCenterPointsRead
  <2>3. ASSUME NEW k \in 1 .. httpI'
        PROVE  /\ user'.ids[k] = detectedUsers[k - 1]
               /\ user'.points[k] = centerPoint[k - 1]
    <3>1. CASE k \in 1 .. httpI
      BY <2>1, <2>2, <3>1 DEF IInv, ReadInv, GetCenterPointsRead
    <3>2. CASE k = httpI + 1
      BY <2>1, <2>2, <3>2
    <3>. QED
      BY <2>1, <2>2, <3>1, <3>2
  <2>4. /\ Len(user'.ids) = httpI' /\ Len(user'.points) = httpI'
        /\ httpI' <= detectedUsersCount
    BY <2>1, <2>2
  <2>. QED
    BY <2>2, <2>3, <2>4 DEF ReadInv, cache, ByIdOps
<1>4. CenterPointsSnapshot'
  BY DEF CenterPointsSnapshot, GetCenterPointsRead
<1>5. ByIdData'
  BY DEF ByIdData, GetCenterPointsRead
<1>6. UserIdsReal'
  BY DEF IInv, LockInv, HttpInside, UserIdsReal, LockFirstOps,
     GetCenterPointsRead
<1>. QED
  BY <1>1, <1>2, <1>3, <1>4, <1>5, <1>6, CacheKept
     DEF IInv, LockInv, HttpInside,
     LockFirstOps, ByIdOps, GetCenterPointsRead

\* GetCenterPointsUnlock keeps the inductive invariant.
LEMMA GetCenterPointsUnlockKeeps ==
  ASSUME IInv, GetCenterPointsUnlock
  PROVE  IInv'
<1>1. TypeOK'
  BY DEF IInv, TypeOK, HttpPcs, cache, mainThread, GetCenterPointsUnlock
<1>2. LockInv' /\ SlotsInv'
  BY DEF IInv, LockInv, MainInside, HttpInside, SlotsInv, ByIdOps,
     LockFirstOps, cache, mainThread, GetCenterPointsUnlock
<1>3. ReadInv'
  BY DEF ReadInv, ByIdOps, GetCenterPointsUnlock
<1>4. CenterPointsSnapshot'
  <2>1. /\ mutex = "http" /\ httpI = detectedUsersCount /\ user' = user
        /\ Len(user.ids) = httpI /\ Len(user.points) = httpI
        /\ \A k \in 1 .. httpI : /\ user.ids[k] = detectedUsers[k - 1]
                                 /\ user.points[k] = centerPoint[k - 1]
    BY DEF IInv, TypeOK, ReadInv, LockInv, HttpInside, LockFirstOps,
           GetCenterPointsUnlock
  <2>2. PICK tag \in 0 .. FrameTags - 1 :
          \A i \in Slots : i < detectedUsersCount =>
            /\ centerPoint[i] = [user |-> detectedUsers[i], frame |-> tag]
            /\ \A j \in Slots :
                 j < detectedUsersCount /\ detectedUsers[i] = detectedUsers[j]
                   => i = j
    BY <2>1 DEF IInv, WholeFrame
  <2>3. \A k \in 1 .. httpI : k - 1 \in Slots /\ k - 1 < detectedUsersCount
    BY <2>1, DetectedUsersAssumption
       DEF IInv, TypeOK, Slots, DetectedUsersAssumption
  <2>4. DOMAIN user.ids = 1 .. httpI
    BY <2>1 DEF IInv, TypeOK
  <2>5. ASSUME NEW k \in 1 .. httpI
        PROVE  /\ user.points[k] = [user |-> user.ids[k], frame |-> tag]
               /\ \A l \in 1 .. httpI : user.ids[k] = user.ids[l] => k = l
    <3>1. user.points[k] = [user |-> user.ids[k], frame |-> tag]
      BY <2>1, <2>2, <2>3
    <3>2. ASSUME NEW l \in 1 .. httpI, user.ids[k] = user.ids[l]
          PROVE  k = l
      <4>1. k - 1 = l - 1
        BY <2>1, <2>2, <2>3, <3>2
      <4>. QED
        BY <4>1
    <3>. QED
      BY <3>1, <3>2
  <2>. QED
    BY <2>1, <2>4, <2>5 DEF CenterPointsSnapshot, OneFrame
<1>5. ByIdData'
  BY DEF IInv, LockInv, HttpInside, ByIdData, ByIdOps, LockFirstOps,
     GetCenterPointsUnlock
<1>6. UserIdsReal'
  BY DEF IInv, UserIdsReal, GetCenterPointsUnlock
<1>. QED
  BY <1>1, <1>2, <1>3, <1>4, <1>5, <1>6, CacheKept
     DEF IInv, LockInv, HttpInside,
     LockFirstOps, ByIdOps, GetCenterPointsUnlock

\* ByIdTest keeps the inductive invariant.
LEMMA ByIdTestKeeps ==
  ASSUME IInv, ByIdTest
  PROVE  IInv'
<1>1. TypeOK'
  BY DEF IInv, TypeOK, HttpPcs, cache, mainThread, ByIdTest
<1>2. LockInv' /\ SlotsInv'
  BY DEF IInv, LockInv, MainInside, HttpInside, SlotsInv, ByIdOps,
     LockFirstOps, cache, mainThread, NumUsers, ByIdTest
<1>3. ReadInv'
  BY DEF IInv, ReadInv, ByIdTest
<1>4. CenterPointsSnapshot'
  BY DEF CenterPointsSnapshot, ByIdOps, ByIdTest
<1>5. ByIdData'
  BY DEF IInv, ReadInv, ByIdData, NoUser, ByIdTest
<1>6. UserIdsReal'
  BY DEF UserIdsReal, ByIdOps, ByIdTest
<1>. QED
  BY <1>1, <1>2, <1>3, <1>4, <1>5, <1>6, CacheKept
     DEF IInv, LockInv, HttpInside,
     LockFirstOps, ByIdOps, ByIdTest

\* ByIdFound keeps the inductive invariant.
LEMMA ByIdFoundKeeps ==
  ASSUME IInv, ByIdFound
  PROVE  IInv'
<1>0. /\ UserNum \in Slots /\ UserNum < detectedUsersCount
      /\ detectedUsers[UserNum] = request.id
  <2>1. Matches # {} /\ Matches \subseteq Slots
    BY DEF ByIdFound, UserNum, Matches
  <2>2. UserNum \in Matches
    <3>1. \A i, j \in Matches : i = j
      BY DEF IInv, LockInv, HttpInside, WholeFrame, Matches, ByIdFound
    <3>2. PICK m : m \in Matches
      BY <2>1
    <3>3. m \in Nat
      BY <2>1, <3>2 DEF Slots
    <3>4. \A j \in Matches : m <= j
      BY <3>1, <3>2, <3>3
    <3>. QED
      BY <2>1, <3>2, <3>4 DEF UserNum
  <2>. QED
    BY <2>2 DEF Matches
<1>1. TypeOK'
  <2>1. UserNum \in Slots
    BY <1>0
  <2>2. user' = [ids |-> <<request.id>>, points |-> <<centerPoint[UserNum]>>,
                 number |-> user.number]
    BY DEF IInv, TypeOK, ByIdFound
  <2>3. request.id \in Users
    BY DEF IInv, TypeOK, Requests, Users
  <2>4. <<centerPoint[UserNum]>> \in Seq(CentersOfMass \cup {NoPoint})
    BY <2>1 DEF IInv, TypeOK
  <2>5. user' \in [ids : Seq(Users),
                  points : Seq(CentersOfMass \cup {NoPoint}),
                  number : 0 .. MaxUsersNum]
    BY <2>2, <2>3, <2>4 DEF IInv, TypeOK
  <2>. QED
    BY <2>5 DEF IInv, TypeOK, ByIdFound, cache, mainThread, HttpPcs
<1>2. LockInv' /\ SlotsInv'
  BY DEF IInv, LockInv, MainInside, HttpInside, SlotsInv, ByIdOps,
     LockFirstOps, cache, mainThread, ByIdFound
<1>3. ReadInv'
  BY DEF ReadInv, ByIdOps, ByIdFound
<1>4. CenterPointsSnapshot'
  BY DEF IInv, LockInv, HttpInside, CenterPointsSnapshot, ByIdOps, ByIdFound
<1>5. ByIdData'
  <2>1. /\ user'.ids = <<request.id>>
        /\ user'.points = <<centerPoint[UserNum]>>
        /\ mutex = "http" /\ request' = request
    BY DEF IInv, TypeOK, LockInv, HttpInside, ByIdFound
  <2>2. centerPoint[UserNum].user = request.id
    <3>1. PICK tag \in 0 .. FrameTags - 1 :
            centerPoint[UserNum] =
              [user |-> detectedUsers[UserNum], frame |-> tag]
      BY <1>0, <2>1 DEF IInv, WholeFrame
    <3>. QED
      BY <1>0, <3>1
  <2>. QED
    BY <2>1, <2>2 DEF ByIdData
<1>6. UserIdsReal'
  BY DEF IInv, SlotsInv, UserIdsReal, UserNum, Matches, ByIdFound
<1>. QED
  BY <1>1, <1>2, <1>3, <1>4, <1>5, <1>6, CacheKept
     DEF IInv, LockInv, HttpInside,
     LockFirstOps, ByIdOps, ByIdFound

\* ByIdThrow keeps the inductive invariant.
LEMMA ByIdThrowKeeps ==
  ASSUME IInv, ByIdThrow
  PROVE  IInv'
<1>1. TypeOK'
  BY DEF IInv, TypeOK, HttpPcs, cache, mainThread, ByIdThrow
<1>2. LockInv' /\ SlotsInv'
  BY DEF IInv, LockInv, MainInside, HttpInside, SlotsInv, ByIdOps,
     LockFirstOps, cache, mainThread, ByIdThrow
<1>3. ReadInv'
  BY DEF ReadInv, ByIdOps, ByIdThrow
<1>4. CenterPointsSnapshot'
  BY DEF CenterPointsSnapshot, ByIdThrow
<1>5. ByIdData'
  BY DEF ByIdData, ByIdThrow
<1>6. UserIdsReal'
  BY DEF IInv, UserIdsReal, ByIdThrow
<1>. QED
  BY <1>1, <1>2, <1>3, <1>4, <1>5, <1>6, CacheKept
     DEF IInv, LockInv, HttpInside,
     LockFirstOps, ByIdOps, ByIdThrow

\* Send keeps the inductive invariant.
LEMMA SendKeeps ==
  ASSUME IInv, Send
  PROVE  IInv'
<1>1. TypeOK'
  BY DetectedUsersAssumption DEF IInv, TypeOK, HttpPcs, NoUser, cache,
     mainThread, DetectedUsersAssumption, Send
<1>2. LockInv' /\ SlotsInv'
  BY DEF IInv, LockInv, MainInside, HttpInside, SlotsInv, ByIdOps,
     LockFirstOps, cache, mainThread, NumUsers, Send
<1>3. ReadInv'
  BY DEF ReadInv, Send
<1>4. CenterPointsSnapshot'
  BY DEF CenterPointsSnapshot, Send
<1>5. ByIdData'
  BY DEF ByIdData, Send
<1>6. UserIdsReal'
  BY DEF UserIdsReal, NoUser, Send
<1>. QED
  BY <1>1, <1>2, <1>3, <1>4, <1>5, <1>6, CacheKept
     DEF IInv, LockInv, HttpInside,
     LockFirstOps, ByIdOps, Send

-----------------------------------------------------------------------------

\* The invariant holds before the first frame and the first request.
LEMMA InitEstablishes == Init => IInv
<1>. SUFFICES ASSUME Init PROVE IInv
  OBVIOUS
<1>1. <<>> \in Scenes /\ Len(<<>>) = 0
  <2>1. <<>> \in [1 .. 0 -> UserIds] /\ DOMAIN <<>> = 1 .. 0
    OBVIOUS
  <2>. QED
    BY <2>1, DetectedUsersAssumption DEF Scenes, DetectedUsersAssumption
<1>2. TypeOK
  BY <1>1, DetectedUsersAssumption
     DEF Init, InitCache, TypeOK, HttpPcs, Users, NoUser,
         DetectedUsersAssumption
<1>3. LockInv /\ UpdateInv /\ SlotsInv
  BY <1>2 DEF TypeOK, Init, InitCache, LockInv, MainInside, HttpInside,
              LockFirstOps, ByIdOps, UpdateInv, SlotsInv, Slots
<1>4. NumUsers = 0
  BY <1>1, DetectedUsersAssumption
     DEF Init, NumUsers, DetectedUsersAssumption
<1>5. WholeFrame /\ MirrorsScene
  <2>1. \A i \in Slots : ~(i < 0)
    BY DEF Slots
  <2>2. 0 \in 0 .. FrameTags - 1
    BY DetectedUsersAssumption DEF DetectedUsersAssumption
  <2>. QED
    BY <1>4, <2>1, <2>2 DEF Init, InitCache, WholeFrame, MirrorsScene,
       ShowsScene
<1>6. /\ ReadInv /\ CenterPointsSnapshot /\ ByIdData /\ UserIdsReal
  BY DEF Init, ReadInv, CenterPointsSnapshot, ByIdData, UserIdsReal, NoUser,
         ByIdOps
<1>. QED
  BY <1>2, <1>3, <1>5, <1>6 DEF IInv

\* Every step of either thread keeps the invariant.
LEMMA NextKeeps == IInv /\ [Next]_vars => IInv'
<1>. SUFFICES ASSUME IInv, [Next]_vars PROVE IInv'
  OBVIOUS
<1>1. CASE WaitAndUpdateAll
  BY <1>1, WaitAndUpdateAllKeeps
<1>2. CASE UpdateLock
  BY <1>2, UpdateLockKeeps
<1>3. CASE UpdateGetUsers
  BY <1>3, UpdateGetUsersKeeps
<1>4. CASE UpdateCount
  BY <1>4, UpdateCountKeeps
<1>5. CASE UpdateGetCoM
  BY <1>5, UpdateGetCoMKeeps
<1>6. CASE UpdateUnlock
  BY <1>6, UpdateUnlockKeeps
<1>7. CASE HandleRequest
  BY <1>7, HandleRequestKeeps
<1>8. CASE GetUserIds
  BY <1>8, GetUserIdsKeeps
<1>9. CASE GetUserIdsLoop
  BY <1>9, GetUserIdsLoopKeeps
<1>10. CASE GetUserIdsRead
  BY <1>10, GetUserIdsReadKeeps
<1>11. CASE GetterLock
  BY <1>11, GetterLockKeeps
<1>12. CASE GetNumberOfDetectedUsers
  BY <1>12, GetNumberOfDetectedUsersKeeps
<1>13. CASE GetCenterPointsRead
  BY <1>13, GetCenterPointsReadKeeps
<1>14. CASE GetCenterPointsUnlock
  BY <1>14, GetCenterPointsUnlockKeeps
<1>15. CASE ByIdTest
  BY <1>15, ByIdTestKeeps
<1>16. CASE ByIdFound
  BY <1>16, ByIdFoundKeeps
<1>17. CASE ByIdThrow
  BY <1>17, ByIdThrowKeeps
<1>18. CASE Send
  BY <1>18, SendKeeps
<1>19. CASE UNCHANGED vars
  <2>1. TypeOK' /\ LockInv' /\ SlotsInv' /\ ReadInv'
    BY <1>19 DEF IInv, vars, mainThread, httpThread, cache, TypeOK, LockInv,
                 MainInside, HttpInside, SlotsInv, ReadInv, NumUsers
  <2>. QED
    BY <1>19, <2>1, RepliesKept, CacheKept DEF IInv, vars
<1>. QED
  BY <1>1, <1>2, <1>3, <1>4, <1>5, <1>6, <1>7, <1>8, <1>9, <1>10, <1>11, <1>12,
     <1>13, <1>14, <1>15, <1>16, <1>17, <1>18, <1>19
     DEF Next, Update, Getter

\* The invariant holds in every reachable state.
THEOREM Invariance == Spec => []IInv
  BY InitEstablishes, NextKeeps, PTL DEF Spec

\* The members and the threads' locals keep their types; in particular update()
\* never writes past the arrays and the getters never count past them.
THEOREM Types == Spec => []TypeOK
<1>1. IInv => TypeOK
  BY DEF IInv
<1>. QED
  BY <1>1, Invariance, PTL

\* update() never shows a half-written cache to whoever holds the mutex.
THEOREM WholeFrames == Spec => []WholeFrame
<1>1. IInv => WholeFrame
  BY DEF IInv
<1>. QED
  BY <1>1, Invariance, PTL

\* When updateData() is over the cache shows exactly the generator's users.
THEOREM SceneMirrored == Spec => []MirrorsScene
<1>1. IInv => MirrorsScene
  BY DEF IInv
<1>. QED
  BY <1>1, Invariance, PTL

\* The answer of getCenterPoints is one frame's.
THEOREM CenterPointsOfOneFrame == Spec => []CenterPointsSnapshot
<1>1. IInv => CenterPointsSnapshot
  BY DEF IInv
<1>. QED
  BY <1>1, Invariance, PTL

\* The getters by id answer with the asked user's data or with none.
THEOREM AskedUserAnswered == Spec => []ByIdData
<1>1. IInv => ByIdData
  BY DEF IInv
<1>. QED
  BY <1>1, Invariance, PTL

\* getUserIds, without the mutex, lists no unused slot.
THEOREM OnlyRealUserIds == Spec => []UserIdsReal
<1>1. IInv => UserIdsReal
  BY DEF IInv
<1>. QED
  BY <1>1, Invariance, PTL

\* After a getter by id threw, nobody releases the mutex and the cache never
\* changes again.
THEOREM LeakIsForever == Spec => LeakFreezes
<1>1. IInv /\ [Next]_vars => [Leaked => Leaked' /\ UNCHANGED cache]_vars
  <2>. SUFFICES ASSUME IInv, Leaked, Next
               PROVE  Leaked' /\ UNCHANGED cache
    BY DEF vars
  <2>1. /\ mutex = "http" /\ httpPc \notin LockFirstOps \cup ByIdOps
        /\ ~MainInside
    BY DEF IInv, LockInv, Leaked
  <2>2. CASE WaitAndUpdateAll \/ Update
    BY <2>1, <2>2 DEF WaitAndUpdateAll, Update, UpdateLock, UpdateGetUsers,
       UpdateCount, UpdateGetCoM, UpdateUnlock, MainInside, Leaked, httpThread
  <2>3. CASE HandleRequest \/ Send
    BY <2>1, <2>3 DEF HandleRequest, Send, Leaked, LockFirstOps, ByIdOps
  <2>4. CASE Getter
    BY <2>1, <2>4 DEF Getter, GetUserIds, GetUserIdsLoop, GetUserIdsRead,
       GetterLock, GetNumberOfDetectedUsers, GetCenterPointsRead,
       GetCenterPointsUnlock, ByIdTest, ByIdFound, ByIdThrow, Leaked,
       LockFirstOps, ByIdOps
  <2>. QED
    BY <2>2, <2>3, <2>4 DEF Next
<1>. QED
  BY <1>1, Invariance, PTL DEF Spec, LeakFreezes
=============================================================================
