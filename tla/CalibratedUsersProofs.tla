----------------------- MODULE CalibratedUsersProofs -----------------------
(***************************************************************************)
(* What CalibratedUsers promises, for every set of users, every number of  *)
(* joints and every number of users in view.                               *)
(***************************************************************************)
EXTENDS CalibratedUsers, FiniteSetTheorems, TLAPS

MainInside == mainPc \in {"users", "joints"}
HttpInside == httpPc \in Ops \cup {"skeleton"}

\* The members and the threads' locals; update() stays inside the arrays.
TypeOK ==
  /\ generator.users \in Scenes
  /\ generator.tracking \subseteq
       {generator.users[i] : i \in DOMAIN generator.users}
  /\ generator.frame \in 0 .. FrameTags - 1
  /\ mainPc \in {"wait", AfterUpdate} \cup UpdatePcs
  /\ mainI \in 0 .. MaxUserNum /\ mainJoint \in 0 .. NumJoints
  /\ httpPc \in {"idle", "call", "idsLock", "skeleton", "send", "sendError"}
                  \cup Ops
  /\ httpI \in Nat
  /\ request \in Requests
  /\ user \in [ids : Seq(UserIds \cup {0}),
               eJoint : Seq(Positions \cup {NoPosition}),
               number : 0 .. MaxUserNum, empty : BOOLEAN]
  /\ mutex \in {"free", "main", "http"}
  /\ skeletons \in [Slots -> [Joints -> Positions \cup {NoPosition}]]
  /\ calibratedUsers \in [Slots -> UserIds \cup {0}]
  /\ calibratedCount \in 0 .. MaxUserNum

\* The mutex belongs to the thread inside.
LockInv ==
  /\ mutex = "main" <=> MainInside
  /\ mutex = "http" <=> HttpInside
  /\ httpPc \in Ops => httpPc = request.op
  /\ httpPc = "skeleton" => request.op = "getSkeletonById"

\* The list holds those of the frame's first n users that are tracked, each
\* once and with the skeleton of the frame.
Listed(n) ==
  /\ \A i \in Slots : i < calibratedCount =>
       /\ \E k \in 1 .. n : /\ calibratedUsers[i] = generator.users[k]
                            /\ IsTracking(generator.users[k])
       /\ WholeSkeleton(skeletons[calibratedUsers[i]], calibratedUsers[i],
                        generator.frame)
  /\ \A k \in 1 .. n : IsTracking(generator.users[k]) =>
       \E i \in Slots : /\ i < calibratedCount
                        /\ calibratedUsers[i] = generator.users[k]
  /\ \A i, k \in Slots :
       /\ i < calibratedCount /\ k < calibratedCount
       /\ calibratedUsers[i] = calibratedUsers[k]
       => i = k

\* How far update() has come.
UpdateInv ==
  /\ MainInside =>
       mainI <= NumUsers /\ calibratedCount <= mainI /\ Listed(mainI)
  /\ mainPc = "joints" =>
       /\ mainI < NumUsers /\ IsTracking(UserId)
       /\ \A j \in Joints : j < mainJoint =>
            skeletons[UserId][j] = SkeletonJointPosition(UserId, j)

\* How far the loops of getCalibratedUserIds and getSkeletonById have come.
ReadInv ==
  /\ httpPc \in {"idle", "call", "idsLock"} \cup Ops =>
       user.eJoint = <<>> /\ (httpPc # "getCalibratedUserIds" =>
                                user.ids = <<>> /\ httpI = 0)
  /\ httpPc = "getCalibratedUserIds" =>
       /\ httpI <= calibratedCount /\ Len(user.ids) = httpI
       /\ \A k \in 1 .. httpI : user.ids[k] = calibratedUsers[k - 1]
  /\ httpPc = "skeleton" =>
       /\ Found /\ user.ids = <<request.id>>
       /\ httpI <= NumJoints /\ Len(user.eJoint) = httpI
       /\ \A k \in 1 .. httpI :
            user.eJoint[k] = skeletons[request.id][k - 1]

\* The properties are not inductive alone: WholeSkeletons and MirrorsTracked
\* need UpdateInv when update() unlocks, the answers need ReadInv, and all of
\* them need to know who holds the mutex.
IInv ==
  /\ TypeOK /\ LockInv /\ UpdateInv /\ ReadInv
  /\ WholeSkeletons /\ MirrorsTracked /\ SkeletonSnapshot /\ IdsDistinct

-----------------------------------------------------------------------------
(* Facts about the inputs.                                                 *)

\* A frame's users are a sequence without repetitions, short enough for the
\* arrays: an XnUserID is an index of skeletons.
LEMMA SceneFacts ==
  ASSUME NEW s \in Scenes
  PROVE  /\ Len(s) \in Nat /\ (Len(s) < MaxUserNum \/ Len(s) = 0)
         /\ DOMAIN s = 1 .. Len(s)
         /\ \A i \in 1 .. Len(s) : s[i] \in UserIds
         /\ \A i, j \in 1 .. Len(s) : s[i] = s[j] => i = j
<1>1. PICK n \in 0 .. MaxScene : s \in [1 .. n -> UserIds]
  BY DEF Scenes
<1>2. n \in Nat /\ Len(s) = n /\ DOMAIN s = 1 .. n
  BY <1>1, CalibratedUsersAssumption DEF CalibratedUsersAssumption
<1>3. \A i, j \in 1 .. n : s[i] = s[j] => i = j
  BY <1>2 DEF Scenes
<1>4. n < MaxUserNum \/ n = 0
  <2>. SUFFICES ASSUME n >= MaxUserNum, n # 0 PROVE FALSE
    BY <1>2, CalibratedUsersAssumption DEF CalibratedUsersAssumption
  <2>. DEFINE Ids == 1 .. MaxUserNum - 1
  <2>1. s \in [1 .. n -> Ids]
    BY <1>1, CalibratedUsersAssumption DEF CalibratedUsersAssumption
  <2>2. /\ IsFiniteSet(1 .. n) /\ Cardinality(1 .. n) = n
        /\ IsFiniteSet(Ids) /\ Cardinality(Ids) < n
    <3>1. IsFiniteSet(1 .. n) /\ Cardinality(1 .. n) = n
      BY <1>2, FS_Interval
    <3>2. /\ IsFiniteSet(Ids)
          /\ Cardinality(Ids) =
               IF 1 > MaxUserNum - 1 THEN 0 ELSE MaxUserNum - 1 - 1 + 1
      BY FS_Interval, CalibratedUsersAssumption DEF CalibratedUsersAssumption
    <3>. QED
      BY <1>2, <3>1, <3>2, CalibratedUsersAssumption
         DEF CalibratedUsersAssumption
  <2>3. \E i, j \in 1 .. n : i # j /\ s[i] = s[j]
    <3>. HIDE DEF Ids
    <3>. QED
      BY <2>1, <2>2, FS_PigeonHole
  <2>. QED
    BY <1>3, <2>3
<1>. QED
  BY <1>1, <1>2, <1>3, <1>4

\* GetUsers gives update() every user in view.
LEMMA NumUsersFacts ==
  ASSUME TypeOK
  PROVE  /\ NumUsers = Len(generator.users)
         /\ NumUsers \in Nat /\ NumUsers <= MaxUserNum
         /\ DOMAIN generator.users = 1 .. NumUsers
         /\ \A k \in 1 .. NumUsers : generator.users[k] \in UserIds
         /\ \A k, l \in 1 .. NumUsers :
              generator.users[k] = generator.users[l] => k = l
<1>. DEFINE s == generator.users
<1>1. s \in Scenes
  BY DEF TypeOK
<1>2. NumUsers = Len(s) /\ Len(s) \in Nat /\ NumUsers <= MaxUserNum
  BY <1>1, SceneFacts, CalibratedUsersAssumption
     DEF NumUsers, CalibratedUsersAssumption
<1>. QED
  BY <1>1, <1>2, SceneFacts

\* The parts of a request.
LEMMA RequestFacts ==
  ASSUME NEW r \in Requests
  PROVE  /\ r.op \in Ops /\ r.id \in UserIds \cup {0}
         /\ r.joint \in Joints \cup {NotAJoint}
  BY CalibratedUsersAssumption
     DEF Requests, Ops, LookupOps, Joints, CalibratedUsersAssumption

\* A real user has a skeleton in the array.
LEMMA IdsAreSlots == UserIds \subseteq Slots /\ 0 \notin UserIds
  BY CalibratedUsersAssumption DEF CalibratedUsersAssumption, Slots

-----------------------------------------------------------------------------
(* The main thread.                                                        *)

\* A step of the main thread that writes the cache only inside update() keeps
\* what the HTTP thread has read.
LEMMA RepliesKept ==
  ASSUME IInv, UNCHANGED <<httpThread, request>>,
         mutex = "http" => UNCHANGED cache
  PROVE  ReadInv' /\ SkeletonSnapshot' /\ IdsDistinct'
<1>1. ReadInv'
  <2>1. CASE HttpInside
    BY <2>1 DEF IInv, LockInv, ReadInv, Found, cache, httpThread
  <2>2. CASE ~HttpInside
    BY <2>2 DEF IInv, ReadInv, HttpInside, Ops, httpThread
  <2>. QED
    BY <2>1, <2>2
<1>2. SkeletonSnapshot' /\ IdsDistinct'
  BY DEF IInv, SkeletonSnapshot, IdsDistinct, httpThread
<1>. QED
  BY <1>1, <1>2

\* WaitAndUpdateAll keeps the inductive invariant.
LEMMA WaitAndUpdateAllKeeps ==
  ASSUME IInv, WaitAndUpdateAll
  PROVE  IInv'
<1>1. TypeOK'
  <2>1. (generator.frame + 1) % FrameTags \in 0 .. FrameTags - 1
    BY CalibratedUsersAssumption
       DEF IInv, TypeOK, CalibratedUsersAssumption
  <2>. QED
    BY <2>1 DEF IInv, TypeOK, UpdatePcs, cache, httpThread, WaitAndUpdateAll
<1>2. LockInv'
  BY DEF IInv, LockInv, MainInside, HttpInside, httpThread, WaitAndUpdateAll
<1>3. UpdateInv'
  BY DEF UpdateInv, MainInside, WaitAndUpdateAll
<1>4. WholeSkeletons' /\ MirrorsTracked'
  BY CalibratedUsersAssumption
     DEF IInv, WholeSkeletons, MirrorsTracked, ShowsTracked, cache,
         WaitAndUpdateAll, CalibratedUsersAssumption
<1>. QED
  BY <1>1, <1>2, <1>3, <1>4, RepliesKept DEF IInv, WaitAndUpdateAll

\* UpdateLock keeps the inductive invariant.
LEMMA UpdateLockKeeps ==
  ASSUME IInv, UpdateLock
  PROVE  IInv'
<1>1. TypeOK'
  BY CalibratedUsersAssumption
     DEF IInv, TypeOK, UpdatePcs, httpThread, CalibratedUsersAssumption,
         UpdateLock
<1>2. LockInv'
  BY DEF IInv, LockInv, MainInside, HttpInside, httpThread, UpdateLock
<1>3. UpdateInv'
  BY NumUsersFacts
     DEF IInv, UpdateInv, Listed, MainInside, Slots, NumUsers, UpdateLock
<1>4. WholeSkeletons' /\ MirrorsTracked'
  BY CalibratedUsersAssumption
     DEF WholeSkeletons, MirrorsTracked, ShowsTracked,
         CalibratedUsersAssumption, UpdateLock
<1>. QED
  BY <1>1, <1>2, <1>3, <1>4, RepliesKept DEF IInv, UpdateLock

\* UpdateUser keeps the inductive invariant.
LEMMA UpdateUserKeeps ==
  ASSUME IInv, UpdateUser
  PROVE  IInv'
<1>. USE DEF IInv
<1>1. mainI \in Nat /\ mainI < NumUsers /\ NumUsers <= MaxUserNum
      /\ NumUsers \in Nat /\ UNCHANGED <<generator, cache, mutex>>
  BY NumUsersFacts DEF TypeOK, UpdateUser
<1>2. TypeOK'
  BY <1>1, CalibratedUsersAssumption
     DEF TypeOK, UpdatePcs, cache, httpThread, CalibratedUsersAssumption,
         UpdateUser
<1>3. LockInv'
  BY DEF LockInv, MainInside, HttpInside, httpThread, UpdateUser
<1>4. UpdateInv'
  <2>1. CASE IsTracking(UserId)
    <3>1. mainPc' = "joints" /\ mainI' = mainI /\ mainJoint' = 0
      BY <2>1 DEF UpdateUser
    <3>2. \A j \in Joints : ~(j < 0)
      BY DEF Joints
    <3>. QED
      BY <1>1, <2>1, <3>1, <3>2
         DEF UpdateInv, Listed, MainInside, NumUsers, UserId, IsTracking,
             cache, UpdateUser
  <2>2. CASE ~IsTracking(UserId)
    <3>1. mainPc' = "users" /\ mainI' = mainI + 1
      BY <2>2 DEF UpdateUser
    <3>2. calibratedCount <= mainI /\ calibratedCount \in Nat /\ Listed(mainI)
      BY DEF TypeOK, UpdateInv, MainInside, UpdateUser
    <3>3. Listed(mainI + 1)
      <4>1. 1 .. mainI + 1 = 1 .. mainI \cup {mainI + 1}
        BY <1>1
      <4>. QED
        BY <2>2, <3>2, <4>1 DEF Listed, UserId
    <3>4. Listed(mainI)'
      BY <1>1, <3>1, <3>3 DEF Listed, IsTracking, WholeSkeleton, cache
    <3>5. NumUsers' = NumUsers /\ calibratedCount' = calibratedCount
      BY <1>1 DEF NumUsers, cache
    <3>. QED
      BY <1>1, <3>1, <3>2, <3>4, <3>5 DEF UpdateInv
  <2>. QED
    BY <2>1, <2>2
<1>5. WholeSkeletons' /\ MirrorsTracked'
  <2>1. mutex = "main" /\ mainPc' \in {"users", "joints"}
    BY DEF LockInv, MainInside, UpdateUser
  <2>. QED
    BY <1>1, <2>1, CalibratedUsersAssumption
       DEF WholeSkeletons, MirrorsTracked, ShowsTracked,
           CalibratedUsersAssumption
<1>. QED
  BY <1>2, <1>3, <1>4, <1>5, RepliesKept DEF UpdateUser

\* Inside update() the cache owes its readers nothing.
LEMMA InsideUpdate ==
  ASSUME mutex' = "main", mainPc' \in {"users", "joints"}
  PROVE  WholeSkeletons' /\ MirrorsTracked'
  BY CalibratedUsersAssumption
     DEF WholeSkeletons, MirrorsTracked, ShowsTracked,
         CalibratedUsersAssumption

\* UpdateJoint keeps the inductive invariant: the skeleton it writes into is
\* of a user that is not yet listed.
LEMMA UpdateJointKeeps ==
  ASSUME IInv, UpdateJoint
  PROVE  IInv'
<1>. USE DEF IInv
<1>. DEFINE u == UserId
            p == SkeletonJointPosition(u, mainJoint)
<1>1. /\ mainI \in Nat /\ mainI < NumUsers /\ mainJoint \in Joints
      /\ UNCHANGED <<generator, mainPc, mainI, httpThread, request, mutex,
                     calibratedUsers, calibratedCount>>
      /\ mainPc = "joints" /\ mainJoint' = mainJoint + 1
      /\ skeletons' = [skeletons EXCEPT ![u][mainJoint] = p]
  BY CalibratedUsersAssumption
     DEF TypeOK, UpdateInv, Joints, UpdateJoint, CalibratedUsersAssumption
<1>2. u \in UserIds /\ u \in Slots /\ IsTracking(u)
  BY <1>1, NumUsersFacts, IdsAreSlots DEF UserId, UpdateInv
<1>3. p \in Positions
  BY <1>1, <1>2 DEF SkeletonJointPosition, Positions, TypeOK
<1>4. /\ skeletons'[u] = [skeletons[u] EXCEPT ![mainJoint] = p]
      /\ \A v \in Slots \ {u} : skeletons'[v] = skeletons[v]
      /\ skeletons' \in [Slots -> [Joints -> Positions \cup {NoPosition}]]
  BY <1>1, <1>2, <1>3 DEF TypeOK
<1>5. TypeOK'
  <2>1. mainJoint' \in 0 .. NumJoints
    BY <1>1, CalibratedUsersAssumption DEF Joints, CalibratedUsersAssumption
  <2>. QED
    BY <1>1, <1>4, <2>1 DEF TypeOK, httpThread
<1>6. LockInv'
  BY <1>1 DEF LockInv, MainInside, HttpInside, httpThread
<1>7. UpdateInv'
  <2>1. /\ UserId' = u /\ NumUsers' = NumUsers
        /\ \A v : IsTracking(v)' <=> IsTracking(v)
        /\ \A v, j : SkeletonJointPosition(v, j)' = SkeletonJointPosition(v, j)
    BY <1>1 DEF UserId, NumUsers, IsTracking, SkeletonJointPosition
  <2>2. \A j \in Joints : j < mainJoint' =>
          skeletons'[u][j] = SkeletonJointPosition(u, j)
    <3>1. \A j \in Joints : j < mainJoint' => j < mainJoint \/ j = mainJoint
      BY <1>1 DEF Joints
    <3>. QED
      BY <1>1, <1>2, <1>4, <3>1 DEF UpdateInv, TypeOK
  <2>3. \A i \in Slots : i < calibratedCount =>
          calibratedUsers[i] \in Slots \ {u}
    <3>1. SUFFICES ASSUME NEW i \in Slots, i < calibratedCount
                   PROVE  calibratedUsers[i] \in Slots \ {u}
      OBVIOUS
    <3>2. PICK k \in 1 .. mainI : calibratedUsers[i] = generator.users[k]
      BY <1>1, <3>1 DEF UpdateInv, MainInside, Listed
    <3>3. k \in 1 .. NumUsers /\ mainI + 1 \in 1 .. NumUsers /\ k # mainI + 1
      BY <1>1, NumUsersFacts
    <3>. QED
      BY <3>2, <3>3, NumUsersFacts, IdsAreSlots DEF UserId
  <2>4. Listed(mainI)'
    <3>1. Listed(mainI)
      BY <1>1 DEF UpdateInv, MainInside
    <3>2. \A i \in Slots : i < calibratedCount =>
            skeletons'[calibratedUsers[i]] = skeletons[calibratedUsers[i]]
      BY <1>4, <2>3
    <3>. QED
      BY <1>1, <2>1, <3>1, <3>2 DEF Listed, WholeSkeleton
  <2>. QED
    BY <1>1, <1>2, <2>1, <2>2, <2>4 DEF UpdateInv, MainInside
<1>8. mutex' = "main" /\ mainPc' \in {"users", "joints"}
  BY <1>1 DEF LockInv, MainInside
<1>. QED
  BY <1>1, <1>5, <1>6, <1>7, <1>8, InsideUpdate, RepliesKept

\* UpdateCount keeps the inductive invariant: the user it lists is new and
\* its skeleton is whole.
LEMMA UpdateCountKeeps ==
  ASSUME IInv, UpdateCount
  PROVE  IInv'
<1>. USE DEF IInv
<1>. DEFINE u == UserId
            c == calibratedCount
<1>1. /\ mainI \in Nat /\ mainI < NumUsers /\ NumUsers \in Nat
      /\ NumUsers <= MaxUserNum /\ c \in Nat /\ c <= mainI
      /\ UNCHANGED <<generator, httpThread, request, mutex, skeletons>>
      /\ mainPc = "joints" /\ mainJoint = NumJoints
      /\ mainPc' = "users" /\ mainJoint' = 0 /\ mainI' = mainI + 1
      /\ calibratedUsers' = [calibratedUsers EXCEPT ![c] = u]
      /\ calibratedCount' = c + 1
  BY NumUsersFacts DEF TypeOK, UpdateInv, MainInside, UpdateCount
<1>2. u \in UserIds /\ IsTracking(u)
  BY <1>1, NumUsersFacts DEF UserId, UpdateInv
<1>3. c \in Slots
  BY <1>1, CalibratedUsersAssumption DEF Slots, CalibratedUsersAssumption
<1>4. /\ calibratedUsers'[c] = u
      /\ \A i \in Slots \ {c} : calibratedUsers'[i] = calibratedUsers[i]
      /\ calibratedUsers' \in [Slots -> UserIds \cup {0}]
  BY <1>1, <1>2, <1>3 DEF TypeOK
<1>5. TypeOK'
  BY <1>1, <1>4, CalibratedUsersAssumption
     DEF TypeOK, UpdatePcs, httpThread, CalibratedUsersAssumption
<1>6. LockInv'
  BY <1>1 DEF LockInv, MainInside, HttpInside, httpThread
<1>7. UpdateInv'
  <2>1. NumUsers' = NumUsers /\ (\A v : IsTracking(v)' <=> IsTracking(v))
    BY <1>1 DEF NumUsers, IsTracking
  <2>2. Listed(mainI)
    BY <1>1 DEF UpdateInv, MainInside
  <2>3. WholeSkeleton(skeletons[u], u, generator.frame)
    <3>1. \A j \in Joints : j < mainJoint
      BY <1>1, CalibratedUsersAssumption
         DEF Joints, CalibratedUsersAssumption
    <3>2. \A j \in Joints : skeletons[u][j] = SkeletonJointPosition(u, j)
      BY <1>1, <3>1 DEF UpdateInv
    <3>. QED
      BY <3>2 DEF WholeSkeleton, SkeletonJointPosition
  <2>4. \A i \in Slots : i < c + 1 <=> i < c \/ i = c
    BY <1>1 DEF Slots
  <2>5. 1 .. mainI + 1 = 1 .. mainI \cup {mainI + 1}
        /\ u = generator.users[mainI + 1]
    BY <1>1 DEF UserId
  <2>6. \A i \in Slots : i < c => calibratedUsers[i] # u
    <3>1. \A k \in 1 .. mainI : generator.users[k] # u
      <4>1. \A k \in 1 .. mainI : /\ k \in 1 .. NumUsers /\ k # mainI + 1
                                  /\ mainI + 1 \in 1 .. NumUsers
        BY <1>1
      <4>. QED
        BY <2>5, <4>1, NumUsersFacts
    <3>. QED
      BY <2>2, <3>1 DEF Listed
  <2>7. \A i \in Slots : i < c => i \in Slots \ {c}
    BY <1>1 DEF Slots
  <2>8. \A i \in Slots : i < calibratedCount' =>
          /\ \E k \in 1 .. mainI' :
               /\ calibratedUsers'[i] = generator'.users[k]
               /\ IsTracking(generator.users[k])
          /\ WholeSkeleton(skeletons'[calibratedUsers'[i]],
                           calibratedUsers'[i], generator'.frame)
    <3>. SUFFICES ASSUME NEW i \in Slots, i < calibratedCount'
                  PROVE  /\ \E k \in 1 .. mainI' :
                              /\ calibratedUsers'[i] = generator.users[k]
                              /\ IsTracking(generator.users[k])
                         /\ WholeSkeleton(skeletons[calibratedUsers'[i]],
                                          calibratedUsers'[i],
                                          generator.frame)
      BY <1>1
    <3>1. CASE i = c
      BY <1>1, <1>2, <1>4, <2>3, <2>5, <3>1
    <3>2. CASE i < c
      BY <1>1, <1>4, <2>2, <2>5, <2>7, <3>2 DEF Listed
    <3>. QED
      BY <1>1, <2>4, <3>1, <3>2
  <2>9. ASSUME NEW k \in 1 .. mainI', IsTracking(generator.users[k])
        PROVE  \E i \in Slots : /\ i < calibratedCount'
                                /\ calibratedUsers'[i] = generator.users[k]
    <3>1. CASE k = mainI + 1
      BY <1>1, <1>3, <1>4, <2>5, <3>1
    <3>2. CASE k \in 1 .. mainI
      <4>1. PICK i \in Slots : /\ i < c
                               /\ calibratedUsers[i] = generator.users[k]
        BY <2>2, <2>9, <3>2 DEF Listed
      <4>. QED
        BY <1>1, <1>4, <2>4, <2>7, <4>1
    <3>. QED
      BY <1>1, <2>5, <3>1, <3>2
  <2>10. \A i, k \in Slots :
           /\ i < calibratedCount' /\ k < calibratedCount'
           /\ calibratedUsers'[i] = calibratedUsers'[k]
           => i = k
    BY <1>1, <1>4, <2>2, <2>4, <2>6, <2>7 DEF Listed
  <2>11. Listed(mainI)'
    BY <1>1, <2>1, <2>8, <2>9, <2>10 DEF Listed, WholeSkeleton
  <2>. QED
    BY <1>1, <2>1, <2>11 DEF UpdateInv
<1>8. mutex' = "main" /\ mainPc' \in {"users", "joints"}
  BY <1>1 DEF LockInv, MainInside
<1>9. mutex # "http"
  BY <1>1 DEF LockInv, MainInside
<1>. QED
  BY <1>1, <1>5, <1>6, <1>7, <1>8, <1>9, InsideUpdate, RepliesKept

\* UpdateUnlock keeps the inductive invariant: the list is complete.
LEMMA UpdateUnlockKeeps ==
  ASSUME IInv, UpdateUnlock
  PROVE  IInv'
<1>. USE DEF IInv
<1>1. /\ UNCHANGED <<generator, mainJoint, httpThread, request, cache>>
      /\ mutex = "main" /\ mutex' = "free" /\ mainPc' = AfterUpdate
      /\ mainI' = 0
  BY DEF LockInv, MainInside, UpdateUnlock
<1>2. TypeOK'
  BY <1>1, CalibratedUsersAssumption
     DEF TypeOK, cache, httpThread, CalibratedUsersAssumption
<1>3. LockInv'
  BY <1>1, CalibratedUsersAssumption
     DEF LockInv, MainInside, HttpInside, httpThread, CalibratedUsersAssumption
<1>4. UpdateInv'
  BY <1>1, CalibratedUsersAssumption
     DEF UpdateInv, MainInside, CalibratedUsersAssumption
<1>5. /\ Listed(NumUsers) /\ generator.frame \in 0 .. FrameTags - 1
      /\ \A k \in 1 .. NumUsers : generator.users[k] \in UserIds
  BY NumUsersFacts DEF UpdateInv, MainInside, UpdateUnlock, TypeOK
<1>6. WholeSkeletons'
  <2>1. \A i \in Slots : i < calibratedCount =>
          /\ calibratedUsers[i] \in UserIds
          /\ WholeSkeleton(skeletons[calibratedUsers[i]],
                           calibratedUsers[i], generator.frame)
          /\ \A k \in Slots :
               k < calibratedCount /\ calibratedUsers[i] = calibratedUsers[k]
                 => i = k
    BY <1>5 DEF Listed
  <2>. QED
    BY <1>1, <1>5, <2>1 DEF WholeSkeletons, WholeSkeleton, cache
<1>7. MirrorsTracked'
  <2>1. \A u \in generator.tracking :
          \E k \in 1 .. NumUsers : u = generator.users[k]
    BY NumUsersFacts DEF TypeOK
  <2>2. \A u \in UserIds : IsTracking(u) <=>
          \E i \in Slots : i < calibratedCount /\ calibratedUsers[i] = u
    BY <1>5, <2>1 DEF Listed, IsTracking
  <2>3. \A i \in Slots : i < calibratedCount => calibratedUsers[i] \in UserIds
    BY <1>5 DEF Listed
  <2>4. {calibratedUsers[i] : i \in {k \in Slots : k < calibratedCount}} =
          {u \in UserIds : IsTracking(u)}
    BY <2>2, <2>3
  <2>5. \A u \in UserIds :
          IsTracking(u) => WholeSkeleton(skeletons[u], u, generator.frame)
    BY <1>5, <2>2 DEF Listed
  <2>. QED
    BY <1>1, <2>4, <2>5 DEF MirrorsTracked, ShowsTracked, IsTracking,
       WholeSkeleton, cache
<1>. QED
  BY <1>1, <1>2, <1>3, <1>4, <1>6, <1>7, RepliesKept

-----------------------------------------------------------------------------
(* The HTTP thread.                                                        *)

\* A step of the HTTP thread keeps what update() promises.
LEMMA CacheKept ==
  ASSUME IInv, UNCHANGED <<generator, mainThread, cache>>,
         mutex' = "main" <=> mutex = "main"
  PROVE  UpdateInv' /\ WholeSkeletons' /\ MirrorsTracked'
<1>. USE DEF IInv
<1>1. /\ NumUsers' = NumUsers /\ UserId' = UserId
      /\ \A v : IsTracking(v)' <=> IsTracking(v)
      /\ \A v, j : SkeletonJointPosition(v, j)' = SkeletonJointPosition(v, j)
  BY DEF NumUsers, UserId, IsTracking, SkeletonJointPosition, mainThread
<1>2. Listed(mainI) => Listed(mainI)'
  BY <1>1 DEF Listed, WholeSkeleton, mainThread, cache
<1>3. UpdateInv'
  BY <1>1, <1>2 DEF UpdateInv, MainInside, mainThread, cache
<1>4. WholeSkeletons'
  BY DEF WholeSkeletons, WholeSkeleton, cache
<1>5. MirrorsTracked'
  BY DEF MirrorsTracked, ShowsTracked, WholeSkeleton, IsTracking, mainThread,
     cache
<1>. QED
  BY <1>3, <1>4, <1>5

\* HandleRequest keeps the inductive invariant.
LEMMA HandleRequestKeeps ==
  ASSUME IInv, HandleRequest
  PROVE  IInv'
<1>. USE DEF IInv
<1>1. TypeOK'
  BY DEF TypeOK, cache, mainThread, HandleRequest
<1>2. LockInv'
  BY DEF LockInv, MainInside, HttpInside, Ops, LookupOps, mainThread,
         HandleRequest
<1>3. ReadInv'
  BY DEF ReadInv, Ops, LookupOps, HandleRequest
<1>4. SkeletonSnapshot' /\ IdsDistinct'
  BY DEF SkeletonSnapshot, IdsDistinct, HandleRequest
<1>. QED
  BY <1>1, <1>2, <1>3, <1>4, CacheKept DEF HandleRequest

\* GetCalibratedUserIds keeps the inductive invariant.
LEMMA GetCalibratedUserIdsKeeps ==
  ASSUME IInv, GetCalibratedUserIds
  PROVE  IInv'
<1>. USE DEF IInv
<1>1. /\ httpPc = "call" /\ httpPc' \in {"idsLock", "send"}
      /\ request.op = "getCalibratedUserIds"
      /\ UNCHANGED <<generator, mainThread, httpI, request, mutex, cache>>
      /\ user' \in [ids : Seq(UserIds \cup {0}),
                    eJoint : Seq(Positions \cup {NoPosition}),
                    number : 0 .. MaxUserNum, empty : BOOLEAN]
      /\ user'.ids = <<>> /\ user'.eJoint = <<>> /\ httpI = 0
  BY DEF TypeOK, ReadInv, GetCalibratedUserIds
<1>2. TypeOK'
  BY <1>1 DEF TypeOK, cache, mainThread
<1>3. LockInv'
  BY <1>1 DEF LockInv, MainInside, HttpInside, Ops, LookupOps, mainThread
<1>4. ReadInv'
  BY <1>1 DEF ReadInv, Ops, LookupOps
<1>5. SkeletonSnapshot' /\ IdsDistinct'
  BY <1>1 DEF SkeletonSnapshot, IdsDistinct
<1>. QED
  BY <1>1, <1>2, <1>3, <1>4, <1>5, CacheKept

\* GetterLock keeps the inductive invariant.
LEMMA GetterLockKeeps ==
  ASSUME IInv, GetterLock
  PROVE  IInv'
<1>. USE DEF IInv
<1>1. /\ httpPc \in {"call", "idsLock"} /\ httpPc' = request.op
      /\ request.op \in Ops /\ mutex = "free" /\ mutex' = "http"
      /\ UNCHANGED <<generator, mainThread, httpI, user, request, cache>>
  BY RequestFacts DEF TypeOK, GetterLock
<1>2. TypeOK'
  BY <1>1 DEF TypeOK, cache, mainThread
<1>3. LockInv'
  BY <1>1 DEF LockInv, MainInside, HttpInside, Ops, LookupOps, mainThread
<1>4. ReadInv'
  BY <1>1 DEF TypeOK, ReadInv, Ops, LookupOps, cache
<1>5. SkeletonSnapshot' /\ IdsDistinct'
  BY <1>1 DEF SkeletonSnapshot, IdsDistinct, Ops, LookupOps
<1>. QED
  BY <1>1, <1>2, <1>3, <1>4, <1>5, CacheKept

\* GetNumberOfCalibratedUsers keeps the inductive invariant.
LEMMA GetNumberOfCalibratedUsersKeeps ==
  ASSUME IInv, GetNumberOfCalibratedUsers
  PROVE  IInv'
<1>. USE DEF IInv
<1>1. /\ httpPc \in Ops /\ httpPc' = "send" /\ mutex = "http"
      /\ request.op = "getNumberOfCalibratedUsers" /\ mutex' = "free"
      /\ UNCHANGED <<generator, mainThread, httpI, request, cache>>
      /\ user' \in [ids : Seq(UserIds \cup {0}),
                    eJoint : Seq(Positions \cup {NoPosition}),
                    number : 0 .. MaxUserNum, empty : BOOLEAN]
  BY DEF TypeOK, LockInv, HttpInside, Ops, GetNumberOfCalibratedUsers
<1>2. TypeOK'
  BY <1>1 DEF TypeOK, cache, mainThread
<1>3. LockInv'
  BY <1>1 DEF LockInv, MainInside, HttpInside, Ops, LookupOps, mainThread
<1>4. ReadInv'
  BY <1>1 DEF ReadInv, Ops, LookupOps
<1>5. SkeletonSnapshot' /\ IdsDistinct'
  BY <1>1 DEF SkeletonSnapshot, IdsDistinct
<1>. QED
  BY <1>1, <1>2, <1>3, <1>4, <1>5, CacheKept

\* GetCalibratedUserIdsRead keeps the inductive invariant.
LEMMA GetCalibratedUserIdsReadKeeps ==
  ASSUME IInv, GetCalibratedUserIdsRead
  PROVE  IInv'
<1>. USE DEF IInv
<1>1. /\ httpPc = "getCalibratedUserIds" /\ httpI \in Nat
      /\ calibratedCount \in Nat /\ httpI < calibratedCount
      /\ UNCHANGED <<generator, mainThread, httpPc, request, mutex, cache>>
      /\ httpI' = httpI + 1
      /\ user.ids \in Seq(UserIds \cup {0}) /\ Len(user.ids) = httpI
      /\ \A k \in 1 .. httpI : user.ids[k] = calibratedUsers[k - 1]
      /\ user.eJoint = <<>>
  BY CalibratedUsersAssumption
     DEF TypeOK, ReadInv, Ops, CalibratedUsersAssumption,
         GetCalibratedUserIdsRead
<1>2. calibratedUsers[httpI] \in UserIds \cup {0}
  BY <1>1, CalibratedUsersAssumption
     DEF TypeOK, Slots, CalibratedUsersAssumption
<1>3. /\ user'.ids = Append(user.ids, calibratedUsers[httpI])
      /\ user'.eJoint = <<>>
      /\ user' \in [ids : Seq(UserIds \cup {0}),
                    eJoint : Seq(Positions \cup {NoPosition}),
                    number : 0 .. MaxUserNum, empty : BOOLEAN]
  <2>1. Append(user.ids, calibratedUsers[httpI]) \in Seq(UserIds \cup {0})
    BY <1>1, <1>2
  <2>. QED
    BY <1>1, <2>1 DEF TypeOK, GetCalibratedUserIdsRead
<1>4. TypeOK'
  BY <1>1, <1>3 DEF TypeOK, cache, mainThread
<1>5. LockInv'
  BY <1>1 DEF LockInv, MainInside, HttpInside, Ops, LookupOps, mainThread
<1>6. ReadInv'
  <2>1. ASSUME NEW k \in 1 .. httpI'
        PROVE  user'.ids[k] = calibratedUsers[k - 1]
    <3>1. CASE k \in 1 .. httpI
      BY <1>1, <1>2, <1>3, <3>1
    <3>2. CASE k = httpI + 1
      BY <1>1, <1>2, <1>3, <3>2
    <3>. QED
      BY <1>1, <3>1, <3>2
  <2>2. httpI' <= calibratedCount /\ Len(user'.ids) = httpI'
    BY <1>1, <1>2, <1>3
  <2>. QED
    BY <1>1, <1>3, <2>1, <2>2 DEF ReadInv, Ops, LookupOps, cache
<1>7. SkeletonSnapshot' /\ IdsDistinct'
  BY <1>1 DEF SkeletonSnapshot, IdsDistinct
<1>. QED
  BY <1>1, <1>4, <1>5, <1>6, <1>7, CacheKept

\* GetCalibratedUserIdsUnlock keeps the inductive invariant.
LEMMA GetCalibratedUserIdsUnlockKeeps ==
  ASSUME IInv, GetCalibratedUserIdsUnlock
  PROVE  IInv'
<1>. USE DEF IInv
<1>1. /\ httpPc = "getCalibratedUserIds" /\ mutex = "http"
      /\ request.op = "getCalibratedUserIds"
      /\ httpPc' = "send" /\ mutex' = "free"
      /\ UNCHANGED <<generator, mainThread, httpI, user, request, cache>>
  BY DEF LockInv, HttpInside, Ops, GetCalibratedUserIdsUnlock
<1>2. TypeOK'
  BY <1>1 DEF TypeOK, cache, mainThread
<1>3. LockInv'
  BY <1>1 DEF LockInv, MainInside, HttpInside, Ops, LookupOps, mainThread
<1>4. ReadInv'
  BY <1>1 DEF ReadInv, Ops, LookupOps
<1>5. SkeletonSnapshot'
  BY <1>1 DEF SkeletonSnapshot
<1>6. IdsDistinct'
  <2>1. /\ httpI \in Nat /\ httpI <= calibratedCount
        /\ calibratedCount \in 0 .. MaxUserNum
        /\ user.ids \in Seq(UserIds \cup {0}) /\ Len(user.ids) = httpI
        /\ \A k \in 1 .. httpI : user.ids[k] = calibratedUsers[k - 1]
    BY <1>1 DEF TypeOK, ReadInv
  <2>2. \A i, k \in Slots :
          /\ i < calibratedCount /\ k < calibratedCount
          /\ calibratedUsers[i] = calibratedUsers[k]
          => i = k
    BY <1>1 DEF WholeSkeletons
  <2>3. \A k \in 1 .. httpI : k - 1 \in Slots /\ k - 1 < calibratedCount
    BY <2>1, CalibratedUsersAssumption DEF Slots, CalibratedUsersAssumption
  <2>4. ASSUME NEW k \in 1 .. httpI, NEW l \in 1 .. httpI,
               user.ids[k] = user.ids[l]
        PROVE  k = l
    <3>1. k - 1 = l - 1
      BY <2>1, <2>2, <2>3, <2>4
    <3>. QED
      BY <3>1
  <2>5. DOMAIN user.ids = 1 .. httpI
    BY <2>1
  <2>. QED
    BY <1>1, <2>4, <2>5 DEF IdsDistinct
<1>. QED
  BY <1>1, <1>2, <1>3, <1>4, <1>5, <1>6, CacheKept

\* LookupThrow keeps the inductive invariant.
LEMMA LookupThrowKeeps ==
  ASSUME IInv, LookupThrow
  PROVE  IInv'
<1>. USE DEF IInv
<1>1. /\ httpPc \in LookupOps /\ request.op = httpPc /\ mutex = "http"
      /\ httpPc' = "sendError" /\ mutex' = "free"
      /\ UNCHANGED <<generator, mainThread, httpI, user, request, cache>>
  BY DEF LockInv, HttpInside, Ops, LookupThrow
<1>2. TypeOK'
  BY <1>1 DEF TypeOK, cache, mainThread
<1>3. LockInv'
  BY <1>1 DEF LockInv, MainInside, HttpInside, Ops, LookupOps, mainThread
<1>4. ReadInv'
  BY <1>1 DEF ReadInv, Ops, LookupOps
<1>5. SkeletonSnapshot' /\ IdsDistinct'
  BY <1>1 DEF SkeletonSnapshot, IdsDistinct
<1>. QED
  BY <1>1, <1>2, <1>3, <1>4, <1>5, CacheKept

\* A user that is found in the list is one, and has a skeleton in the array.
LEMMA FoundFacts ==
  ASSUME IInv, mutex # "main", Found
  PROVE  /\ request.id \in UserIds /\ request.id \in Slots
         /\ \E tag \in 0 .. FrameTags - 1 :
              WholeSkeleton(skeletons[request.id], request.id, tag)
  BY IdsAreSlots DEF IInv, WholeSkeletons, Found

\* GetSkeletonJointPosition keeps the inductive invariant.
LEMMA GetSkeletonJointPositionKeeps ==
  ASSUME IInv, GetSkeletonJointPosition
  PROVE  IInv'
<1>. USE DEF IInv
<1>1. /\ httpPc = "getSkeletonJointPosition" /\ mutex = "http" /\ Found
      /\ request.op = "getSkeletonJointPosition"
      /\ httpPc' = "send" /\ mutex' = "free"
      /\ UNCHANGED <<generator, mainThread, httpI, request, cache>>
  BY DEF LockInv, HttpInside, Ops, LookupOps, GetSkeletonJointPosition
<1>2. TypeOK'
  <2>1. skeletons[request.id][request.joint] \in Positions \cup {NoPosition}
    <3>1. request.id \in Slots
      BY <1>1, FoundFacts
    <3>2. request.joint \in Joints
      BY RequestFacts DEF TypeOK, GetSkeletonJointPosition
    <3>. QED
      BY <3>1, <3>2 DEF TypeOK
  <2>2. request.id \in UserIds \cup {0}
    BY RequestFacts DEF TypeOK
  <2>3. user' \in [ids : Seq(UserIds \cup {0}),
                   eJoint : Seq(Positions \cup {NoPosition}),
                   number : 0 .. MaxUserNum, empty : BOOLEAN]
    <3>. DEFINE p == skeletons[request.id][request.joint]
    <3>1. user' = [ids |-> <<request.id>>, eJoint |-> <<p>>,
                   number |-> user.number, empty |-> user.empty]
      BY DEF TypeOK, GetSkeletonJointPosition
    <3>2. /\ <<request.id>> \in Seq(UserIds \cup {0})
          /\ <<p>> \in Seq(Positions \cup {NoPosition})
      BY <2>1, <2>2
    <3>. QED
      BY <3>1, <3>2 DEF TypeOK
  <2>. QED
    BY <1>1, <2>3 DEF TypeOK, cache, mainThread
<1>3. LockInv'
  BY <1>1 DEF LockInv, MainInside, HttpInside, Ops, LookupOps, mainThread
<1>4. ReadInv'
  BY <1>1 DEF ReadInv, Ops, LookupOps
<1>5. SkeletonSnapshot' /\ IdsDistinct'
  BY <1>1 DEF SkeletonSnapshot, IdsDistinct
<1>. QED
  BY <1>1, <1>2, <1>3, <1>4, <1>5, CacheKept

\* GetSkeletonByIdFound keeps the inductive invariant.
LEMMA GetSkeletonByIdFoundKeeps ==
  ASSUME IInv, GetSkeletonByIdFound
  PROVE  IInv'
<1>. USE DEF IInv
<1>1. /\ httpPc = "getSkeletonById" /\ mutex = "http" /\ Found
      /\ request.op = "getSkeletonById" /\ httpPc' = "skeleton"
      /\ UNCHANGED <<generator, mainThread, httpI, request, mutex, cache>>
      /\ user.eJoint = <<>> /\ httpI = 0
  BY DEF LockInv, HttpInside, ReadInv, Ops, LookupOps, GetSkeletonByIdFound
<1>2. user'.ids = <<request.id>> /\ user'.eJoint = <<>>
      /\ user' \in [ids : Seq(UserIds \cup {0}),
                    eJoint : Seq(Positions \cup {NoPosition}),
                    number : 0 .. MaxUserNum, empty : BOOLEAN]
  <2>1. request.id \in UserIds \cup {0}
    BY RequestFacts DEF TypeOK
  <2>2. user' = [ids |-> <<request.id>>, eJoint |-> <<>>,
                 number |-> user.number, empty |-> user.empty]
    BY <1>1 DEF TypeOK, GetSkeletonByIdFound
  <2>3. /\ <<request.id>> \in Seq(UserIds \cup {0})
        /\ <<>> \in Seq(Positions \cup {NoPosition})
    BY <2>1
  <2>. QED
    BY <2>2, <2>3 DEF TypeOK
<1>3. TypeOK'
  BY <1>1, <1>2 DEF TypeOK, cache, mainThread
<1>4. LockInv'
  BY <1>1 DEF LockInv, MainInside, HttpInside, Ops, LookupOps, mainThread
<1>5. ReadInv'
  <2>1. Found'
    BY <1>1 DEF Found, cache
  <2>2. 0 <= NumJoints /\ Len(<<>>) = 0
    BY CalibratedUsersAssumption DEF CalibratedUsersAssumption
  <2>. QED
    BY <1>1, <1>2, <2>1, <2>2 DEF ReadInv, Ops, LookupOps
<1>6. SkeletonSnapshot' /\ IdsDistinct'
  BY <1>1 DEF SkeletonSnapshot, IdsDistinct
<1>. QED
  BY <1>1, <1>3, <1>4, <1>5, <1>6, CacheKept

\* GetSkeletonByIdRead keeps the inductive invariant.
LEMMA GetSkeletonByIdReadKeeps ==
  ASSUME IInv, GetSkeletonByIdRead
  PROVE  IInv'
<1>. USE DEF IInv
<1>. DEFINE p == skeletons[request.id][httpI]
<1>1. /\ httpPc = "skeleton" /\ mutex = "http" /\ Found
      /\ httpI \in Nat /\ NumJoints \in Nat /\ httpI < NumJoints
      /\ UNCHANGED <<generator, mainThread, httpPc, request, mutex, cache>>
      /\ httpI' = httpI + 1
      /\ user.ids = <<request.id>> /\ Len(user.eJoint) = httpI
      /\ user.eJoint \in Seq(Positions \cup {NoPosition})
      /\ \A k \in 1 .. httpI :
           user.eJoint[k] = skeletons[request.id][k - 1]
  BY CalibratedUsersAssumption
     DEF TypeOK, LockInv, HttpInside, ReadInv, CalibratedUsersAssumption,
         GetSkeletonByIdRead
<1>2. p \in Positions \cup {NoPosition}
  <2>1. request.id \in Slots /\ httpI \in Joints
    BY <1>1, FoundFacts DEF Joints
  <2>. QED
    BY <2>1 DEF TypeOK
<1>3. /\ user'.ids = user.ids /\ user'.eJoint = Append(user.eJoint, p)
      /\ user' \in [ids : Seq(UserIds \cup {0}),
                    eJoint : Seq(Positions \cup {NoPosition}),
                    number : 0 .. MaxUserNum, empty : BOOLEAN]
  <2>1. Append(user.eJoint, p) \in Seq(Positions \cup {NoPosition})
    BY <1>1, <1>2
  <2>. QED
    BY <2>1 DEF TypeOK, GetSkeletonByIdRead
<1>4. TypeOK'
  BY <1>1, <1>3 DEF TypeOK, cache, mainThread
<1>5. LockInv'
  BY <1>1 DEF LockInv, MainInside, HttpInside, Ops, LookupOps, mainThread
<1>6. ReadInv'
  <2>1. ASSUME NEW k \in 1 .. httpI'
        PROVE  user'.eJoint[k] = skeletons[request.id][k - 1]
    <3>1. CASE k \in 1 .. httpI
      BY <1>1, <1>2, <1>3, <3>1
    <3>2. CASE k = httpI + 1
      BY <1>1, <1>2, <1>3, <3>2
    <3>. QED
      BY <1>1, <3>1, <3>2
  <2>2. httpI' <= NumJoints /\ Len(user'.eJoint) = httpI'
    BY <1>1, <1>2, <1>3
  <2>3. Found'
    BY <1>1 DEF Found, cache
  <2>. QED
    BY <1>1, <1>3, <2>1, <2>2, <2>3 DEF ReadInv, Ops, LookupOps, cache
<1>7. SkeletonSnapshot' /\ IdsDistinct'
  BY <1>1 DEF SkeletonSnapshot, IdsDistinct
<1>. QED
  BY <1>1, <1>4, <1>5, <1>6, <1>7, CacheKept

\* GetSkeletonByIdUnlock keeps the inductive invariant: what has been read
\* under the mutex is the whole skeleton that WholeSkeletons promises.
LEMMA GetSkeletonByIdUnlockKeeps ==
  ASSUME IInv, GetSkeletonByIdUnlock
  PROVE  IInv'
<1>. USE DEF IInv
<1>1. /\ httpPc = "skeleton" /\ mutex = "http" /\ Found
      /\ request.op = "getSkeletonById" /\ httpI = NumJoints
      /\ httpPc' = "send" /\ mutex' = "free"
      /\ UNCHANGED <<generator, mainThread, httpI, user, request, cache>>
      /\ user.ids = <<request.id>> /\ Len(user.eJoint) = NumJoints
      /\ \A k \in 1 .. NumJoints :
           user.eJoint[k] = skeletons[request.id][k - 1]
  BY DEF LockInv, HttpInside, ReadInv, GetSkeletonByIdUnlock
<1>2. TypeOK'
  BY <1>1 DEF TypeOK, cache, mainThread
<1>3. LockInv'
  BY <1>1 DEF LockInv, MainInside, HttpInside, Ops, LookupOps, mainThread
<1>4. ReadInv'
  BY <1>1 DEF ReadInv, Ops, LookupOps
<1>5. SkeletonSnapshot'
  <2>1. PICK tag \in 0 .. FrameTags - 1 :
          WholeSkeleton(skeletons[request.id], request.id, tag)
    BY <1>1, FoundFacts
  <2>2. \A j \in Joints : j + 1 \in 1 .. NumJoints /\ (j + 1) - 1 = j
    BY CalibratedUsersAssumption DEF Joints, CalibratedUsersAssumption
  <2>3. \A j \in Joints :
          user.eJoint[j + 1] =
            [user |-> request.id, joint |-> j, frame |-> tag]
    BY <1>1, <2>1, <2>2 DEF WholeSkeleton
  <2>. QED
    BY <1>1, <2>3 DEF SkeletonSnapshot
<1>6. IdsDistinct'
  BY <1>1 DEF IdsDistinct
<1>. QED
  BY <1>1, <1>2, <1>3, <1>4, <1>5, <1>6, CacheKept

\* Send keeps the inductive invariant.
LEMMA SendKeeps ==
  ASSUME IInv, Send
  PROVE  IInv'
<1>. USE DEF IInv
<1>1. TypeOK'
  BY CalibratedUsersAssumption
     DEF TypeOK, NoUser, cache, mainThread, CalibratedUsersAssumption, Send
<1>2. LockInv'
  BY DEF LockInv, MainInside, HttpInside, Ops, LookupOps, mainThread, Send
<1>3. ReadInv'
  BY DEF ReadInv, NoUser, Ops, LookupOps, Send
<1>4. SkeletonSnapshot' /\ IdsDistinct'
  BY DEF SkeletonSnapshot, IdsDistinct, Send
<1>. QED
  BY <1>1, <1>2, <1>3, <1>4, CacheKept DEF Send

-----------------------------------------------------------------------------

\* The invariant holds before the first frame and the first request.
LEMMA InitEstablishes == Init => IInv
<1>. SUFFICES ASSUME Init PROVE IInv
  OBVIOUS
<1>1. <<>> \in Scenes
  <2>1. <<>> \in [1 .. 0 -> UserIds] /\ DOMAIN <<>> = 1 .. 0
    OBVIOUS
  <2>. QED
    BY <2>1, CalibratedUsersAssumption DEF Scenes, CalibratedUsersAssumption
<1>2. 0 \in 0 .. FrameTags - 1 /\ 0 \in 0 .. NumJoints /\ 0 \in 0 .. MaxUserNum
  BY CalibratedUsersAssumption DEF CalibratedUsersAssumption
<1>3. TypeOK
  BY <1>1, <1>2 DEF Init, InitCache, TypeOK, NoUser
<1>4. LockInv /\ UpdateInv /\ ReadInv
  BY DEF Init, InitCache, LockInv, MainInside, HttpInside, UpdateInv, ReadInv,
         NoUser, Ops, LookupOps
<1>5. \A i \in Slots : ~(i < 0)
  BY DEF Slots
<1>6. WholeSkeletons
  BY <1>2, <1>5 DEF Init, InitCache, WholeSkeletons
<1>7. MirrorsTracked
  <2>1. {calibratedUsers[i] : i \in {k \in Slots : k < calibratedCount}} = {}
    BY <1>5 DEF Init, InitCache
  <2>2. \A u \in UserIds : ~IsTracking(u)
    BY DEF Init, IsTracking
  <2>. QED
    BY <2>1, <2>2 DEF MirrorsTracked, ShowsTracked
<1>8. SkeletonSnapshot /\ IdsDistinct
  BY DEF Init, SkeletonSnapshot, IdsDistinct
<1>. QED
  BY <1>3, <1>4, <1>6, <1>7, <1>8 DEF IInv

\* Every step of either thread keeps the invariant.
LEMMA NextKeeps == IInv /\ [Next]_vars => IInv'
<1>. SUFFICES ASSUME IInv, [Next]_vars PROVE IInv'
  OBVIOUS
<1>1. CASE WaitAndUpdateAll
  BY <1>1, WaitAndUpdateAllKeeps
<1>2. CASE Update
  BY <1>2, UpdateLockKeeps, UpdateUserKeeps, UpdateJointKeeps,
     UpdateCountKeeps, UpdateUnlockKeeps DEF Update
<1>3. CASE HandleRequest
  BY <1>3, HandleRequestKeeps
<1>4. CASE Getter
  BY <1>4, GetCalibratedUserIdsKeeps, GetterLockKeeps,
     GetNumberOfCalibratedUsersKeeps, GetCalibratedUserIdsReadKeeps,
     GetCalibratedUserIdsUnlockKeeps, LookupThrowKeeps,
     GetSkeletonJointPositionKeeps, GetSkeletonByIdFoundKeeps,
     GetSkeletonByIdReadKeeps, GetSkeletonByIdUnlockKeeps DEF Getter
<1>5. CASE Send
  BY <1>5, SendKeeps
<1>6. CASE UNCHANGED vars
  <2>. USE <1>6 DEF IInv, vars
  <2>1. TypeOK' /\ LockInv'
    BY DEF mainThread, httpThread, cache, TypeOK, LockInv, MainInside,
           HttpInside
  <2>. QED
    BY <2>1, RepliesKept, CacheKept
<1>. QED
  BY <1>1, <1>2, <1>3, <1>4, <1>5, <1>6 DEF Next

\* The invariant holds in every reachable state.
THEOREM Invariance == Spec => []IInv
  BY InitEstablishes, NextKeeps, PTL DEF Spec

\* The members and the threads' locals keep their types: with ids that are
\* indices, update() never writes past the arrays.
THEOREM Types == Spec => []TypeOK
<1>1. IInv => TypeOK
  BY DEF IInv
<1>. QED
  BY <1>1, Invariance, PTL

\* update() never shows a list or a skeleton it has not finished.
THEOREM SkeletonsWhole == Spec => []WholeSkeletons
<1>1. IInv => WholeSkeletons
  BY DEF IInv
<1>. QED
  BY <1>1, Invariance, PTL

\* When update() is over the cache lists exactly the users OpenNI tracks.
THEOREM TrackedMirrored == Spec => []MirrorsTracked
<1>1. IInv => MirrorsTracked
  BY DEF IInv
<1>. QED
  BY <1>1, Invariance, PTL

\* The answer of getSkeletonById is one skeleton of one frame.
THEOREM SkeletonOfOneFrame == Spec => []SkeletonSnapshot
<1>1. IInv => SkeletonSnapshot
  BY DEF IInv
<1>. QED
  BY <1>1, Invariance, PTL

\* getCalibratedUserIds lists nobody twice, although it tests the count before
\* it locks.
THEOREM IdsListedOnce == Spec => []IdsDistinct
<1>1. IInv => IdsDistinct
  BY DEF IInv
<1>. QED
  BY <1>1, Invariance, PTL

\* Whoever has not to wait for update() finds exactly the tracked users.
LEMMA ListIsTracked ==
  ASSUME IInv, mainPc \notin UpdatePcs
  PROVE  \A u : IsTracking(u) <=>
           \E i \in Slots : i < calibratedCount /\ calibratedUsers[i] = u
<1>1. mainPc \in {"wait", AfterUpdate}
  BY DEF IInv, TypeOK
<1>2. generator.tracking \subseteq UserIds
  BY SceneFacts DEF IInv, TypeOK
<1>3. {calibratedUsers[i] : i \in {k \in Slots : k < calibratedCount}} =
        generator.tracking
  BY <1>1, <1>2 DEF IInv, MirrorsTracked, ShowsTracked, IsTracking
<1>. QED
  BY <1>3 DEF IsTracking

\* An error means that the user is not tracked, and an empty list of ids that
\* nobody is, unless update() has yet to take in the frame or is at it.
THEOREM AbsenceIsHonest == Spec => AbsenceHonest
<1>1. IInv /\ [Next]_vars => [ErrorHonest /\ EmptyHonest]_vars
  <2>. SUFFICES ASSUME IInv, Next PROVE ErrorHonest /\ EmptyHonest
    OBVIOUS
  <2>1. ErrorHonest
    <3>. SUFFICES ASSUME httpPc # "sendError", httpPc' = "sendError",
                         request.joint # NotAJoint, mainPc # "calibrated"
                  PROVE  ~IsTracking(request.id)
      BY DEF ErrorHonest
    <3>1. LookupThrow
      BY RequestFacts
         DEF IInv, TypeOK, Next, WaitAndUpdateAll, Update, UpdateLock,
             UpdateUser, UpdateJoint, UpdateCount, UpdateUnlock,
             HandleRequest, Getter, GetCalibratedUserIds, GetterLock,
             GetNumberOfCalibratedUsers, GetCalibratedUserIdsRead,
             GetCalibratedUserIdsUnlock, GetSkeletonJointPosition,
             GetSkeletonByIdFound, GetSkeletonByIdRead,
             GetSkeletonByIdUnlock, Send, Ops, LookupOps, httpThread
    <3>2. ~Found /\ mainPc \notin UpdatePcs
      BY <3>1 DEF IInv, LockInv, HttpInside, MainInside, UpdatePcs, Ops,
                  LookupThrow
    <3>. QED
      BY <3>2, ListIsTracked DEF Found
  <2>2. EmptyHonest
    <3>. SUFFICES ASSUME ~user.empty, user'.empty, mainPc \notin UpdatePcs
                  PROVE  generator.tracking = {}
      BY DEF EmptyHonest
    <3>1. CASE calibratedCount = 0
      <4>1. \A u : ~IsTracking(u)
        BY <3>1, ListIsTracked DEF Slots
      <4>. QED
        BY <4>1 DEF IsTracking
    <3>2. CASE calibratedCount # 0
      <4>1. user.empty = FALSE /\ user'.empty # user.empty
        BY DEF IInv, TypeOK
      <4>2. CASE GetCalibratedUserIds
        BY <3>2, <4>1, <4>2 DEF GetCalibratedUserIds
      <4>3. CASE GetNumberOfCalibratedUsers \/ GetCalibratedUserIdsRead
        BY <4>1, <4>3 DEF IInv, TypeOK, GetNumberOfCalibratedUsers,
                          GetCalibratedUserIdsRead
      <4>4. CASE GetSkeletonJointPosition \/ GetSkeletonByIdFound
                   \/ GetSkeletonByIdRead
        BY <4>1, <4>4 DEF IInv, TypeOK, GetSkeletonJointPosition,
                          GetSkeletonByIdFound, GetSkeletonByIdRead
      <4>5. CASE Send
        BY <4>1, <4>5 DEF Send, NoUser
      <4>. QED
        BY <4>1, <4>2, <4>3, <4>4, <4>5
           DEF Next, WaitAndUpdateAll, Update, UpdateLock, UpdateUser,
               UpdateJoint, UpdateCount, UpdateUnlock, HandleRequest, Getter,
               GetterLock, GetCalibratedUserIdsUnlock, LookupThrow,
               GetSkeletonByIdUnlock, httpThread
    <3>. QED
      BY <3>1, <3>2
  <2>. QED
    BY <2>1, <2>2
<1>. QED
  BY <1>1, Invariance, PTL DEF Spec, AbsenceHonest
=============================================================================
