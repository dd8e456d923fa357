---------------------------- MODULE DetectedUsers ----------------------------
(***************************************************************************)
(* DetectedUsers.cpp: the cache of the users in view and their centres of  *)
(* mass.  The main thread rewrites it in update() after every frame; the   *)
(* HTTP daemon's thread reads it in the five getters, one request at a     *)
(* time.  boost::mutex guards most of those accesses: getUserIds takes no  *)
(* lock, the two getters by id look at the count before they lock, and     *)
(* they throw with the mutex held.                                         *)
(*                                                                         *)
(* Every access that another thread can observe half-done is a step: array *)
(* slots are written and read one at a time.  Array indices are the C      *)
(* ones, from 0.  A centre of mass is the user it belongs to and the tag   *)
(* of the frame it was measured in.                                        *)
(***************************************************************************)
EXTENDS Naturals, Sequences

CONSTANTS
  UserIds,      \* the XnUserIDs OpenNI hands out: never 0
  MaxUsersNum,  \* MAX_USERS_NUM, the size of the arrays
  MaxScene,     \* the most users OpenNI has in view at once
  FrameTags,    \* frames are told apart modulo this number
  AfterUpdate   \* where the main thread goes when update() returns

ASSUME DetectedUsersAssumption ==
  /\ UserIds \subseteq Nat \ {0}
  /\ MaxUsersNum \in Nat \ {0}
  /\ MaxScene \in Nat
  /\ FrameTags \in Nat \ {0}
  /\ AfterUpdate \notin {"detected", "getUsers", "getCoM"}

VARIABLES
  generator,    \* xn::UserGenerator, external: its users and the frame's tag
  mainPc,       \* where the main thread is
  mainI,        \* i of update()
  httpPc,       \* where the HTTP daemon's thread is
  httpI,        \* i of the getter that runs
  request,      \* the request being handled
  user,         \* the Json::Value "user" of the reply under construction
  mutex,        \* "free", or the thread that holds it
  detectedUsers, detectedUsersCount, centerPoint

cache == <<detectedUsers, detectedUsersCount, centerPoint>>
mainThread == <<mainPc, mainI>>
httpThread == <<httpPc, httpI, user>>
vars == <<generator, mainThread, httpThread, request, mutex, cache>>

Users == UserIds \cup {0}
Slots == 0 .. MaxUsersNum - 1
CentersOfMass == [user : UserIds, frame : 0 .. FrameTags - 1]
NoPoint == [user |-> 0, frame |-> 0]
NoUser == [ids |-> <<>>, points |-> <<>>, number |-> 0]

\* The users a frame can show: any, in any order, each once.
Scenes ==
  {s \in UNION {[1 .. n -> UserIds] : n \in 0 .. MaxScene} :
     \A i, j \in DOMAIN s : s[i] = s[j] => i = j}

ByIdOps == {"getDepthById", "getCenterPointById"}
LockFirstOps == {"getNumberOfDetectedUsers", "getCenterPoints"}
\* atoi gives 0 for a userid that is no number.
Requests ==
  [op : LockFirstOps \cup {"getUserIds"}, id : {0}]
    \cup [op : ByIdOps, id : Users]

-----------------------------------------------------------------------------
(* The main thread: DetectedUsers::update.                                 *)

\* A slip: the number of users in view, however small the array.
NumUsersUnbounded == Len(generator.users)

\* nUsers after GetUsers(detectedUsers, nUsers): at most the array's size.
NumUsers ==
  IF Len(generator.users) < MaxUsersNum THEN Len(generator.users)
                                        ELSE MaxUsersNum

GetCoM(u) == [user |-> u, frame |-> generator.frame]

\* Slips the properties must catch: no wait for the mutex; the count stored
\* before the users.
UpdateNoLock ==
  /\ mainPc = "detected"
  /\ mutex' = "main"
  /\ mainPc' = "getUsers" /\ mainI' = 0
  /\ UNCHANGED <<generator, httpThread, request, cache>>

UpdateCountFirst ==
  /\ mainPc = "detected" /\ mutex = "free"
  /\ mutex' = "main" /\ detectedUsersCount' = NumUsers
  /\ mainPc' = "getUsers" /\ mainI' = 0
  /\ UNCHANGED <<generator, httpThread, request, detectedUsers, centerPoint>>

UpdateLock ==
  /\ mainPc = "detected" /\ mutex = "free"
  /\ mutex' = "main"
  /\ mainPc' = "getUsers" /\ mainI' = 0
  /\ UNCHANGED <<generator, httpThread, request, cache>>

\* GetUsers fills the shared array in place.
UpdateGetUsers ==
  /\ mainPc = "getUsers" /\ mainI < NumUsers
  /\ detectedUsers' =
       [detectedUsers EXCEPT ![mainI] = generator.users[mainI + 1]]
  /\ mainI' = mainI + 1
  /\ UNCHANGED <<generator, mainPc, httpThread, request, mutex,
                 detectedUsersCount, centerPoint>>

\* Slips: the mutex released before the centres of mass are read; a count
\* that never shrinks.
UpdateCountUnlocks ==
  /\ mainPc = "getUsers" /\ mainI = NumUsers
  /\ detectedUsersCount' = NumUsers /\ mutex' = "free"
  /\ mainPc' = "getCoM" /\ mainI' = 0
  /\ UNCHANGED <<generator, httpThread, request, detectedUsers, centerPoint>>

UpdateCountGrows ==
  /\ mainPc = "getUsers" /\ mainI = NumUsers
  /\ detectedUsersCount' =
       IF NumUsers > detectedUsersCount THEN NumUsers ELSE detectedUsersCount
  /\ mainPc' = "getCoM" /\ mainI' = 0
  /\ UNCHANGED <<generator, httpThread, request, mutex, detectedUsers,
                 centerPoint>>

UpdateCount ==
  /\ mainPc = "getUsers" /\ mainI = NumUsers
  /\ detectedUsersCount' = NumUsers
  /\ mainPc' = "getCoM" /\ mainI' = 0
  /\ UNCHANGED <<generator, httpThread, request, mutex, detectedUsers,
                 centerPoint>>

UpdateGetCoM ==
  /\ mainPc = "getCoM" /\ mainI < NumUsers
  /\ centerPoint' =
       [centerPoint EXCEPT ![mainI] = GetCoM(detectedUsers[mainI])]
  /\ mainI' = mainI + 1
  /\ UNCHANGED <<generator, mainPc, httpThread, request, mutex,
                 detectedUsers, detectedUsersCount>>

UpdateUnlock ==
  /\ mainPc = "getCoM" /\ mainI = NumUsers
  /\ mutex' = "free"
  /\ mainPc' = AfterUpdate /\ mainI' = 0
  /\ UNCHANGED <<generator, httpThread, request, cache>>

Update ==
  UpdateLock \/ UpdateGetUsers \/ UpdateCount \/ UpdateGetCoM \/ UpdateUnlock

-----------------------------------------------------------------------------
(* The HTTP thread: the getters.  createResponse calls one at "call"; it   *)
(* returns to "send", or throws to "sendError".                            *)

\* getUserIds, without the mutex: the test of the count, then the loop's
\* condition and the read of a slot, each on whatever the arrays hold.
GetUserIds ==
  /\ httpPc = "call" /\ request.op = "getUserIds"
  /\ httpPc' = IF detectedUsersCount # 0 THEN "ids" ELSE "send"
  /\ UNCHANGED <<generator, mainThread, httpI, user, request, mutex, cache>>

GetUserIdsLoop ==
  /\ httpPc = "ids"
  /\ httpPc' = IF httpI < detectedUsersCount THEN "readId" ELSE "send"
  /\ UNCHANGED <<generator, mainThread, httpI, user, request, mutex, cache>>

GetUserIdsRead ==
  /\ httpPc = "readId"
  /\ user' = [user EXCEPT !.ids = Append(@, detectedUsers[httpI])]
  /\ httpPc' = "ids" /\ httpI' = httpI + 1
  /\ UNCHANGED <<generator, mainThread, request, mutex, cache>>

\* A slip: no lock after the test.
ByIdTestNoLock ==
  /\ httpPc = "call" /\ request.op \in ByIdOps
  /\ httpPc' = IF detectedUsersCount # 0 THEN request.op ELSE "send"
  /\ UNCHANGED <<generator, mainThread, httpI, user, request, mutex, cache>>

\* The test of the getters by id that precedes their lock.
ByIdTest ==
  /\ httpPc = "call" /\ request.op \in ByIdOps
  /\ httpPc' = IF detectedUsersCount # 0 THEN "byIdLock" ELSE "send"
  /\ UNCHANGED <<generator, mainThread, httpI, user, request, mutex, cache>>

\* A slip: getCenterPoints without its lock.
GetterNoLock ==
  /\ \/ httpPc = "call" /\ request.op \in LockFirstOps
     \/ httpPc = "byIdLock"
  /\ \/ mutex = "free" /\ mutex' = "http"
     \/ request.op = "getCenterPoints" /\ UNCHANGED mutex
  /\ httpPc' = request.op
  /\ UNCHANGED <<generator, mainThread, httpI, user, request, cache>>

GetterLock ==
  /\ \/ httpPc = "call" /\ request.op \in LockFirstOps
     \/ httpPc = "byIdLock"
  /\ mutex = "free"
  /\ mutex' = "http"
  /\ httpPc' = request.op
  /\ UNCHANGED <<generator, mainThread, httpI, user, request, cache>>

GetNumberOfDetectedUsers ==
  /\ httpPc = "getNumberOfDetectedUsers"
  /\ user' = [user EXCEPT !.number = detectedUsersCount]
  /\ mutex' = "free" /\ httpPc' = "send"
  /\ UNCHANGED <<generator, mainThread, httpI, request, cache>>

GetCenterPointsRead ==
  /\ httpPc = "getCenterPoints" /\ httpI < detectedUsersCount
  /\ user' = [user EXCEPT !.ids = Append(@, detectedUsers[httpI]),
                          !.points = Append(@, centerPoint[httpI])]
  /\ httpI' = httpI + 1
  /\ UNCHANGED <<generator, mainThread, httpPc, request, mutex, cache>>

GetCenterPointsUnlock ==
  /\ httpPc = "getCenterPoints" /\ httpI >= detectedUsersCount
  /\ mutex' = "free" /\ httpPc' = "send"
  /\ UNCHANGED <<generator, mainThread, httpI, user, request, cache>>

\* user_num of the getters by id: the user's slot, or 0, which is also the
\* slot of the first user.
Matches ==
  {i \in Slots : i < detectedUsersCount /\ detectedUsers[i] = request.id}
UserNum ==
  IF Matches = {} THEN 0
  ELSE CHOOSE i \in Matches : \A j \in Matches : i <= j

ByIdFound ==
  /\ httpPc \in ByIdOps /\ UserNum # 0
  /\ user' = [user EXCEPT !.ids = <<request.id>>,
                          !.points = <<centerPoint[UserNum]>>]
  /\ mutex' = "free" /\ httpPc' = "send"
  /\ UNCHANGED <<generator, mainThread, httpI, request, cache>>

\* The throw leaves the mutex locked: lock() and unlock() are plain calls.
ByIdThrow ==
  /\ httpPc \in ByIdOps /\ UserNum = 0
  /\ httpPc' = "sendError"
  /\ UNCHANGED <<generator, mainThread, httpI, user, request, mutex, cache>>

Getter ==
  \/ GetUserIds \/ GetUserIdsLoop \/ GetUserIdsRead
  \/ GetterLock \/ GetNumberOfDetectedUsers
  \/ GetCenterPointsRead \/ GetCenterPointsUnlock
  \/ ByIdTest \/ ByIdFound \/ ByIdThrow

-----------------------------------------------------------------------------
(* The two threads around this cache alone.                                *)

InitCache ==
  /\ mutex = "free"
  /\ detectedUsers = [i \in Slots |-> 0]
  /\ detectedUsersCount = 0
  /\ centerPoint = [i \in Slots |-> NoPoint]

Init ==
  /\ InitCache
  /\ generator = [users |-> <<>>, frame |-> 0]
  /\ mainPc = "wait" /\ mainI = 0
  /\ httpPc = "idle" /\ httpI = 0
  /\ request \in Requests /\ user = NoUser

\* context.WaitAndUpdateAll(): the next frame, then updateData().
WaitAndUpdateAll ==
  /\ mainPc = "wait"
  /\ \E scene \in Scenes :
       generator' = [users |-> scene,
                     frame |-> (generator.frame + 1) % FrameTags]
  /\ mainPc' = "detected"
  /\ UNCHANGED <<mainI, httpThread, request, mutex, cache>>

HandleRequest ==
  /\ httpPc = "idle"
  /\ request' \in Requests
  /\ httpPc' = "call"
  /\ UNCHANGED <<generator, mainThread, httpI, user, mutex, cache>>

\* The locals of the request go out of scope with its answer.
Send ==
  /\ httpPc \in {"send", "sendError"}
  /\ httpPc' = "idle" /\ httpI' = 0 /\ user' = NoUser
  /\ UNCHANGED <<generator, mainThread, request, mutex, cache>>

Next == WaitAndUpdateAll \/ Update \/ HandleRequest \/ Getter \/ Send

Spec == Init /\ [][Next]_vars

-----------------------------------------------------------------------------
(* What the class promises.                                                *)

UpdatePcs == {"detected", "getUsers", "getCoM"}
HttpPcs ==
  {"idle", "call", "ids", "readId", "byIdLock", "send", "sendError"}
    \cup LockFirstOps \cup ByIdOps

\* The types of the members and of the threads' locals.
TypeOK ==
  /\ generator \in [users : Scenes, frame : 0 .. FrameTags - 1]
  /\ mainPc \in UpdatePcs \cup {"wait", AfterUpdate}
  /\ mainI \in 0 .. MaxUsersNum
  /\ httpPc \in HttpPcs /\ httpI \in Nat
  /\ request \in Requests
  /\ user \in [ids : Seq(Users), points : Seq(CentersOfMass \cup {NoPoint}),
               number : 0 .. MaxUsersNum]
  /\ mutex \in {"free", "main", "http"}
  /\ detectedUsers \in [Slots -> Users]
  /\ detectedUsersCount \in 0 .. MaxUsersNum
  /\ centerPoint \in [Slots -> CentersOfMass \cup {NoPoint}]

\* Ids and centres of mass, position by position, of one frame and of
\* different users.
OneFrame(ids, points) ==
  \E tag \in 0 .. FrameTags - 1 :
    \A k \in DOMAIN ids :
      /\ points[k] = [user |-> ids[k], frame |-> tag]
      /\ \A l \in DOMAIN ids : ids[k] = ids[l] => k = l

\* Whoever holds the mutex, and update() once it has returned, sees the users
\* of one frame with the centres of mass of that frame: update() never shows
\* a half-written cache to a getter that locks.
WholeFrame ==
  mutex # "main" =>
    \E tag \in 0 .. FrameTags - 1 :
      \A i \in Slots : i < detectedUsersCount =>
        /\ detectedUsers[i] \in UserIds
        /\ centerPoint[i] = [user |-> detectedUsers[i], frame |-> tag]
        /\ \A j \in Slots :
             j < detectedUsersCount /\ detectedUsers[i] = detectedUsers[j]
               => i = j

\* When updateData() is over the cache shows exactly the generator's users,
\* none from an earlier frame: what main.cpp's loop relies on.
ShowsScene ==
  /\ detectedUsersCount = NumUsers
  /\ \A i \in Slots : i < NumUsers =>
       /\ detectedUsers[i] = generator.users[i + 1]
       /\ centerPoint[i] = GetCoM(generator.users[i + 1])
MirrorsScene == mainPc \in {"wait", AfterUpdate} => ShowsScene

\* The answer of getCenterPoints is one frame's: every id with its own centre
\* of mass, however many updates ran before and after its lock.
CenterPointsSnapshot ==
  httpPc = "send" /\ request.op = "getCenterPoints" =>
    /\ Len(user.points) = Len(user.ids)
    /\ OneFrame(user.ids, user.points)

\* An answer of getDepthById or getCenterPointById that carries data carries
\* the asked user's, although the count was tested before the lock.
ByIdData ==
  httpPc = "send" /\ request.op \in ByIdOps /\ user.ids # <<>> =>
    /\ user.ids = <<request.id>>
    /\ user.points[1].user = request.id

\* getUserIds takes no lock, so its list may mix frames; but update() stores
\* the users before the count, so it never lists an unused slot.
UserIdsReal ==
  request.op = "getUserIds" =>
    \A k \in DOMAIN user.ids : user.ids[k] \in UserIds

\* A getter by id threw with the mutex locked.
Leaked == mutex = "http" /\ httpPc \notin LockFirstOps \cup ByIdOps

\* Nobody can undo that: the cache is frozen from then on, whichever steps
\* the two threads still take.
LeakFreezes == [][Leaked => Leaked' /\ UNCHANGED cache]_vars
=============================================================================
