----------------------------- MODULE HttpServer -----------------------------
(***************************************************************************)
(* The process around its six caches: main.cpp's loop, whose thread waits  *)
(* for a frame and runs KinectHttpServer::updateData(), and the thread of  *)
(* the MHD daemon, which runs RequestHandler::handle_request for one       *)
(* request at a time.  The four image caches (DepthMap, RgbImage,          *)
(* DepthImage, PointCloud) lock, copy and unlock; the two user caches are  *)
(* the modules CalibratedUsers and DetectedUsers.  Each cache has a mutex  *)
(* of its own.                                                             *)
(*                                                                         *)
(* The main thread also broadcasts to the WebSocket clients, from OpenNI's *)
(* callbacks and from frontPoseDetector->detect().  What it says and who   *)
(* hears it are the modules EventReports, PoseTracking and WebSocketServer;*)
(* here a broadcast is a call that returns, blocks or throws.              *)
(***************************************************************************)
EXTENDS Naturals, Sequences, FiniteSets

CONSTANTS
  UserIds, MaxUserNum, MaxUsersNum, MaxScene, NumJoints, FrameTags,
  HttpRequests  \* the requests the clients send

VARIABLES
  generator,         \* OpenNI's generators: users, those tracked, the frame
  mainPc, mainI, mainJoint,
  httpPc, httpI, request, user,
  response,          \* what MHD_queue_response was given
  frameMutex,
  frameMD,           \* the frame of each image cache's metadata
  calibratedMutex, skeletons, calibratedUsers, calibratedCount,
  detectedMutex, detectedUsers, detectedUsersCount, centerPoint

CU == INSTANCE CalibratedUsers WITH
        mutex <- calibratedMutex, AfterUpdate <- "detected"
DU == INSTANCE DetectedUsers WITH
        mutex <- detectedMutex, AfterUpdate <- "detect"

frameCaches == <<frameMutex, frameMD>>
calibrated == <<calibratedMutex, skeletons, calibratedUsers, calibratedCount>>
detected ==
  <<detectedMutex, detectedUsers, detectedUsersCount, centerPoint>>
mainThread == <<mainPc, mainI, mainJoint>>
httpThread == <<httpPc, httpI, request, user, response>>
vars ==
  <<generator, mainThread, httpThread, frameCaches, calibrated, detected>>

\* The order of updateData().
FrameCaches == {"depthMap", "rgbImage", "depthImage", "pointCloud"}
AfterCache ==
  [depthMap |-> "rgbImage", rgbImage |-> "depthImage",
   depthImage |-> "pointCloud", pointCloud |-> "calibrated"]

\* createResponse: the cache a request type reads.
CacheOf ==
  [getRgbData |-> "rgbImage", getJpegImage |-> "rgbImage",
   getRgbDataBinary |-> "rgbImage", getDepthImageData |-> "depthImage",
   getDepthImage |-> "depthImage", getPointCloud |-> "pointCloud",
   getDepth |-> "depthMap"]
FrameOps == DOMAIN CacheOf
ArgOps == {"getDepth"} \cup CU!LookupOps \cup DU!ByIdOps
GoodOps == FrameOps \cup CU!Ops \cup DU!ByIdOps \cup DU!LockFirstOps
             \cup {"getUserIds"}
\* "badRequest": no type, an unknown one, or getMultiPointCloud.
Requests ==
  [op : GoodOps \cup {"badRequest"}, args : BOOLEAN,
   id : UserIds \cup {0}, joint : CU!Joints \cup {CU!NotAJoint}]

\* The sizes are those of arrays, and skeletons is indexed by the id itself.
ASSUME HttpServerAssumption ==
  /\ HttpRequests \subseteq Requests
  /\ MaxUserNum \in Nat /\ UserIds \subseteq 1 .. MaxUserNum - 1
  /\ MaxUsersNum \in Nat \ {0} /\ MaxScene \in Nat
  /\ NumJoints \in Nat \ {0} /\ FrameTags \in Nat \ {0}

NoRequest == [op |-> "none", args |-> FALSE, id |-> 0, joint |-> 0]
NoUser ==
  [ids |-> <<>>, points |-> <<>>, eJoint |-> <<>>, number |-> 0,
   empty |-> FALSE]
NoResponse == [status |-> 0, body |-> "none"]

-----------------------------------------------------------------------------
(* The main thread.                                                        *)

\* OpenNI may call back, and a callback broadcasts.
WaitAndUpdateAll ==
  /\ mainPc = "wait"
  /\ \E scene \in CU!Scenes :
       \E tracking \in SUBSET {scene[i] : i \in DOMAIN scene} :
         generator' = [users |-> scene, tracking |-> tracking,
                       frame |-> (generator.frame + 1) % FrameTags]
  /\ mainPc' \in {"callbacks", "depthMap"}
  /\ UNCHANGED <<mainI, mainJoint, httpThread, frameCaches, calibrated,
                 detected>>

FrameUpdateLock(c) ==
  /\ mainPc = c /\ frameMutex[c] = "free"
  /\ frameMutex' = [frameMutex EXCEPT ![c] = "main"]
  /\ UNCHANGED <<generator, mainThread, httpThread, frameMD, calibrated,
                 detected>>

\* Slips: the cache left alone; the mutex left locked.
FrameUpdateNothing(c) ==
  /\ mainPc = c /\ frameMutex[c] = "main"
  /\ frameMutex' = [frameMutex EXCEPT ![c] = "free"]
  /\ mainPc' = AfterCache[c]
  /\ UNCHANGED <<generator, mainI, mainJoint, httpThread, frameMD,
                 calibrated, detected>>

FrameUpdateLeaks(c) ==
  /\ mainPc = c /\ frameMutex[c] = "main"
  /\ frameMD' = [frameMD EXCEPT ![c] = generator.frame]
  /\ mainPc' = AfterCache[c]
  /\ UNCHANGED <<generator, mainI, mainJoint, httpThread, frameMutex,
                 calibrated, detected>>

\* GetMetaData takes the frame's description and a pointer to OpenNI's pixels.
FrameUpdate(c) ==
  /\ mainPc = c /\ frameMutex[c] = "main"
  /\ frameMD' = [frameMD EXCEPT ![c] = generator.frame]
  /\ frameMutex' = [frameMutex EXCEPT ![c] = "free"]
  /\ mainPc' = AfterCache[c]
  /\ UNCHANGED <<generator, mainI, mainJoint, httpThread, calibrated,
                 detected>>

CalibratedUsersUpdate ==
  CU!Update /\ UNCHANGED <<response, frameCaches, detected>>
DetectedUsersUpdate ==
  DU!Update /\ UNCHANGED <<mainJoint, response, frameCaches, calibrated>>

\* The pose is reported when it begins and when it ends.
Detect ==
  /\ mainPc = "detect"
  /\ mainPc' \in {"broadcast", "wait"}
  /\ UNCHANGED <<generator, mainI, mainJoint, httpThread, frameCaches,
                 calibrated, detected>>

MainThread ==
  \/ WaitAndUpdateAll
  \/ \E c \in FrameCaches : FrameUpdateLock(c) \/ FrameUpdate(c)
  \/ CalibratedUsersUpdate \/ DetectedUsersUpdate \/ Detect

\* write_some returns once the client's socket takes bytes, or with an error.
BroadcastReturns ==
  /\ \/ mainPc = "callbacks" /\ mainPc' = "depthMap"
     \/ mainPc = "broadcast" /\ mainPc' = "wait"
  /\ UNCHANGED <<generator, mainI, mainJoint, httpThread, frameCaches,
                 calibrated, detected>>

\* The connection of a draft-76 client throws, main() catches and returns.
BroadcastThrows ==
  /\ \/ mainPc = "callbacks" /\ mainPc' = "exitCallbacks"
     \/ mainPc = "broadcast" /\ mainPc' = "exitDetect"
  /\ UNCHANGED <<generator, mainI, mainJoint, httpThread, frameCaches,
                 calibrated, detected>>

Broadcasting == mainPc \in {"callbacks", "broadcast"}
Exited == mainPc \in {"exitCallbacks", "exitDetect"}

-----------------------------------------------------------------------------
(* The HTTP daemon's thread.                                               *)

HandleRequest ==
  /\ httpPc = "idle" /\ ~Exited
  /\ request' \in HttpRequests
  /\ httpPc' = "createResponse"
  /\ UNCHANGED <<generator, mainThread, httpI, user, response, frameCaches,
                 calibrated, detected>>

WellFormed ==
  request.op # "badRequest" /\ (request.op \in ArgOps => request.args)

CreateResponse ==
  /\ httpPc = "createResponse"
  /\ httpPc' = IF WellFormed THEN "call" ELSE "sendError"
  /\ UNCHANGED <<generator, mainThread, httpI, request, user, response,
                 frameCaches, calibrated, detected>>

FrameGetterLock ==
  /\ httpPc = "call" /\ request.op \in FrameOps
  /\ frameMutex[CacheOf[request.op]] = "free"
  /\ frameMutex' = [frameMutex EXCEPT ![CacheOf[request.op]] = "http"]
  /\ httpPc' = "copy"
  /\ UNCHANGED <<generator, mainThread, httpI, request, user, response,
                 frameMD, calibrated, detected>>

\* The encoders may leave an empty buffer, which createResponse refuses.
ImageOps == {"getJpegImage", "getDepthImage"}

\* A slip: a throw before the unlock.
FrameGetterLeaks ==
  /\ httpPc = "copy"
  /\ \/ /\ httpPc' = "send"
        /\ frameMutex' = [frameMutex EXCEPT ![CacheOf[request.op]] = "free"]
     \/ /\ request.op \in ImageOps /\ httpPc' = "sendError"
        /\ UNCHANGED frameMutex
  /\ UNCHANGED <<generator, mainThread, httpI, request, user, response,
                 frameMD, calibrated, detected>>

FrameGetterUnlock ==
  /\ httpPc = "copy"
  /\ frameMutex' = [frameMutex EXCEPT ![CacheOf[request.op]] = "free"]
  /\ \/ httpPc' = "send"
     \/ request.op \in ImageOps /\ httpPc' = "sendError"
  /\ UNCHANGED <<generator, mainThread, httpI, request, user, response,
                 frameMD, calibrated, detected>>

CalibratedUsersGetter ==
  CU!Getter /\ UNCHANGED <<response, frameCaches, detected>>
DetectedUsersGetter ==
  DU!Getter /\ UNCHANGED <<mainJoint, response, frameCaches, calibrated>>

\* Responses copy their bytes, but that of getRgbData: MHD_RESPMEM_PERSISTENT
\* on a string that dies when createResponse leaves its block.
Body == IF request.op = "getRgbData" THEN "freed" ELSE "copied"

Send ==
  /\ httpPc = "send"
  /\ response' = [status |-> 200, body |-> Body]
  /\ httpPc' = "transmit"
  /\ UNCHANGED <<generator, mainThread, httpI, request, user, frameCaches,
                 calibrated, detected>>

SendError ==
  /\ httpPc = "sendError"
  /\ response' = [status |-> 400, body |-> "copied"]
  /\ httpPc' = "transmit"
  /\ UNCHANGED <<generator, mainThread, httpI, request, user, frameCaches,
                 calibrated, detected>>

\* The daemon writes the queued response to the socket once the handler has
\* returned, and forgets it.
Transmit ==
  /\ httpPc = "transmit"
  /\ httpPc' = "idle" /\ httpI' = 0
  /\ request' = NoRequest /\ user' = NoUser /\ response' = NoResponse
  /\ UNCHANGED <<generator, mainThread, frameCaches, calibrated, detected>>

HandlerThread ==
  /\ ~Exited
  /\ \/ CreateResponse \/ FrameGetterLock \/ FrameGetterUnlock
     \/ CalibratedUsersGetter \/ DetectedUsersGetter
     \/ Send \/ SendError \/ Transmit

-----------------------------------------------------------------------------

Init ==
  /\ generator = [users |-> <<>>, tracking |-> {}, frame |-> 0]
  /\ mainPc = "wait" /\ mainI = 0 /\ mainJoint = 0
  /\ httpPc = "idle" /\ httpI = 0 /\ user = NoUser /\ response = NoResponse
  /\ request = NoRequest
  /\ frameMutex = [c \in FrameCaches |-> "free"]
  /\ frameMD = [c \in FrameCaches |-> 0]
  /\ CU!InitCache /\ DU!InitCache

Next ==
  \/ MainThread \/ BroadcastReturns \/ BroadcastThrows
  \/ HandleRequest \/ HandlerThread

Spec == Init /\ [][Next]_vars

\* Frames keep coming and a thread that can run does.  The main thread waits
\* for frames and for WebSocket clients with every mutex of its own free, so a
\* blocked thread finds its mutex free again and again: strong fairness.
\* Clients owe nothing: none sends a request, no broadcast has to return.
FairSpec == Spec /\ SF_vars(MainThread) /\ SF_vars(HandlerThread)

-----------------------------------------------------------------------------

\* A getter by id of DetectedUsers threw with the mutex locked.
Leaked == DU!Leaked

Held(thread) ==
  {c \in FrameCaches : frameMutex[c] = thread}
    \cup {c \in {"calibrated"} : calibratedMutex = thread}
    \cup {c \in {"detected"} : detectedMutex = thread}

MainWaits ==
  \/ mainPc \in FrameCaches /\ frameMutex[mainPc] # "main"
  \/ mainPc \in {"wait", "calibrated", "detected"} \/ Broadcasting
HttpWaits ==
  httpPc \in {"idle", "createResponse", "call", "idsLock", "byIdLock", "send",
              "sendError", "transmit"}

\* Six mutexes, two threads and no order among the mutexes: what excludes a
\* deadlock is that no thread holds a mutex while it waits for a second one,
\* for a frame or for a client, a WebSocket client that blocks a broadcast
\* included.  The one exception is the leaked mutex.
LocksOneAtATime ==
  /\ Cardinality(Held("main")) <= 1
  /\ MainWaits => Held("main") = {}
  /\ ~Leaked => Cardinality(Held("http")) <= 1
  /\ HttpWaits => Held("http") \subseteq (IF Leaked THEN {"detected"} ELSE {})

\* When the last update() has returned, and until the next frame, all six
\* caches show the same frame and every user with a skeleton is a user
\* detected.
CachesAgree ==
  mainPc \in {"detect", "broadcast", "wait"} =>
    /\ \A c \in FrameCaches : frameMD[c] = generator.frame
    /\ CU!ShowsTracked /\ DU!ShowsScene
    /\ MaxUsersNum >= MaxScene =>
         {calibratedUsers[i] : i \in 0 .. calibratedCount - 1}
           \subseteq {detectedUsers[i] : i \in 0 .. detectedUsersCount - 1}

\* Every request is answered, even while a WebSocket client holds the main
\* thread in a broadcast, unless the mutex has leaked or the process is gone.
RequestAnswered ==
  httpPc = "createResponse" ~> (httpPc = "idle" \/ Leaked \/ Exited)

\* Even with the mutex leaked a request that does not lock DetectedUsers'
\* mutex is answered: the main thread stops without holding another mutex.
LocksDetected == request.op \in DU!ByIdOps \cup DU!LockFirstOps
UnrelatedAnswered ==
  (httpPc = "createResponse" /\ ~LocksDetected)
    ~> (httpPc = "idle" \/ Exited)

\* Whatever the clients do, an updateData() that has begun gets through the six
\* caches, unless the mutex has leaked; and once a frame has come, updateData()
\* returns for it, unless the mutex has leaked or a WebSocket client hangs a
\* broadcast for ever or makes it throw.
NoBroadcastHangs == []<>~Broadcasting
UpdateReturns ==
  /\ mainPc = "depthMap" ~> (mainPc = "detect" \/ Leaked)
  /\ NoBroadcastHangs =>
       (mainPc # "wait" ~> (mainPc = "wait" \/ Leaked \/ Exited))

\* KinectHttpServer.h:70: updateData() refreshes every instance when the
\* Kinect's information has been refreshed, frame after frame.  A WebSocket
\* client that hangs a broadcast or ends the process is another matter.
UpdateDataKeepsRunning ==
  NoBroadcastHangs => []<>(mainPc = "wait" \/ Exited)

\* RequestHandler.cpp:49: getRgbData answers with the camera's data, so the
\* bytes of a good answer must still be there when the daemon sends them.
AnswerIsTheData ==
  httpPc = "transmit" /\ response.status = 200 => response.body = "copied"
=============================================================================
