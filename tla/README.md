# KinectServer in TLA+

KinectServer publishes what a Kinect sees. A main loop waits for OpenNI's
frames and copies them into six caches; an HTTP daemon answers requests from
the caches; a WebSocket server pushes events (users, hands, poses) as they
happen. This directory models its control (which thread does what to which
shared state in which order, what an error path leaves behind, what follows
from any order of callbacks, requests and clients) and the bytes it puts on the
wire: frames, handshakes, digests, Base64, JSON, pixels.

## 1. Inventory

### Threads

| thread | code | what it runs |
|---|---|---|
| main | `main.cpp:58-61` | `WaitAndUpdateAll()`, which calls OpenNI's callbacks, then `updateData()` |
| HTTP | `KinectHttpServer.cpp:173` | MHD's internal select thread: `RequestHandler::handle_request`, one request at a time |
| io_service | `WebSocket/Server.cpp:17-20` | accepts, handshakes and reads of all WebSocket clients |

Main and HTTP share the six caches, each with a mutex of its own. Main and
io_service share the vector of connections, the connections' states and their
sockets, with no effective mutex: `lock(mtx);` declares a variable named `mtx`.

### Components

| component | state | operations | talks to |
|---|---|---|---|
| `DetectedUsers` | ids, count, centres of mass, mutex | `update`, five getters | user generator (main), `createResponse` (HTTP) |
| `CalibratedUsers` | ids, count, skeletons, mutex | `update`, four getters | the same |
| `DepthMap`, `RgbImage`, `DepthImage`, `PointCloud` | the frame's metadata, mutex | `update`, one to three getters | image and depth generators, `createResponse` |
| `RequestHandler` | the request, the response | `createResponse`, `send`, `sendError` | all caches, MHD |
| `KinectHttpServer` | the above, OpenNI's nodes, the pose's name, `UserCalibration.bin` | `updateData`, six callbacks, `SaveCalibration`, `LoadCalibration` | OpenNI, all |
| `AbstractUserDetector`, `UserDetector` | `tracking`, `tracking_user` | seven callbacks | OpenNI, `broadcastText` |
| `AbstractPoseDetector`, `FrontPoseDetector` | `posingTime`, `posing` | `detect`, `calcPose`, `detectPose`, `lostPose` | OpenNI, `broadcastText` |
| `HandDetector` | `tracking`, `trackingUserID` | five callbacks | OpenNI, `broadcastText` |
| `WebSocket/Server` | vector of connections | accept, `broadcastText` | both threads |
| `ConnectionFactory`, `Connection_*` | socket, `current` | handshake, `listen`, `handle_read`, `sendText` | the peer |
| `Frame`, `Header` | bytes | `ParseFrame`, `ToBinary`, `FrameSize`, `ParseHeader` | `Connection_*` |
| `json/lib_json` (vendored JsonCpp) | a tree of values; a reader's position | `operator[]`, `append`, `resize`, ..., three writers, `Reader::parse` | every getter |
| `PolarSSL` (vendored) | a digest's context | `sha1`, `md5`, their parts and HMACs, `base64_encode`, `base64_decode` | the handshakes, `RgbImage`, `DepthImage` |

`PoseDetector` is compiled but never instantiated.

### What is hard about it, and what makes it correct

- *Two threads on each cache.* A reader must get one frame, whole. Most
  accesses are locked, but not all: `getUserIds` never locks, three getters
  look at the count before they lock.
- *Errors under a lock.* `CalibratedUsers` throws under a `scoped_lock`,
  `DetectedUsers` under a plain `lock()`, which nobody undoes.
- *Six mutexes, no order.* No thread may wait while it holds one.
- *Data that outlives its owner.* A response is sent after its handler is gone.
- *Two threads on the connections.* The vector moves, sockets close and states
  change under a broadcast; the promise to a subscriber (every message, once,
  in order) must survive that.
- *Blocking calls.* A client that never asks, or never reads, stops a thread:
  the io_service thread, or the main thread, which broadcasts from the callbacks
  and from `detect()`, and with it every frame.
- *Long sequences of callbacks.* Who is tracked, who waits for what and what a
  pose counter holds depend on everything that came before.
- *Bytes by hand.* Frames, headers, histograms and pixels are put together with
  index arithmetic on signed and unsigned bytes; a stream shifts for good if a
  frame is one byte short, a buffer keeps what was in it, and a parser that is
  not told how much was read goes on behind it.
- *State across runs.* The calibration file is given to the first user who fits.

PROJECT.json lists each hazard at its line with the properties that cover it.

## 2. Modules

    DetectedUsers ----+                          OrderedBroadcast
                      +--> HttpServer                  ^ refines
    CalibratedUsers --+                          WebSocketServer

    PoseTracking <-- EventReports                CalibrationStore

    Digests <-- DigestStandards --------------------+
    Base64 -----------------------------------------+
    HashStream, Base64Buffers, Handshake -----------+--> WireFormats
    Frames <-- WebSocketStream ---------------------+
    FrameImages ------------------------------------+          |
                                                               v
    JsonValue <-- JsonReader --+                          ServerBytes
    JsonValue <-- JsonWriter --+--> JsonDocuments ------------^
                                         | refines
                                      JsonTree

`HttpServer` INSTANCEs both user caches, with a mutex each and the program
counters shared, so that their `Update` and `Getter` actions become parts of
the one main thread and the one HTTP thread. `WebSocketServer` INSTANCEs
`OrderedBroadcast`, the abstract promise it implements. `PoseTracking` and
`CalibrationStore` run on the main thread alone and touch no cache: they are
modules of their own. The `MC*` modules and `.cfg` files hold the constants for
TLC, the `*Proofs` modules the theorems. `A <-- B` is "B extends A".
`WireFormats` INSTANCEs five modules that share nothing; one of them is at work,
chosen in `Init`, so that one run checks the sum of their states. The functions
they call, of the digests and of Base64, are CONSTANTS with parameters in them:
`WireFormats` extends the modules that define these, and each INSTANCE takes
them by their names, so that there is one `Encode` for all five and for every
theorem. `ServerBytes` extends `WireFormats` and `JsonDocuments` and puts the
documents beside the five in the same way, for TLC alone: their operators are
RECURSIVE, and `WireFormats` has theorems. An operator whose comment calls it a
slip is a mutant: the mapped definition that follows it with a plausible bug.
PROJECT.json pairs each with the property that must then fail.

### DetectedUsers, CalibratedUsers

A step is what the other thread can tell apart. `update()` is: take the mutex,
each slot that `GetUsers` writes into the shared array, the count, each centre
of mass, the unlock (for `CalibratedUsers`: the reset of the count, each user
tested, each joint, the append, the unlock). A getter reads one slot or joint
per step; where the code holds the mutex during a whole lookup and nothing else
can change, the lookup is one step. `httpPc = "call"` is the call from
`createResponse`; `"send"` the return; `"sendError"` the throw. `user` is the
`Json::Value` under construction. Data are provenance: a centre of mass is the
user and the frame it is from, a position also the joint. Frame tags are taken
modulo `FrameTags`.

`getUserIds` is a data race. Its reads and the writes it races are each one
aligned word; between the writes stands the call of `GetUsers` into another
library, between the reads Json code, so that the build keeps their order. The
model interleaves them one by one in program order.

`MaxScene`, the most users in view, is free: when it exceeds `MaxUsersNum`
`GetUsers` truncates. `skeletons[userID]` is indexed by the id itself;
`CalibratedUsersAssumption` states the bound on ids that the code relies on.

### HttpServer

`mainPc` walks through `updateData()` in the order of its calls, `httpPc`
through `handle_request`. The main thread broadcasts at two places, in the
callbacks of `WaitAndUpdateAll()` (`"callbacks"`) and when `detect()` reports a
pose (`"broadcast"`). Who is sent what is the matter of `WebSocketServer`; here
a broadcast is a call that returns, never returns, or throws, as the connection
of a draft-76 client does, after which `main()` returns and the process with its
daemon is gone (`Exited`). The four image caches share two actions for the
writer and two for the reader, as they all lock, copy and unlock; an encoder may
leave an empty buffer, which `createResponse` refuses. `frameMD` is the frame
that `GetMetaData` described last; the pixels stay OpenNI's (see 6). `Body` says
what the response points to: a copy, or the freed string of `getRgbData`.
`Transmit` is the daemon's, external.

### WebSocketServer, OrderedBroadcast

`ioPc` is the io_service thread between two of its blocking calls, `mainPc` the
main thread inside `broadcastText`. Clients connect, ask, send, read and leave
whenever they like; what a good request and a whole message are is the matter of
`Handshake` and `WebSocketStream`. The sockets' buffers hold `BufSize` messages:
a write into a full one blocks. A write to a peer that is gone may succeed or
fail, as TCP has it. An accept that fails leaves no socket to read from, and the
null connection that follows stops the process. `push_back` with a full vector
moves the storage: a broadcast in progress then has `dangling` iterators, and
each further access reads the old pointers or crashes. `vector::push_back` and
`BOOST_FOREACH`, which evaluates `begin()` and then `end()`, once each, are what
the standard library and Boost do: a client listed in between is still sent the
message (which counts as begun with `end()`), and if the storage moved in
between the loop has no end (`ForeachMixed`). `listedAt` is a history variable
for the refinement: how many messages had been begun when a client was listed.

`OrderedBroadcast` is the promise: the handshake first, then from its
subscription on every message, in order, until the subscriber is given up. Its
`Deliver(p)` allows only the message that follows the last one delivered, so
that a message lost, repeated or overtaken has no abstract step to map to.

### PoseTracking

The callbacks of `AbstractUserDetector`, in any order OpenNI may make them, then
`detect()` once per frame. `calcPose()` is the Boolean `front`, which is also
FALSE for joints OpenNI is unsure of. `held` is a history variable: for how many
frames on end the pose was held. Counts stop at `DT + 1`: they only ever meet
the test `> DT`.

### EventReports

`PoseTracking` with the other two that report on the main thread. A report is
kept as its effect on a client that believes it: `told` (the last of "detect",
"calibration", "lost" for each user), `believed` (who poses), `toldHands`.
`UserDetector` has a user generator of its own, since each detector calls
`user_gen.Create`: its users (`known`) are not those of `PoseTracking`, though
their callbacks are made by the same `WaitAndUpdateAll()`. Two exceptions are
stated rather than hidden: `detectPose()` and `lostPose()` name whoever is
tracked at that moment, so a client may be wrong about those in `switched`; and
`HandDetector` has one flag for all hands, so a hand in `together` may never be
reported as gone.

### CalibrationStore

The callbacks of `KinectHttpServer` on the sets OpenNI keeps (users,
those whose pose is awaited, calibrating, calibrated, tracked) and whether there
is a calibration file; `Init` allows one from an earlier run. `GetUsers` lists
users in no order the code knows of, so "the first user without calibration" is
any such user. OpenNI may refuse the file, and the newcomer is then treated as
if there were none.

### Digests, HashStream

`sha1.c` and `md5.c` word by word: the macros F, K, P, R and S, sixteen words
used over and over, the buffer of a context. A word of 32 bits is a pair of
halves, since TLC's integers have 32 bits with a sign. `HashStream` feeds a
context in parts of lengths around a block. `DigestStandards` is the reference:
FIPS 180, RFC 1321 and RFC 2104 as they are written, with the whole schedule and
a message padded first. A context's total is a number without a limit; what
`High` and `Low` keep of it are the 64 bits that both words of `total` keep.

### Base64, Base64Buffers

Both functions with the room they are given, what they leave in `*dlen` and what
they write. Between them a line is broken somewhere or a character lost.

### Frames, WebSocketStream

`Frames` is `Frame.cpp` byte by byte, with what the compiler makes of it: a
`char` is signed, an extended length overwrites the mask's bit, and a shift by a
negative count (`IsLongLength`) may give any byte. `WebSocketStream` is one
connection: what `sendText` gives to `write_some` is appended to `wire`, all of
it or a part, and a client of RFC 6455 or draft 76 reads frame by frame.
`whole` remembers whether every frame went out complete.

The other way `handle_read` parses what one read has put into a buffer of
`BufferSize` bytes (2048, `Connection.h:46`). `ParseFrame` gets a pointer: it
sees a `Memory`, the bytes that were read and behind them stray ones without an
end. A frame that came in parts, or does not fit, is therefore parsed all the
same, out of whatever lies there, and reading behind the buffer may also end the
process (`Outcomes`). What the server then takes for the text is in `heard`.

### Handshake

A request is written over what the buffer held (`Leftovers`), read up to a NUL
(`CString`), split into lines, of which those between the first and the last
have names, and answered by one of the constructors. A symbol is a byte or stands
for the first line or a header's name. `output_size` and the byte behind a short
body are whatever they are (`OutputSizes`, `stray`). A request that does not fit
the buffer is not read here. `HandshakeRight` names what it leaves out: the
accept key when `output_size` happens to be below 29, draft 76 and refusals
when what another request left behind this one breaks into lines, and the
digest for a body with a NUL, CR or LF, which `ChallengeAnswered` is about
(finding 5). `IsRequest` is what a client
writes, and `RequestsAssumption` asks it of `Requests`: values without breaks or
blanks at their ends, the numbers the keys stand for, and the reply that the
client knows to be the standard's, of which the run has RFC 6455's own
example and draft 76's. That `decodeKey` finds a key's number is therefore
what those examples show, no theorem.

### FrameImages

The getters of the four image classes on one frame: index arithmetic, bytes,
histogram, Base64. Red and blue change places in `cvCvtColor`, as the code asks
for. `FormatsAssumption` has two preconditions that the code does not check: a
depth below `GetDeviceMaxDepth()`, which is the size of the histogram, and a
frame of the 640 by 480 pixels that `depth2point` goes through; that these are
more than two is a third, for the buffer of `getRgbData`.

### JsonValue, JsonWriter, JsonReader, JsonDocuments, JsonTree

`JsonValue` has an array as the code has it, a map from indices, so that an
index skipped is a gap in the map and a null to every reader. `JsonTree` is what
that must look like from outside: sequences without gaps, changed at one place.
`JsonDocuments` builds a tree, writes it with `FastWriter`, `StyledWriter` or
`StyledStreamWriter` and reads it again, with the features of a default or of a
strict reader. The server itself only builds and writes: its arrays are filled
from index 0 on, and `json_reader.cpp` stands for a client that reads what it
sent. That is why no property is about texts the writers do not make, of which
the reader takes some that JSON does not have: behind a comment any token
separates two members, and in strict mode comments between an item and the next
comma are taken although `features.h:30` calls them forbidden. `JsonReader` has
these as they are. `resize` of an array whose last kept value is missing fails
its own assertion (`json_value.cpp:1066`); `MayResize` excludes it. Reals are
hundredths, so that what `%.16g` rounds is outside.

## 3. Runs

| run | instance | distinct states | shows |
|---|---|---|---|
| `detected` | 3 users, 2 slots, 2 frame tags, every getter | 1 068 182 | readers that lock see one whole frame; unlocked reads are harmless in the ways stated; a leak is for ever |
| `calibrated` | 2 users tracked or not, 2 joints, 2 tags | 268 540 | the same for skeletons; when an error or a `""` is honest |
| `http` | 1 user, 1 joint, 12 kinds of request, broadcasts that hang or throw | 124 486 | one mutex at a time; caches agree; requests answered whatever WebSocket clients do; updates return unless leaked or hung |
| `http_stall` | as `http` | | finding 1 |
| `http_body` | as `http` | | finding 2 |
| `ws` | 2 clients, 2 messages, buffers of 1, fair | 336 373 | ordered delivery (refinement), nobody missed, what can stop the process; broadcasts return; clients that ask are listed |
| `events` | 2 users, 1 of `UserDetector`, 2 hands, DT = 5, fair | 625 664 | tracked users are present, nobody is forgotten, a lasting pose is followed, reports are true |
| `pose_held` | 2 users, DT = 5 | | finding 3 |
| `calibration` | 4 users | 705 | the state is coherent; nobody is forgotten |
| `calibration_load` | as `calibration` | | finding 4 |
| `bytes` | see below | 62 079 | digests, Base64, frames, handshakes, pixels and documents are right |
| `challenge` | as `bytes` | | finding 5 |

### Why the bounds are enough

- *Users.* Three users for two slots make `GetUsers` truncate and let every list
  shrink, grow and permute; two users already give a skeleton a neighbour. Two
  users for the detectors: one tracked, the other calibrated meanwhile, each
  gone at any time; `UserDetector` keeps nothing that ties one user to another.
  Two hands can share the flag. Four for the file: one tracked, one calibrating,
  one waiting, one new.
- *Frames.* Two tags tell a frame from the next, which is all a property compares.
- *Joints.* Two make a skeleton that can be half-written; which joint is which
  never matters. `http` needs one: what is inside a cache is the matter of
  `calibrated`, and `http` is about the mutexes.
- *Requests in `http`.* One for every getter of `CalibratedUsers` but
  `getSkeletonJointPosition`, which takes the same steps as `getSkeletonById`;
  of the frame caches one with arguments, one with an encoder, one of neither;
  of `DetectedUsers` one without a lock, one that locks first and one by id.
- *Clients.* Two make a vector move while the first is served (capacity 1 to
  2) and fail at every point of the other's broadcast. Two messages make an
  order. A buffer of one message is always empty or full.
- *Digests.* Parts of 1, 55 and 64 bytes, two of them: a block is filled exactly,
  over and not, the padding fits and needs a block of its own; an HMAC's key is
  none or longer than a block.
- *Base64.* Up to three bytes: each number of padding characters; buffers that
  are too small, and just large enough.
- *Frames.* Texts of 0, 125, 126 and 127 bytes, on both sides of the extended
  length and of what `FrameSize` takes for it. Two texts, as the second is read
  where the first ends. Texts heard of 0 to 293 bytes, with a length byte on both
  sides of 128, out of a buffer of 300 instead of 2048 bytes, which a text of 292
  fills to its last byte and one of 293 exceeds; read whole, all but one byte, or
  the first one or three; and behind it zeros, ones or a byte between.
- *Handshakes.* Nine requests: RFC 6455's example, keys whose digest needs one
  block or two, a value with colons, a name twice, none, hixie-76's example, a
  body with delimiters, a key without spaces; two of them in turn, in a buffer
  that held something before.
- *Pictures.* Every frame of 3 by 2 pixels with no depth, a small one and one
  above 255: rows differ from columns, and the histogram has steps.
- *JSON.* Two changes put a gap into an array below an object and write behind
  it; values are at the limits of an integer (of 8 bits), and have what is
  escaped.
- *Processes.* Threads are the three of the program; MHD's thread handles one
  request at a time, so there is one HTTP thread.

Deadlock checking is off where the system may stop: after the leak both threads
may wait for the mutex (`detected`, `http`); a process that crashed or exited
(`http`, `ws`), clients and messages that are finite (`ws`); an answer is an end
(`bytes`). It is on for `calibrated`, `events` and `calibration`.

### Fairness

- `HttpServer!FairSpec`: frames keep coming and a thread that can run does.
  Strong fairness, since a thread that waits for a mutex is enabled again and
  again rather than continuously: the other one gives it back before it waits
  for frames or clients. Nothing is assumed of clients: they may never ask, and
  a broadcast need not return (`BroadcastReturns` is outside the fair actions).
  `RequestAnswered` and the first half of `UpdateReturns`, that an `updateData()`
  that has begun gets through all six caches, hold without any such assumption.
  That it also returns from `detect()` is only true if no client hangs a
  broadcast for ever (`NoBroadcastHangs`, the premise of the second half) and
  none makes it throw (`Exited`).
- `WebSocketServer!FairSpec`: both threads run; the reactor comes to each client
  that is waiting (strong, as it handles one thing at a time); clients that stay
  read what they are sent. The last is an assumption on clients; without it
  the blocking write makes `BroadcastReturns` false.
- `PoseTracking!FairSpec` and `EventReports!ReportSpec`: `WaitAndUpdateAll()`
  returns with each frame and `detect()` is called. Nothing is assumed of users
  and their callbacks.

## 4. Findings

1. `DetectedUsers.cpp:89` (`http_stall`): `getDepthById` and `getCenterPointById`
   throw with the mutex locked. One request for a user who is not there, or for
   the one in slot 0, stops the main loop at its next frame. What still
   works is in `http`: requests that do not need this mutex are answered
   (`UnrelatedAnswered`), because the main thread stops without holding another.
2. `RequestHandler.cpp:57` (`http_body`): the answer of `getRgbData` lies in a
   string that is destroyed before the daemon sends it.
3. `FrontPoseDetector.cpp:30` (`pose_held`): the time of a pose is only reset
   after a report, so that short poses add up to a long one.
4. `KinectHttpServer.cpp:81` (`calibration_load`): the file is loaded for another
   user than the one that came, who then gets neither a skeleton nor a pose
   detection. `NobodyForgotten` of `CalibrationStore` is stated for the time
   before there is a file for this reason. When OpenNI refuses the file there is
   no such loss: the newcomer is calibrated.
5. `Header.cpp:44` (`challenge`): the body of a draft-76 request is the last of
   the lines the request was split into, up to a NUL. Its eight bytes are random,
   so that about one client in eleven has a CR, LF or NUL among them and gets
   the digest of something else, against the comment at
   `Connection_draft76.cpp:20-22`.

Four more divergences are in the models without a run of their own, as each
would only repeat a line of `map`: a text of 126 bytes is sent without its last
two (`Frame.cpp:171` says 126 needs no extended length, line 119 that it does;
`ToBinary` prints "error" when it notices), which `StreamIntact` excludes by
`whole`; a client's text of 128 bytes ends the io_service thread, and one that
comes in parts or exceeds 2048 bytes is misread (`ClientUnderstood`, which
excepts both); a pose's "lost" may name another user than its "detect"
(`switched`); the second of two hands is never reported as destroyed
(`together`).

## 5. Proofs

tlapm checks every theorem below, for all values of the constants that satisfy
the named assumptions (`DetectedUsersAssumption`: ids are positive, sizes
natural and the arrays not empty; `CalibratedUsersAssumption`: ids are below
`MaxUserNum`, which the code relies on without a test; `HttpServerAssumption`:
both; `PoseTrackingAssumption`; `CalibrationStoreAssumption`;
`WebSocketServerAssumption`; `FormatsAssumption` and `RequestsAssumption`, see
`FrameImages` and `Handshake` above). Each proof has a lemma for every action,
which `NextKeeps` combines, and ends in an `Invariance` theorem that the others
cite.

**`DetectedUsersProofs`.** `TypeOK`, `WholeFrame`, `MirrorsScene`,
`CenterPointsSnapshot`, `ByIdData` and `UserIdsReal` as invariants and
`LeakFreezes` as an action property, that is all that the run `detected` checks.
None is inductive. The inductive invariant adds
  - `LockInv`: the mutex is `"main"` exactly while `update()` is inside, and
    `"http"` at least while a locking getter is;
  - `UpdateInv`: how many slots `update()` has written and measured, without
    which nothing is known at its unlock;
  - `SlotsInv`: slots below the count hold real users at every moment, even in
    the middle of `update()`, and a slot that `getUserIds` has tested still does
    when it is read, although the count may have shrunk since: this is what
    makes the unlocked list harmless;
  - `ReadInv`: the answer so far is a copy of the slots below `httpI`.

**`CalibratedUsersProofs`.** All that the run `calibrated` checks. `UpdateInv`
says that the list holds exactly those of the frame's first `mainI` users that
are tracked (`Listed`), each once and with the frame's skeleton, and how many
joints of the next one are written. That ids are indices of `skeletons` is what
keeps one user's joints apart from another's; that ids are distinct is why the
list is never longer than its array (a pigeonhole argument on the scene).

**`HttpServerProofs`.** The mutexes: `LocksOneAtATime`. `MutexInv` reads each of
the six off the two program counters; two mutexes held would put one thread in
two places. The caches: `CachesAgree`, by composition. The HTTP thread changes
no cache, so the server implements `CalibratedUsers!Spec` and
`DetectedUsers!Spec` with the HTTP thread standing still: the refinement mapping
sends the steps before a cache's `update()` to its call and those after it to
the wait for the next frame. What was proved of the two classes alone then
holds in the server (`CUP` and `DUP` are INSTANCEs of their proof modules), and
the image caches add `FramesInv`: those `updateData()` has been at have the
frame. `detect()` and what a broadcast does are stutters of both caches, and
every broadcast is made with no mutex held. The mapping hides the HTTP thread:
what its answers promise inside the server is not claimed by these theorems.

**`EventReportsProofs`.** The detector of poses by itself: `TypeOK`,
`TrackedPresent` and `NobodyForgotten`. The three together are inductive: a user
that comes has no skeleton by `NobodyForgotten`, so it cannot be the tracked
one. All reports: `ReportSpec` implements `PoseTracking!FairSpec`, so
that the theorems above carry over; and `ReportsFollowed`, the most that a
client may conclude from the reports. Its inductive companion `FlagCovers` says
that a hand in view is excepted when the flag of `HandDetector` is down or when
there is a second one.

**`CalibrationStoreProofs`.** `TypeOK`, `Coherent` and `NobodyForgotten`,
inductive together, whichever user the file is loaded for.

**`WebSocketServerProofs`.** `OnlyKnownStops`, `NobodyMissed` and
`OrderedDelivery`, the refinement of `OrderedBroadcast`, for any number of
clients, messages and buffers. At the centre is `Served(i, p)`: a client that is
still there has been sent as many messages as were begun since it was listed,
less one if the broadcast has yet to come to it (`Pending(i)`), is in state
CONNECTED or in the hands of the main thread, and has the message last if the
broadcast has passed it. It needs
  - `IterInv`: the iterators stay inside the vector, which only grows behind
    `end`;
  - `ListInv`: nobody is listed twice, and whoever is listed has made its
    handshake;
  - `IoInv`: the client that the io_service thread is about to list is not in
    the vector and has the handshake and nothing else, and the one whose state
    it is about to set has its socket closed already;
  - `ClosedInv`: a closed socket means version 10 or a peer that is gone, which
    is why a write to a client of draft 76 fails only when that client has left.

**`PolarSSLProofs`.** `ComesBack`, for data of any length: what `base64_encode`
made, with one line's end anywhere in it, decodes to the data or the buffer is
said to be too small. The argument follows the code. The two tables are inverse
to each other; four characters carry the 24 bits of three bytes, whichever of
them are padding (`EncodedIsPadded`); the first loop of the decoder accepts
every character and counts all but the line's end (`BrokenIsValid`,
`BrokenIsCounted`); the second skips the same ones (`KeptWhole`) and gives back
three bytes for four (`DecodedBack`); no result is longer than the room. The
concatenation of the groups is a recursive function (`FlattenSeq`), and where
each group lies in it is found by a least counterexample (`Least`).

Of the digests, `Sha1BlockIsStandard` and `Md5BlockIsStandard`, for any state and
block, and what a context stands for. The argument has three levels.
  - *Words.* `F` of both files computes with fewer operators what the standards
    write out. That they agree is a table of sixteen cases for four bits
    (`FourIdsHold`), put together to halves and words (`HalfIdentities`).
  - *Steps.* `Steps` is a recursive function of a step that is an operator, and no
    prover takes one as a parameter: each of the eight uses has its run as a
    function from the number of steps (`Sha1Steps`, `ScheduleSteps`, ...), which
    exists by induction. Two runs are then related step by step: the registers of
    the code rotate their roles where the words of the standard move on, and the
    word `W[t % 16]` is the schedule's at `t` (`Sha1RoundsSame`, `Md5RoundsSame`).
  - *Messages.* `IsContext(ctx, algorithm, all)` says what a context is after
    `all` was fed: as many blocks processed as fit, the rest in the buffer, the
    total its length. `UpdateIs`: an update with anything makes it the context of
    all that and more, whatever the cut. `FinishIs`: the padding and the length
    complete the standard's last block, also when they need one of their own, and
    the output is the standard's. `HmacStartsIs` and `HmacFinishIs` say the same
    of an HMAC with a key of any length.

**`WireFormatsProofs`.** `StreamIntact`, `ClientUnderstood`, `NearerBrighter`,
`Base64Inverse`, `PixelsArrive`, `DigestStandard` and `HandshakeRight`, for any
frame, any data, any requests, any number of messages. `FormatsInv` has a part
for each of the five modules at work, and no step leaves its part:
  - `StreamInv`: while every write was complete (`whole`) the client has read a
    prefix of what was sent (`InOrder`), and the bytes it has yet to read are
    exactly the frames of the texts it has yet to hear, one each
    (`Boundaries`). Without it nothing is known of where the next frame starts,
    which is all that `StreamIntact` depends on;
  - `ClientUnderstood` is inductive by itself, for a frame that came whole and
    fits, in a buffer of any size: nothing behind it in the `Memory` is looked at
    (`WholeFrameHeard`), the length read is the one written as long as its bytes
    are below 128 (`LengthUnderstood`), and the mask undoes itself byte by byte
    (exclusive or, by the tables of `Bits`);
  - `ImagesInv`: the frame does not change between the getters, and the answer is
    what the getter called makes of it. `PixelsArrive` then follows from index
    arithmetic and `ComesBack`, and `NearerBrighter` from the histogram being a
    count of points at least as near, scaled;
  - `BuffersInv`: the text is the encoding of the data, broken at most once, and
    the last call kept its promise;
  - `HashInv`: the context is that of all that was fed, behind a block of the key
    if there is one;
  - `ShakeInv`: the buffer begins with the request that is to be answered
    (`Holds`). `HandshakeRight` follows in three steps. `LinesOffsets` says where
    each field's line lies in the text, and `CStringHeaded` that the first NUL is
    behind all of them, whatever an earlier request has left. `StartInHeader`
    finds the starts of the lines between the first and the body exactly where
    fields start, so that `getValue` is what was asked (`ValueIs`), and the eight
    bytes of `body_` are the body (`BodyIs`), as long as nothing behind it breaks
    into lines: a field that was sent is safe from that, one that was not may be
    found in what an older request left, and the property says so. A draft-76
    client gets an answer of draft 76 whatever its body is (`Draft76Answer`), the
    right one when the body is unbroken. The answers
    (`Ver10Right`, `Draft76Right`) then rest on the theorems about digests and on
    the room that 28 characters and a NUL need.

Two formulas turned out to be false for larger instances than TLC has, and were
restated. `NearerBrighter` said "strictly brighter": with more than 256 points
two depths may share one of the 256 shades. It now says "no darker", and
"strictly brighter" when enough points lie between the two. `PixelsArrive`
failed for frames of one or two pixels, for which the buffer of `getRgbData`,
twice the bytes, is smaller than their Base64; the code has 640 by 480, and
`FormatsAssumption` now asks for more than two.

Some definitions were written for the prover. `Bits` has exclusive or and the
rest as sums over bits, since tlapm accepts no recursion; `Digests` has its
rounds as a recursive function (`Steps`) instead of a fold; and `Base64` picks
the characters that are kept with a comprehension and `FlattenSeq`, where
`SelectSeq` would have been shorter but cannot be expanded. `Handshake` finds
lines and colons by their places for the same reason.

Only model-checked:
  - liveness (`RequestAnswered`, `UnrelatedAnswered`, `UpdateReturns`,
    `PoseFollowed`, `BroadcastReturns`, `AskedIsListed`), for which the prover has
    no fairness rules;
  - `ReadBack` and `TreeKept`: values are trees, and the operators on them
    RECURSIVE.

## 6. Not modelled

- JPEG (`cv::imencode`), the floating-point arithmetic of `calcPose()` and of the
  projection, sizes of frames.
- JsonCpp's comments in values, iterators, comparisons and conversions
  (`asInt()`, ...), which the server does not call, and its internal map, which
  is not compiled in. Of `PolarSSL` the self tests.
- In `Header`: the method and the uri, which no decision depends on, and a first
  line without spaces, whose `tmp[1]` does not exist.
- A request that `read_some` gets in parts: it is a bad one in `WebSocketServer`.
- The pixels behind a frame's metadata. `GetMetaData` keeps a pointer to OpenNI's
  buffer, which the next `WaitAndUpdateAll()` may overwrite while a getter copies
  it under the cache's mutex. When OpenNI does that is not in this repository; a
  frame in `HttpServer` is the one that `update()` described last.
- An index outside of the depth map and a depth equal to `GetDeviceMaxDepth()`:
  what is read or counted there is no pixel and no bar of the histogram.
- Construction, the command line, the configuration: they run before the threads.
- `broadcastData`, `CreateDataFrame` and `closeConnection`, which nothing calls,
  and `PoseDetector`.
- Memory that is never freed, and connections that are never removed: the
  vector only grows in the model as it does in the code.

## 7. Plan

Done, in this order, the most important behaviour first: the cache whose errors
stop the server (`DetectedUsers`) and its proofs, its sibling
(`CalibratedUsers`), the process around them (`HttpServer`), the WebSocket
server with its abstract specification, the trackers (`PoseTracking`,
`CalibrationStore`) with their proofs, the reports (`EventReports`), the bytes
(`WireFormats` and `ServerBytes` with their parts), the proofs of
`EventReports`, `CalibratedUsers`, `HttpServer` and `WebSocketServer`, and those
of Base64, the frames, the images, the digests and the handshakes.

Left: what the answers promise inside the composed server
(`SkeletonSnapshot` and the like with `HttpServer`'s own requests), which the
caches' own theorems cover one cache at a time.
