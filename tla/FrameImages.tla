---------------------------- MODULE FrameImages ----------------------------
(***************************************************************************)
(* DepthMap, DepthImage, RgbImage and PointCloud: what their getters make  *)
(* of a frame's pixels.  The mutexes, the frame each class holds and the   *)
(* threads are HttpServer's; here one frame is asked for in some way.      *)
(***************************************************************************)
EXTENDS Integers, Sequences, FiniteSets

CONSTANTS
  Encode(_, _), Decode(_, _),   \* those of Base64
  Wid, Hei,           \* wid, hei of all four classes
  CloudWid, CloudHei, \* 640 and 480 in depth2point
  Depths,             \* values of a depth pixel
  Bytes,              \* values of a colour
  MaxDepth            \* GetDeviceMaxDepth()

VARIABLES
  depthMD,    \* the depth of each pixel, row by row from 0
  rgb24,      \* RGB24Data(): three bytes of each pixel
  answer      \* of the last getter

vars == <<depthMD, rgb24, answer>>

Pixels == 0 .. (Wid * Hei) - 1

\* operator() of the maps, external: its caller checks x and y.
Depth(x, y) == depthMD[(y * Wid) + x]

\* DepthMap::getDepth; the pixel of coordinates from outside is another one,
\* or none of the map's.
GetDepth(x, y) ==
  LET index == (y * Wid) + x
  IN  /\ \E value \in IF index \in Pixels THEN {depthMD[index]} ELSE {0, 7} :
           answer' = [of |-> "getDepth", x |-> x, y |-> y,
                      value |-> IF value = 0 THEN 1000 ELSE value]
      /\ UNCHANGED <<depthMD, rgb24>>

\* A slip: column after column.
DepthBytesByColumn ==
  [n \in 1 .. 2 * Wid * Hei |->
     LET depth == Depth(((n - 1) \div 2) \div Hei, ((n - 1) \div 2) % Hei)
     IN  IF n % 2 = 1 THEN depth % 256 ELSE 0]

\* src of getDepthImageData: an unsigned char keeps nothing of the high byte,
\* which is not shifted down.
DepthBytes ==
  [n \in 1 .. 2 * Wid * Hei |->
     LET depth == Depth(((n - 1) \div 2) % Wid, ((n - 1) \div 2) \div Wid)
     IN  IF n % 2 = 1 THEN depth % 256 ELSE (depth - (depth % 256)) % 256]

\* base64_encode into a buffer of twice the bytes, read up to its length.
Characters(src) ==
  LET result == Encode(src, 2 * Len(src))
  IN  SubSeq(result.written, 1, result.dlen)

GetDepthImageData ==
  /\ answer' = [of |-> "getDepthImageData", pixels |-> Characters(DepthBytes)]
  /\ UNCHANGED <<depthMD, rgb24>>

\* cvCvtColor(img, img, CV_BGR2RGB): the first and third of three change
\* places.
BGR2RGB(bytes) ==
  [n \in DOMAIN bytes |-> CASE n % 3 = 1 -> bytes[n + 2]
                            [] n % 3 = 2 -> bytes[n]
                            [] OTHER -> bytes[n - 2]]

GetRgbData ==
  /\ answer' = [of |-> "getRgbData", pixels |-> Characters(BGR2RGB(rgb24))]
  /\ UNCHANGED <<depthMD, rgb24>>

\* getRgbBinary; getJpegImage gives the same bytes to imencode.
GetRgbBinary ==
  /\ answer' = [of |-> "getRgbBinary", pixels |-> BGR2RGB(rgb24)]
  /\ UNCHANGED <<depthMD, rgb24>>

\* A slip: the pixels without depth are among the points.
DepthHistgramAll ==
  LET points == Wid * Hei
      upto(d) == Cardinality({n \in Pixels : depthMD[n] \in 1 .. d})
  IN  [d \in 0 .. MaxDepth - 1 |->
         IF d = 0 THEN 0 ELSE (256 * (points - upto(d))) \div points]

\* getDepthHistgram: the brightness of each depth, from how many of the pixels
\* that have one are not farther.  Its floats round, these quotients do not.
DepthHistgram ==
  LET points == Cardinality({n \in Pixels : depthMD[n] # 0})
      upto(d) == Cardinality({n \in Pixels : depthMD[n] \in 1 .. d})
  IN  [d \in 0 .. MaxDepth - 1 |->
         IF d = 0 \/ points = 0 THEN 0
         ELSE (256 * (points - upto(d))) \div points]

\* getDepthImage up to imencode: blue and green are the brightness.
GetDepthImage ==
  /\ LET hist == DepthHistgram
     IN  answer' = [of |-> "getDepthImage",
                    pixels |-> [n \in Pixels |->
                                  <<hist[depthMD[n]], hist[depthMD[n]], 0>>]]
  /\ UNCHANGED <<depthMD, rgb24>>

\* depth2point, in units of the depth's millimetre and of the focal length.
Depth2Point ==
  [n \in 0 .. (CloudWid * CloudHei) - 1 |->
     LET u == n % CloudWid
         v == n \div CloudWid
     IN  [X |-> depthMD[n] * (u - (CloudWid \div 2)),
          Y |-> depthMD[n] * (v - (CloudHei \div 2)), Z |-> depthMD[n]]]

GetPointCloud ==
  /\ LET buffer == Depth2Point
     IN  answer' = [of |-> "getPointCloud",
                    points |-> [n \in Pixels |-> buffer[n]]]
  /\ UNCHANGED <<depthMD, rgb24>>

Init ==
  /\ depthMD \in [Pixels -> Depths]
  /\ \E first, others \in Bytes :
       rgb24 = [n \in 1 .. 3 * Wid * Hei |->
                  IF n % 3 = 1 THEN first ELSE (others + n) % 256]
  /\ answer = [of |-> "none"]

\* One getter is called: it leaves the frame alone, another would answer as if
\* it were the first.
Next ==
  /\ answer.of = "none"
  /\ \/ \E x \in 0 .. Wid, y \in 0 .. Hei : GetDepth(x, y)
     \/ GetDepthImageData \/ GetRgbData \/ GetRgbBinary
     \/ GetDepthImage \/ GetPointCloud

Spec == Init /\ [][Next]_vars

-----------------------------------------------------------------------------

\* The pixels of an answer as the client takes them out of its Base64.
Arrived ==
  IF answer.of = "getRgbBinary" THEN answer.pixels
  ELSE Decode(answer.pixels, Len(answer.pixels)).written

\* The getters of DepthMap, DepthImage, RgbImage and PointCloud: every pixel
\* reaches the client, at its place, through index arithmetic, Base64 and back:
\* the low byte of its depth (all of it below 256), its colours with red and
\* blue exchanged, its point on the ray through it, and with coordinates inside
\* of the map its depth, 1000 for none.
PixelsArrive ==
  CASE answer.of = "getDepth" /\ answer.x < Wid /\ answer.y < Hei ->
         LET depth == Depth(answer.x, answer.y)
         IN  answer.value = IF depth = 0 THEN 1000 ELSE depth
    [] answer.of = "getDepthImageData" ->
         /\ Len(Arrived) = 2 * Cardinality(Pixels)
         /\ \A x \in 0 .. Wid - 1, y \in 0 .. Hei - 1 :
              SubSeq(Arrived, (2 * ((y * Wid) + x)) + 1,
                              (2 * ((y * Wid) + x)) + 2)
                = <<Depth(x, y) % 256, 0>>
    [] answer.of \in {"getRgbData", "getRgbBinary"} ->
         /\ Len(Arrived) = Len(rgb24)
         /\ \A n \in Pixels :
              SubSeq(Arrived, (3 * n) + 1, (3 * n) + 3)
                = <<rgb24[(3 * n) + 3], rgb24[(3 * n) + 2],
                    rgb24[(3 * n) + 1]>>
    [] answer.of = "getPointCloud" ->
         \A x \in 0 .. Wid - 1, y \in 0 .. Hei - 1 :
           LET point == answer.points[(y * Wid) + x]
           IN  /\ point.Z = Depth(x, y)
               /\ point.X = point.Z * (x - (Wid \div 2))
               /\ point.Y = point.Z * (y - (Hei \div 2))
    [] OTHER -> TRUE

\* getDepthImage: of two points with a depth the nearer one is never darker,
\* and it is brighter when the depths from its own up to the other's have at
\* least a 256th of the points; every brightness fits its byte, the farthest is
\* black and so is what has no depth.
NearerBrighter ==
  answer.of = "getDepthImage" =>
    LET points == Cardinality({k \in Pixels : depthMD[k] # 0})
        behind(m, n) ==
          Cardinality({k \in Pixels : depthMD[k] > depthMD[m]
                                      /\ depthMD[k] <= depthMD[n]})
    IN  \A m, n \in Pixels :
          /\ answer.pixels[m][1] \in 0 .. 255
          /\ depthMD[m] = 0 => answer.pixels[m][1] = 0
          /\ 0 < depthMD[m] /\ depthMD[m] < depthMD[n] =>
               /\ answer.pixels[m][1] >= answer.pixels[n][1]
               /\ 256 * behind(m, n) >= points
                    => answer.pixels[m][1] > answer.pixels[n][1]
          /\ (\A k \in Pixels : depthMD[k] <= depthMD[m])
               => answer.pixels[m][1] = 0
=============================================================================
