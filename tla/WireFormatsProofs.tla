-------------------------- MODULE WireFormatsProofs --------------------------
(***************************************************************************)
(* What WireFormats promises of the frames of a WebSocket, of the          *)
(* handshakes, of the digests, of Base64 and of the images, for any frame, *)
(* any data, any requests, any texts of two-byte length and any number of  *)
(* messages: a client reads what was sent in the order it was sent, a      *)
(* client's text is read as it was written unless its length comes out     *)
(* negative, a handshake is answered as its protocol says whatever an      *)
(* earlier one left in the buffer, a digest is the standard's in whatever  *)
(* parts its message came, what was encoded comes back, every pixel        *)
(* reaches the client, and what is nearer is brighter.                     *)
(***************************************************************************)
EXTENDS WireFormats, PolarSSLProofs

-----------------------------------------------------------------------------
(* Arithmetic.                                                             *)

\* What \div gives: the largest number of times that fit.
LEMMA Quotient ==
  ASSUME NEW a \in Int, NEW p \in Nat \ {0}
  PROVE  /\ a \div p \in Int
         /\ p * (a \div p) <= a
         /\ a < p * (a \div p) + p
  OBVIOUS

\* A larger factor makes the product larger by at least one p.
LEMMA ProductGrows ==
  ASSUME NEW p \in Nat \ {0}, NEW x \in Int, NEW y \in Int, x + 1 <= y
  PROVE  p * x + p <= p * y
  OBVIOUS

\* Nothing else fits as \div does.
LEMMA QuotientUnique ==
  ASSUME NEW a \in Int, NEW p \in Nat \ {0}, NEW q \in Int,
         p * q <= a, a < p * q + p
  PROVE  a \div p = q
  <1>1. a \div p < q + 1
    BY Quotient, ProductGrows
  <1>2. q < a \div p + 1
    BY Quotient, ProductGrows
  <1> QED
    BY <1>1, <1>2, Quotient

\* A larger number has no smaller quotient, and a strictly larger one when
\* it is larger by the divisor.
LEMMA QuotientGrows ==
  ASSUME NEW a \in Int, NEW b \in Int, NEW p \in Nat \ {0}
  PROVE  /\ a <= b => a \div p <= b \div p
         /\ a + p <= b => a \div p < b \div p
  <1> DEFINE x == a \div p  y == b \div p
  <1>1. /\ x \in Int /\ p * x <= a /\ a < p * x + p
        /\ y \in Int /\ p * y <= b /\ b < p * y + p
    BY Quotient
  <1> HIDE DEF x, y
  <1>2. ASSUME a <= b PROVE x <= y
    <2>1. CASE y + 1 <= x
      BY <1>1, <1>2, <2>1, ProductGrows
    <2> QED
      BY <1>1, <2>1
  <1>3. ASSUME a + p <= b PROVE x < y
    <2>1. CASE y = x
      BY <1>1, <1>3, <2>1
    <2> QED
      BY <1>1, <1>2, <1>3, <2>1
  <1> QED
    BY <1>2, <1>3 DEF x, y

-----------------------------------------------------------------------------
(* The getters of the images.                                              *)

\* What each getter has answered, in terms of the frame.
DepthAnswer ==
  answer.of = "getDepth" =>
    /\ answer.x \in 0 .. Wid /\ answer.y \in 0 .. Hei
    /\ answer.x < Wid /\ answer.y < Hei =>
         answer.value = IF depthMD[(answer.y * Wid) + answer.x] = 0 THEN 1000
                        ELSE depthMD[(answer.y * Wid) + answer.x]
DepthDataAnswer ==
  answer.of = "getDepthImageData" =>
    answer.pixels = Images!Characters(Images!DepthBytes)
RgbDataAnswer ==
  answer.of = "getRgbData" =>
    answer.pixels = Images!Characters(Images!BGR2RGB(rgb24))
RgbBinaryAnswer ==
  answer.of = "getRgbBinary" => answer.pixels = Images!BGR2RGB(rgb24)
DepthImageAnswer ==
  answer.of = "getDepthImage" =>
    answer.pixels = [n \in Images!Pixels |->
                       <<Images!DepthHistgram[depthMD[n]],
                         Images!DepthHistgram[depthMD[n]], 0>>]
PointCloudAnswer ==
  answer.of = "getPointCloud" =>
    answer.points = [n \in Images!Pixels |-> Images!Depth2Point[n]]

Answers ==
  /\ DepthAnswer /\ DepthDataAnswer /\ RgbDataAnswer /\ RgbBinaryAnswer
  /\ DepthImageAnswer /\ PointCloudAnswer

\* The frame the getters read is a frame.
FrameOK ==
  /\ depthMD \in [Images!Pixels -> Depths]
  /\ rgb24 \in [1 .. 3 * Wid * Hei -> Stream!Byte]

\* What no getter changes, and what each answers.
ImagesInv == FrameOK /\ Answers

\* The frame has pixels and the point cloud has its size.
LEMMA FormatFacts ==
  /\ Wid \in Nat \ {0} /\ Hei \in Nat \ {0}
  /\ CloudWid = Wid /\ CloudHei = Hei
  BY FormatsAssumption DEF FormatsAssumption

\* A byte, without the set of all of them, which the provers would write out.
LEMMA ByteRange == \A b : b \in Stream!Byte <=> b \in Nat /\ b < 256
  BY DEF Stream!Byte

\* The bytes of the constants are bytes.
LEMMA BytesAreBytes == Bytes \subseteq Nat /\ \A b \in Bytes : b < 256
  BY FormatsAssumption DEF FormatsAssumption

\* A pixel's place in the frame tells its row and its column.
LEMMA PixelPlace ==
  ASSUME NEW x \in 0 .. Wid - 1, NEW y \in 0 .. Hei - 1
  PROVE  /\ (y * Wid) + x \in Images!Pixels
         /\ ((y * Wid) + x) % Wid = x
         /\ ((y * Wid) + x) \div Wid = y
  <1>1. Wid \in Nat \ {0} /\ Hei \in Nat \ {0}
    BY FormatFacts
  <1>2. Wid * (y + 1) <= Wid * Hei
    BY <1>1
  <1>3. (y * Wid) + x \in Int /\ (y * Wid) + x = Wid * y + x
        /\ Wid * y >= 0
    BY <1>1
  <1>4. (y * Wid) + x \in Images!Pixels
    BY <1>1, <1>2, <1>3 DEF Images!Pixels
  <1>5. ((y * Wid) + x) \div Wid = y
    BY <1>1, <1>3, QuotientUnique
  <1>6. ((y * Wid) + x) % Wid = x
    BY <1>1, <1>3, <1>5
  <1> QED
    BY <1>4, <1>5, <1>6

\* Nothing is answered before the first getter is called.
LEMMA FrameStart == Images!Init => ImagesInv
  <1> SUFFICES ASSUME Images!Init PROVE ImagesInv
    OBVIOUS
  <1>1. rgb24 \in [1 .. 3 * Wid * Hei -> Stream!Byte]
    <2>1. PICK first \in Bytes, others \in Bytes :
            rgb24 = [n \in 1 .. 3 * Wid * Hei |->
                       IF n % 3 = 1 THEN first ELSE (others + n) % 256]
      BY DEF Images!Init
    <2>2. Wid \in Nat /\ Hei \in Nat
      BY FormatFacts
    <2>3. first \in Stream!Byte /\ others \in Nat
      BY <2>1, BytesAreBytes, ByteRange
    <2>4. \A n \in Int : n % 256 \in Nat /\ n % 256 < 256
      OBVIOUS
    <2>5. \A n \in 1 .. 3 * Wid * Hei : others + n \in Int
      BY <2>2, <2>3
    <2>6. \A n \in 1 .. 3 * Wid * Hei : (others + n) % 256 \in Stream!Byte
      BY <2>4, <2>5, ByteRange
    <2> QED
      BY <2>1, <2>3, <2>6
  <1>2. FrameOK
    BY <1>1 DEF Images!Init, FrameOK
  <1>3. Answers
    BY DEF Images!Init, Answers, DepthAnswer, DepthDataAnswer, RgbDataAnswer,
       RgbBinaryAnswer, DepthImageAnswer, PointCloudAnswer
  <1> QED
    BY <1>2, <1>3 DEF ImagesInv

\* Each getter answers what ImagesInv says and leaves the frame alone.
LEMMA FramePreserved ==
  ImagesInv /\ [Images!Next]_imageVars => ImagesInv'
  <1> SUFFICES ASSUME ImagesInv, [Images!Next]_imageVars PROVE ImagesInv'
    OBVIOUS
  <1>1. CASE UNCHANGED imageVars
    <2>1. depthMD' = depthMD /\ rgb24' = rgb24 /\ answer' = answer
      BY <1>1 DEF imageVars
    <2>2. FrameOK'
      BY <2>1 DEF ImagesInv, FrameOK
    <2>3. DepthAnswer' /\ RgbBinaryAnswer'
      BY <2>1 DEF ImagesInv, Answers, DepthAnswer, RgbBinaryAnswer,
         Images!BGR2RGB
    <2>4. DepthDataAnswer'
      BY <2>1 DEF ImagesInv, Answers, DepthDataAnswer, Images!Characters,
         Images!DepthBytes, Images!Depth
    <2>5. RgbDataAnswer'
      BY <2>1 DEF ImagesInv, Answers, RgbDataAnswer, Images!Characters,
         Images!BGR2RGB
    <2>6. DepthImageAnswer'
      BY <2>1 DEF ImagesInv, Answers, DepthImageAnswer, Images!DepthHistgram
    <2>7. PointCloudAnswer'
      BY <2>1 DEF ImagesInv, Answers, PointCloudAnswer, Images!Depth2Point
    <2> QED
      BY <2>2, <2>3, <2>4, <2>5, <2>6, <2>7 DEF ImagesInv, Answers
  <1>2. CASE Images!Next
    <2>1. depthMD' = depthMD /\ rgb24' = rgb24
      BY <1>2 DEF Images!Next, Images!GetDepth, Images!GetDepthImageData,
         Images!GetRgbData, Images!GetRgbBinary, Images!GetDepthImage,
         Images!GetPointCloud
    <2>2. FrameOK'
      BY <2>1 DEF ImagesInv, FrameOK
    <2>3. ASSUME NEW x \in 0 .. Wid, NEW y \in 0 .. Hei,
                 Images!GetDepth(x, y)
          PROVE  Answers'
      <3>1. /\ answer'.of = "getDepth" /\ answer'.x = x /\ answer'.y = y
            /\ (y * Wid) + x \in Images!Pixels =>
                 answer'.value = IF depthMD[(y * Wid) + x] = 0 THEN 1000
                                 ELSE depthMD[(y * Wid) + x]
        BY <2>3 DEF Images!GetDepth
      <3>2. ASSUME x < Wid, y < Hei PROVE (y * Wid) + x \in Images!Pixels
        <4>1. x \in 0 .. Wid - 1 /\ y \in 0 .. Hei - 1
          BY <3>2, FormatFacts
        <4> QED
          BY <4>1, PixelPlace
      <3>3. DepthAnswer'
        BY <2>1, <3>1, <3>2 DEF DepthAnswer
      <3>4. /\ answer'.of # "getDepthImageData"
            /\ answer'.of # "getRgbData"
            /\ answer'.of # "getRgbBinary"
            /\ answer'.of # "getDepthImage"
            /\ answer'.of # "getPointCloud"
        BY <3>1
      <3> QED
        BY <3>3, <3>4, Zenon
           DEF Answers, DepthDataAnswer, RgbDataAnswer, RgbBinaryAnswer,
           DepthImageAnswer, PointCloudAnswer
    <2>4. ASSUME Images!GetDepthImageData PROVE Answers'
      <3>1. answer' = [of |-> "getDepthImageData",
                       pixels |-> Images!Characters(Images!DepthBytes)]
        BY <2>4 DEF Images!GetDepthImageData
      <3>2. DepthDataAnswer'
        <4>1. Images!Characters(Images!DepthBytes)'
                = Images!Characters(Images!DepthBytes)
          BY <2>1 DEF Images!Characters, Images!DepthBytes, Images!Depth
        <4>2. answer'.pixels = Images!Characters(Images!DepthBytes)'
          BY <3>1, <4>1
        <4> QED
          BY <4>2, Zenon DEF DepthDataAnswer
      <3>3. /\ answer'.of # "getDepth"
            /\ answer'.of # "getRgbData"
            /\ answer'.of # "getRgbBinary"
            /\ answer'.of # "getDepthImage"
            /\ answer'.of # "getPointCloud"
        BY <3>1
      <3> QED
        BY <3>2, <3>3, Zenon
           DEF Answers, DepthAnswer, RgbDataAnswer, RgbBinaryAnswer,
           DepthImageAnswer, PointCloudAnswer
    <2>5. ASSUME Images!GetRgbData PROVE Answers'
      <3>1. answer' = [of |-> "getRgbData",
                       pixels |-> Images!Characters(Images!BGR2RGB(rgb24))]
        BY <2>5 DEF Images!GetRgbData
      <3>2. RgbDataAnswer'
        <4>1. Images!BGR2RGB(rgb24)' = Images!BGR2RGB(rgb24)
          BY <2>1 DEF Images!BGR2RGB
        <4>2. answer'.pixels = Images!Characters(Images!BGR2RGB(rgb24))
          BY <3>1
        <4> QED
          BY <2>1, <4>2, Zenon DEF RgbDataAnswer
      <3>3. /\ answer'.of # "getDepth"
            /\ answer'.of # "getDepthImageData"
            /\ answer'.of # "getRgbBinary"
            /\ answer'.of # "getDepthImage"
            /\ answer'.of # "getPointCloud"
        BY <3>1
      <3> QED
        BY <3>2, <3>3, Zenon
           DEF Answers, DepthAnswer, DepthDataAnswer, RgbBinaryAnswer,
           DepthImageAnswer, PointCloudAnswer
    <2>6. ASSUME Images!GetRgbBinary PROVE Answers'
      <3>1. answer' = [of |-> "getRgbBinary",
                       pixels |-> Images!BGR2RGB(rgb24)]
        BY <2>6 DEF Images!GetRgbBinary
      <3>2. RgbBinaryAnswer'
        BY <2>1, <3>1 DEF RgbBinaryAnswer, Images!BGR2RGB
      <3>3. /\ answer'.of # "getDepth"
            /\ answer'.of # "getDepthImageData"
            /\ answer'.of # "getRgbData"
            /\ answer'.of # "getDepthImage"
            /\ answer'.of # "getPointCloud"
        BY <3>1
      <3> QED
        BY <3>2, <3>3, Zenon
           DEF Answers, DepthAnswer, DepthDataAnswer, RgbDataAnswer,
           DepthImageAnswer, PointCloudAnswer
    <2>7. ASSUME Images!GetDepthImage PROVE Answers'
      <3>1. answer' = [of |-> "getDepthImage",
                       pixels |-> [n \in Images!Pixels |->
                                     <<Images!DepthHistgram[depthMD[n]],
                                       Images!DepthHistgram[depthMD[n]], 0>>]]
        BY <2>7 DEF Images!GetDepthImage
      <3>2. Images!DepthHistgram' = Images!DepthHistgram
        BY <2>1 DEF Images!DepthHistgram
      <3>3. DepthImageAnswer'
        BY <2>1, <3>1, <3>2 DEF DepthImageAnswer
      <3>4. /\ answer'.of # "getDepth"
            /\ answer'.of # "getDepthImageData"
            /\ answer'.of # "getRgbData"
            /\ answer'.of # "getRgbBinary"
            /\ answer'.of # "getPointCloud"
        BY <3>1
      <3> QED
        BY <3>3, <3>4, Zenon
           DEF Answers, DepthAnswer, DepthDataAnswer, RgbDataAnswer,
           RgbBinaryAnswer, PointCloudAnswer
    <2>8. ASSUME Images!GetPointCloud PROVE Answers'
      <3>1. answer' = [of |-> "getPointCloud",
                       points |-> [n \in Images!Pixels |->
                                     Images!Depth2Point[n]]]
        BY <2>8 DEF Images!GetPointCloud
      <3>2. Images!Depth2Point' = Images!Depth2Point
        BY <2>1 DEF Images!Depth2Point
      <3>3. PointCloudAnswer'
        BY <2>1, <3>1, <3>2 DEF PointCloudAnswer
      <3>4. /\ answer'.of # "getDepth"
            /\ answer'.of # "getDepthImageData"
            /\ answer'.of # "getRgbData"
            /\ answer'.of # "getRgbBinary"
            /\ answer'.of # "getDepthImage"
        BY <3>1
      <3> QED
        BY <3>3, <3>4, Zenon
           DEF Answers, DepthAnswer, DepthDataAnswer, RgbDataAnswer,
           RgbBinaryAnswer, DepthImageAnswer
    <2> QED
      BY <1>2, <2>2, <2>3, <2>4, <2>5, <2>6, <2>7, <2>8
         DEF Images!Next, ImagesInv
  <1> QED
    BY <1>1, <1>2

-----------------------------------------------------------------------------
(* The depth image.                                                        *)

\* The pixels that point somewhere: up to depth d, anywhere, and behind m but
\* not behind n.
Reached(d) == {n \in Images!Pixels : depthMD[n] \in 1 .. d}
Pointed == {n \in Images!Pixels : depthMD[n] # 0}
Behind(m, n) == {k \in Images!Pixels : depthMD[k] > depthMD[m]
                                       /\ depthMD[k] <= depthMD[n]}

\* The instance's Cardinality is the library's.
LEMMA ImagesCardinality ==
  \A Elem : Images!Cardinality(Elem) = Cardinality(Elem)
  BY Zenon DEF Images!Cardinality, Cardinality

\* There are finitely many pixels.
LEMMA PixelsFinite ==
  IsFiniteSet(Images!Pixels)
  /\ \A Elem \in SUBSET Images!Pixels : IsFiniteSet(Elem)
  <1>1. Wid * Hei \in Int
    BY FormatFacts
  <1>2. IsFiniteSet(Images!Pixels)
    BY <1>1, FS_Interval DEF Images!Pixels
  <1> QED
    BY <1>2, FS_Subset

\* No depth is outside the histogram.
LEMMA DepthsAreDepths ==
  FrameOK => \A n \in Images!Pixels : depthMD[n] \in 0 .. MaxDepth - 1
  <1>1. MaxDepth \in Nat /\ Depths \subseteq 0 .. MaxDepth - 1
    BY FormatsAssumption DEF FormatsAssumption
  <1> QED
    BY <1>1 DEF FrameOK

\* The histogram's sum up to a depth is at most its sum over all of them.
LEMMA ReachedCounted ==
  ASSUME FrameOK, NEW d \in Nat
  PROVE  /\ Cardinality(Reached(d)) \in Nat
         /\ Cardinality(Pointed) \in Nat
         /\ Cardinality(Reached(d)) <= Cardinality(Pointed)
  <1>1. Reached(d) \subseteq Pointed
    BY DEF Reached, Pointed
  <1>2. IsFiniteSet(Pointed)
    BY PixelsFinite DEF Pointed
  <1> QED
    BY <1>1, <1>2, FS_Subset, FS_CardinalityType

\* Two sums of the histogram differ by the pixels that lie between them.
LEMMA BehindCounted ==
  ASSUME FrameOK, NEW m \in Images!Pixels, NEW n \in Images!Pixels,
         0 < depthMD[m], depthMD[m] <= depthMD[n]
  PROVE  /\ Cardinality(Behind(m, n)) \in Nat
         /\ Cardinality(Reached(depthMD[n]))
              = Cardinality(Reached(depthMD[m])) + Cardinality(Behind(m, n))
  <1> DEFINE Elem == Reached(depthMD[m])
             T == Behind(m, n)
  <1>1. \A k \in Images!Pixels : depthMD[k] \in Int
    BY DepthsAreDepths
  <1>2. Elem \cup T = Reached(depthMD[n]) /\ Elem \cap T = {}
    BY <1>1 DEF Reached, Behind
  <1>3. IsFiniteSet(Elem) /\ IsFiniteSet(T)
    BY PixelsFinite DEF Reached, Behind
  <1>4. Cardinality(Elem) \in Nat /\ Cardinality(T) \in Nat
    BY <1>3, FS_CardinalityType
  <1>5. Cardinality(Elem \cap T) = 0
    BY <1>2, FS_EmptySet
  <1>6. Cardinality(Elem \cup T) = Cardinality(Elem) + Cardinality(T) - 0
    BY <1>3, <1>5, FS_Union
  <1> QED
    BY <1>2, <1>4, <1>6

\* The brightness getDepthHistgram gives a depth, by the pixels up to it.
LEMMA Brightness ==
  ASSUME FrameOK, NEW n \in Images!Pixels
  PROVE  /\ depthMD[n] = 0 => Images!DepthHistgram[depthMD[n]] = 0
         /\ depthMD[n] # 0 =>
              /\ Cardinality(Pointed) \in Nat \ {0}
              /\ Cardinality(Reached(depthMD[n])) \in Nat \ {0}
              /\ Cardinality(Reached(depthMD[n])) <= Cardinality(Pointed)
              /\ Images!DepthHistgram[depthMD[n]]
                   = (256 * (Cardinality(Pointed)
                             - Cardinality(Reached(depthMD[n]))))
                       \div Cardinality(Pointed)
  <1>1. depthMD[n] \in 0 .. MaxDepth - 1
    BY DepthsAreDepths
  <1>2. ASSUME depthMD[n] # 0
        PROVE  /\ Cardinality(Pointed) \in Nat \ {0}
               /\ Cardinality(Reached(depthMD[n])) \in Nat \ {0}
               /\ Cardinality(Reached(depthMD[n])) <= Cardinality(Pointed)
    <2>1. n \in Reached(depthMD[n]) /\ n \in Pointed
      BY <1>1, <1>2 DEF Reached, Pointed
    <2>2. IsFiniteSet(Reached(depthMD[n])) /\ IsFiniteSet(Pointed)
      BY PixelsFinite DEF Reached, Pointed
    <2>3. Cardinality(Reached(depthMD[n])) # 0 /\ Cardinality(Pointed) # 0
      BY <2>1, <2>2, FS_EmptySet
    <2>4. depthMD[n] \in Nat
      BY <1>1
    <2> QED
      BY <2>3, <2>4, ReachedCounted
  <1>3. Images!DepthHistgram[depthMD[n]]
          = IF depthMD[n] = 0 \/ Cardinality(Pointed) = 0 THEN 0
            ELSE (256 * (Cardinality(Pointed)
                         - Cardinality(Reached(depthMD[n]))))
                   \div Cardinality(Pointed)
    <2>1. Images!Cardinality(Pointed) = Cardinality(Pointed)
      BY ImagesCardinality
    <2>2. Images!Cardinality(Reached(depthMD[n]))
            = Cardinality(Reached(depthMD[n]))
      BY ImagesCardinality
    <2>3. Images!DepthHistgram[depthMD[n]]
            = IF depthMD[n] = 0 \/ Images!Cardinality(Pointed) = 0 THEN 0
              ELSE (256 * (Images!Cardinality(Pointed)
                           - Images!Cardinality(Reached(depthMD[n]))))
                     \div Images!Cardinality(Pointed)
      BY <1>1 DEF Images!DepthHistgram, Pointed, Reached
    <2> QED
      BY <2>1, <2>2, <2>3
  <1> QED
    BY <1>2, <1>3

\* A pixel behind another is no brighter in the depth image, and it is darker
\* when 1/256 of the points lie between the two.
LEMMA NearerIsBrighter == ImagesInv => Images!NearerBrighter
  <1> SUFFICES ASSUME ImagesInv, answer.of = "getDepthImage",
                      NEW m \in Images!Pixels, NEW n \in Images!Pixels
               PROVE
                 /\ answer.pixels[m][1] \in 0 .. 255
                 /\ depthMD[m] = 0 => answer.pixels[m][1] = 0
                 /\ 0 < depthMD[m] /\ depthMD[m] < depthMD[n] =>
                      /\ answer.pixels[m][1] >= answer.pixels[n][1]
                      /\ 256 * Images!Cardinality(Behind(m, n))
                            >= Images!Cardinality(Pointed)
                           => answer.pixels[m][1] > answer.pixels[n][1]
                 /\ (\A k \in Images!Pixels : depthMD[k] <= depthMD[m])
                      => answer.pixels[m][1] = 0
    BY Zenon DEF Images!NearerBrighter, Behind, Pointed
  <1> DEFINE hist == Images!DepthHistgram
             p == Cardinality(Pointed)
             u(k) == Cardinality(Reached(depthMD[k]))
             b == Cardinality(Behind(m, n))
  <1>1. FrameOK
    BY DEF ImagesInv
  <1>2. \A k \in Images!Pixels :
          /\ answer.pixels[k][1] = hist[depthMD[k]]
          /\ depthMD[k] \in Nat
    BY <1>1, DepthsAreDepths DEF ImagesInv, Answers, DepthImageAnswer
  <1>3. \A k \in Images!Pixels :
          /\ depthMD[k] = 0 => hist[depthMD[k]] = 0
          /\ depthMD[k] # 0 =>
               /\ p \in Nat \ {0} /\ u(k) \in Nat \ {0} /\ u(k) <= p
               /\ hist[depthMD[k]] = (256 * (p - u(k))) \div p
    BY <1>1, Brightness
  <1>4. depthMD[m] = 0 => hist[depthMD[m]] = 0
    BY <1>3
  <1>5. ASSUME depthMD[m] # 0
        PROVE  hist[depthMD[m]] \in Nat /\ hist[depthMD[m]] < 256
    <2>1. /\ p \in Nat \ {0} /\ u(m) \in Nat \ {0} /\ u(m) <= p
          /\ hist[depthMD[m]] = (256 * (p - u(m))) \div p
      BY <1>3, <1>5
    <2> DEFINE x == 256 * (p - u(m))
               q == x \div p
    <2> HIDE DEF p, u, hist
    <2>2. x \in Nat /\ x + 256 <= 256 * p
      BY <2>1
    <2> HIDE DEF x
    <2>4. q \in Int /\ p * q <= x /\ x < p * q + p
      BY <2>1, <2>2, Quotient
    <2> HIDE DEF q
    <2>5. 0 <= q
      <3>1. CASE q + 1 <= 0
        <4>1. p * q + p <= p * 0
          BY <2>1, <2>4, <3>1, ProductGrows
        <4> QED
          BY <2>1, <2>2, <2>4, <4>1
      <3> QED
        BY <2>4, <3>1
    <2>6. q < 256
      <3>1. CASE 255 + 1 <= q
        <4>1. p * 255 + p <= p * q
          BY <2>1, <2>4, <3>1, ProductGrows
        <4> QED
          BY <2>1, <2>2, <2>4, <4>1
      <3> QED
        BY <2>4, <3>1
    <2> QED
      BY <2>1, <2>4, <2>5, <2>6 DEF q, x
  <1>6. ASSUME 0 < depthMD[m], depthMD[m] < depthMD[n]
        PROVE  /\ hist[depthMD[m]] >= hist[depthMD[n]]
               /\ 256 * b >= p => hist[depthMD[m]] > hist[depthMD[n]]
    <2>1. /\ p \in Nat \ {0} /\ u(m) \in Nat /\ u(n) \in Nat
          /\ hist[depthMD[m]] = (256 * (p - u(m))) \div p
          /\ hist[depthMD[n]] = (256 * (p - u(n))) \div p
      BY <1>2, <1>3, <1>6
    <2>2. b \in Nat /\ u(n) = u(m) + b
      BY <1>1, <1>2, <1>6, BehindCounted
    <2> DEFINE x == 256 * (p - u(n))
               y == 256 * (p - u(m))
    <2> HIDE DEF p, u, b, hist
    <2>3. x \in Int /\ y \in Int /\ y = x + 256 * b /\ 256 * b \in Nat
      BY <2>1, <2>2
    <2> HIDE DEF x, y
    <2>6. x <= y /\ (256 * b >= p => x + p <= y)
      BY <2>1, <2>3
    <2>4. x \div p <= y \div p /\ (256 * b >= p => x \div p < y \div p)
      <3> DEFINE z == 256 * b
      <3>1. p \in Nat \ {0} /\ (z >= p => x + p <= y)
        BY <2>1, <2>6
      <3> HIDE DEF z
      <3>2. x \div p <= y \div p /\ (z >= p => x \div p < y \div p)
        BY <2>3, <2>6, <3>1, QuotientGrows
      <3> QED
        BY <3>2 DEF z
    <2>5. x \div p \in Int /\ y \div p \in Int
      BY <2>1, <2>3, Quotient
    <2> QED
      BY <2>1, <2>4, <2>5 DEF x, y
  <1>7. ASSUME depthMD[m] # 0,
               \A k \in Images!Pixels : depthMD[k] <= depthMD[m]
        PROVE  hist[depthMD[m]] = 0
    <2>1. Reached(depthMD[m]) = Pointed
      BY <1>2, <1>7 DEF Reached, Pointed
    <2>2. p \in Nat \ {0} /\ hist[depthMD[m]] = (256 * (p - p)) \div p
      BY <1>3, <1>7, <2>1
    <2> QED
      BY <2>2, QuotientUnique
  <1>8. \A v \in Nat : v < 256 => v \in 0 .. 255
    OBVIOUS
  <1>9. answer.pixels[m][1] \in 0 .. 255
    BY <1>2, <1>4, <1>5, <1>8
  <1>10. /\ Images!Cardinality(Behind(m, n)) = b
         /\ Images!Cardinality(Pointed) = p
    BY ImagesCardinality
  <1> QED
    BY <1>2, <1>4, <1>6, <1>7, <1>9, <1>10

-----------------------------------------------------------------------------
(* The frames a client sends and ParseFrame.                               *)

\* Four bits by ^ and back again.
LEMMA XorOfFour ==
  ASSUME NEW a \in 0 .. 15, NEW b \in 0 .. 15
  PROVE  /\ Stream!Xor4[a][b] \in 0 .. 15
         /\ Stream!Xor4[Stream!Xor4[a][b]][b] = a
  <1> DEFINE X(x, y) == (((x % 2) + (y % 2)) % 2)
               + (2 * ((((x \div 2) % 2) + ((y \div 2) % 2)) % 2))
               + (4 * ((((x \div 4) % 2) + ((y \div 4) % 2)) % 2))
               + (8 * (((x \div 8) + (y \div 8)) % 2))
  <1>1. \A x, y \in 0 .. 15 : Stream!Xor4[x][y] = X(x, y)
    BY DEF Stream!Xor4, Stream!BitByBit
  <1> DEFINE one == ((a % 2) + (b % 2)) % 2
             two == (((a \div 2) % 2) + ((b \div 2) % 2)) % 2
             four == (((a \div 4) % 2) + ((b \div 4) % 2)) % 2
             eight == ((a \div 8) + (b \div 8)) % 2
             v == one + 2 * two + 4 * four + 8 * eight
  <1>4. X(a, b) = v
    OBVIOUS
  <1>5. /\ one \in {0, 1} /\ two \in {0, 1} /\ four \in {0, 1}
        /\ eight \in {0, 1}
    OBVIOUS
  <1>6. /\ (one + (b % 2)) % 2 = a % 2
        /\ (two + ((b \div 2) % 2)) % 2 = (a \div 2) % 2
        /\ (four + ((b \div 4) % 2)) % 2 = (a \div 4) % 2
        /\ (eight + (b \div 8)) % 2 = a \div 8
    OBVIOUS
  <1>7. a = (a % 2) + 2 * ((a \div 2) % 2) + 4 * ((a \div 4) % 2)
              + 8 * (a \div 8)
    OBVIOUS
  <1> HIDE DEF one, two, four, eight
  <1>8. /\ v % 2 = one /\ (v \div 2) % 2 = two /\ (v \div 4) % 2 = four
        /\ v \div 8 = eight /\ v \in 0 .. 15
    <2>1. CASE one = 0 /\ two = 0
      BY <1>5, <2>1
    <2>2. CASE one = 0 /\ two = 1
      BY <1>5, <2>2
    <2>3. CASE one = 1 /\ two = 0
      BY <1>5, <2>3
    <2>4. CASE one = 1 /\ two = 1
      BY <1>5, <2>4
    <2> QED
      BY <1>5, <2>1, <2>2, <2>3, <2>4
  <1> HIDE DEF v
  <1>2. X(a, b) \in 0 .. 15
    BY <1>4, <1>8
  <1>3. X(X(a, b), b) = a
    <2>1. X(v, b) = ((one + (b % 2)) % 2)
                    + (2 * ((two + ((b \div 2) % 2)) % 2))
                    + (4 * ((four + ((b \div 4) % 2)) % 2))
                    + (8 * ((eight + (b \div 8)) % 2))
      BY <1>5, <1>8
    <2> QED
      BY <1>4, <1>6, <1>7, <2>1
  <1> QED
    BY <1>1, <1>2, <1>3

\* A byte by ^ and back again: the mask taken off gives the text.
LEMMA XorTwice ==
  ASSUME NEW a \in Stream!Byte, NEW b \in Stream!Byte
  PROVE  /\ Stream!Xor8(a, b) \in Stream!Byte
         /\ Stream!Xor8(Stream!Xor8(a, b), b) = a
  <1> DEFINE high == Stream!Xor4[a \div 16][b \div 16]
             low == Stream!Xor4[a % 16][b % 16]
  <1>1. /\ a \in Nat /\ a < 256 /\ b \in Nat /\ b < 256
    BY ByteRange
  <1>2. ASSUME NEW x \in Nat, x < 256
        PROVE  /\ x \div 16 \in 0 .. 15
               /\ x % 16 \in 0 .. 15
               /\ x = (16 * (x \div 16)) + (x % 16)
    <2>1. /\ x \div 16 \in Int /\ 0 <= x \div 16 /\ x \div 16 <= 15
          /\ x % 16 \in Int /\ 0 <= x % 16 /\ x % 16 <= 15
      BY <1>2
    <2>2. x = (16 * (x \div 16)) + (x % 16)
      BY <1>2, SMTT(20)
    <2> QED
      BY <2>1, <2>2
  <1>3. /\ high \in 0 .. 15 /\ low \in 0 .. 15
        /\ Stream!Xor4[high][b \div 16] = a \div 16
        /\ Stream!Xor4[low][b % 16] = a % 16
    BY <1>1, <1>2, XorOfFour, ZenonT(30)
  <1>4. Stream!Xor8(a, b) = (16 * high) + low
    BY DEF Stream!Xor8, Stream!On8
  <1> HIDE DEF high, low
  <1>5. /\ (16 * high) + low \in Nat /\ (16 * high) + low < 256
        /\ ((16 * high) + low) \div 16 = high
        /\ ((16 * high) + low) % 16 = low
    BY <1>3
  <1>6. \A v : Stream!Xor8(v, b) = (16 * Stream!Xor4[v \div 16][b \div 16])
                                  + Stream!Xor4[v % 16][b % 16]
    BY DEF Stream!Xor8, Stream!On8
  <1>7. Stream!Xor8((16 * high) + low, b)
          = (16 * (a \div 16)) + (a % 16)
    BY <1>3, <1>5, <1>6
  <1> QED
    BY <1>1, <1>2, <1>4, <1>5, <1>7, ByteRange

\* The loop that reads a length, over the two bytes of an extended one.
LEMMA FoldOfTwo ==
  ASSUME NEW a, NEW b
  PROVE  Stream!FoldLeft(Stream!SignedOr, 0, <<a, b>>)
           = Stream!SignedOr(Stream!SignedOr(0, a), b)
  <1> DEFINE seq == <<a, b>>
             step(it) == [s \in SUBSET DOMAIN seq |->
                IF s = {} THEN 0
                ELSE Stream!SignedOr(it[s \ {Stream!Max(s)}],
                                     seq[Stream!Max(s)])]
             one == Stream!SignedOr(0, a)
             two == Stream!SignedOr(one, b)
             all == [s \in SUBSET DOMAIN seq |->
                IF s = {} THEN 0 ELSE IF s = {1} THEN one
                ELSE IF s = {2} THEN Stream!SignedOr(0, b) ELSE two]
             iter == CHOOSE it : it = step(it)
  <1>1. Stream!FoldLeft(Stream!SignedOr, 0, seq) = iter[DOMAIN seq]
    BY Zenon DEF Stream!FoldLeft, Stream!MapThenFoldSet
  <1>2. DOMAIN seq = {1, 2}
    OBVIOUS
  <1>3. SUBSET {1, 2} = {{}, {1}, {2}, {1, 2}}
    OBVIOUS
  <1>4. /\ Stream!Max({1}) = 1 /\ Stream!Max({2}) = 2
        /\ Stream!Max({1, 2}) = 2
    BY DEF Stream!Max
  <1>5. all = step(all)
    <2>1. \A s \in SUBSET {1, 2} : all[s] = step(all)[s]
      <3>1. all[{}] = step(all)[{}]
        BY <1>2
      <3>2. all[{1}] = step(all)[{1}]
        <4>1. {1} \ {1} = {}
          OBVIOUS
        <4> QED
          BY <1>2, <1>3, <1>4, <4>1
      <3>3. all[{2}] = step(all)[{2}]
        <4>1. {2} \ {2} = {} /\ {2} # {1} /\ {2} # {}
          OBVIOUS
        <4> QED
          BY <1>2, <1>3, <1>4, <4>1
      <3>4. all[{1, 2}] = step(all)[{1, 2}]
        <4>1. /\ {1, 2} \ {2} = {1} /\ {1, 2} # {} /\ {1, 2} # {1}
              /\ {1, 2} # {2} /\ {1} # {}
          OBVIOUS
        <4> QED
          BY <1>2, <1>3, <1>4, <4>1
      <3> QED
        BY <1>3, <3>1, <3>2, <3>3, <3>4
    <2> QED
      BY <1>2, <2>1
  <1>6. iter = step(iter)
    BY <1>5
  <1> HIDE DEF iter
  <1>7. \A s \in SUBSET {1, 2} :
          iter[s] = IF s = {} THEN 0
                    ELSE Stream!SignedOr(iter[s \ {Stream!Max(s)}],
                                         seq[Stream!Max(s)])
    BY <1>2, <1>6
  <1>8. iter[{}] = 0
    BY <1>7
  <1>9. iter[{1}] = Stream!SignedOr(0, a)
    <2>1. {1} \ {1} = {} /\ {1} # {} /\ {1} \in SUBSET {1, 2}
      OBVIOUS
    <2> QED
      BY <1>4, <1>7, <1>8, <2>1
  <1>10. iter[{1, 2}] = Stream!SignedOr(iter[{1}], b)
    <2>1. {1, 2} \ {2} = {1} /\ {1, 2} # {} /\ {1, 2} \in SUBSET {1, 2}
      OBVIOUS
    <2> QED
      BY <1>4, <1>7, <2>1
  <1> QED
    BY <1>1, <1>2, <1>9, <1>10

\* Two sequences, one after the other, by their elements.
LEMMA Joined ==
  ASSUME NEW Elem, NEW s \in Seq(Elem), NEW t \in Seq(Elem)
  PROVE  /\ s \o t \in Seq(Elem) /\ Len(s \o t) = Len(s) + Len(t)
         /\ \A i \in 1 .. Len(s) : (s \o t)[i] = s[i]
         /\ \A i \in 1 .. Len(t) : (s \o t)[Len(s) + i] = t[i]
  OBVIOUS

\* What comes before the key in a client's frame.
ClientHead(n) ==
  <<129>> \o (IF n < 126 THEN <<128 + n>>
                         ELSE <<254, n \div 256, n % 256>>)

\* A length of two bytes.  (Named: a prover that counts with successors does
\* not take such a number.)
IsTwoBytes(n) == n < 65536

\* A key's length.  (Named, too: the provers unroll what runs to a number.)
HasFour(seq) == Len(seq) = 4

\* The bytes before the key of a frame with n bytes of text.
HeadBytes(n) == IF n < 126 THEN 2 ELSE 4

\* They are the first two bytes and the two of an extended length.
LEMMA ClientHeadParts ==
  ASSUME NEW n \in Nat, IsTwoBytes(n)
  PROVE  /\ ClientHead(n) \in Seq(Stream!Byte)
         /\ Len(ClientHead(n)) = HeadBytes(n)
         /\ ClientHead(n)[1] = 129
         /\ n < 126 => ClientHead(n)[2] = 128 + n
         /\ n >= 126 => /\ ClientHead(n)[2] = 254
                        /\ ClientHead(n)[3] = n \div 256
                        /\ ClientHead(n)[4] = n % 256
  <1> DEFINE few == <<128 + n>>
             more == <<254, n \div 256, n % 256>>
             rest == IF n < 126 THEN few ELSE more
  <1>1. ClientHead(n) = <<129>> \o rest
    BY Zenon DEF ClientHead
  <1>2. /\ n \div 256 \in Nat /\ n \div 256 < 256
        /\ n % 256 \in Nat /\ n % 256 < 256
    BY DEF IsTwoBytes
  <1>3. /\ <<129>> \in Seq(Stream!Byte) /\ Len(<<129>>) = 1
        /\ <<129>>[1] = 129
    BY ByteRange
  <1>4. /\ n < 126 => /\ rest \in Seq(Stream!Byte) /\ Len(rest) = 1
                      /\ rest[1] = 128 + n
        /\ n >= 126 => /\ rest \in Seq(Stream!Byte) /\ Len(rest) = 3
                       /\ rest[1] = 254 /\ rest[2] = n \div 256
                       /\ rest[3] = n % 256
    <2>1. CASE n < 126
      <3>1. 128 + n \in Stream!Byte
        BY <2>1, ByteRange
      <3> QED
        BY <2>1, <3>1
    <2>2. CASE ~(n < 126)
      <3>1. /\ 254 \in Stream!Byte /\ n \div 256 \in Stream!Byte
            /\ n % 256 \in Stream!Byte
        BY <1>2, ByteRange
      <3> QED
        BY <2>2, <3>1
    <2> QED
      BY <2>1, <2>2
  <1> HIDE DEF rest
  <1> DEFINE m == Len(rest)
             head == ClientHead(n)
  <1>5. m \in Nat /\ rest \in Seq(Stream!Byte)
    BY <1>4
  <1>6. m = IF n < 126 THEN 1 ELSE 3
    BY <1>4
  <1>7. /\ head \in Seq(Stream!Byte) /\ Len(head) = 1 + m
        /\ head[1] = 129
        /\ \A i \in 1 .. m : head[1 + i] = rest[i]
    BY <1>1, <1>3, <1>5, Joined
  <1> HIDE DEF m, head
  <1>8. /\ m >= 1 /\ head[2] = rest[1]
        /\ n >= 126 => head[3] = rest[2] /\ head[4] = rest[3]
    BY <1>5, <1>6, <1>7
  <1> QED
    BY <1>4, <1>6, <1>7, <1>8 DEF head, HeadBytes

\* The masked text.
Masked(said, mask) ==
  [i \in 1 .. Len(said) |->
     Stream!Xor8(said[i], mask[((i - 1) % 4) + 1])]

\* The key's byte for each byte of the text.
LEMMA KeyPlace ==
  ASSUME NEW i \in Nat, i > 0
  PROVE  /\ ((i - 1) % 4) + 1 \in Nat /\ 1 <= ((i - 1) % 4) + 1
         /\ ((i - 1) % 4) + 1 <= 4
  OBVIOUS

\* A masked text has its length and is made of bytes.
LEMMA MaskedParts ==
  ASSUME NEW said \in Seq(Stream!Byte),
         NEW mask \in Seq(Stream!Byte), HasFour(mask)
  PROVE  /\ Masked(said, mask) \in Seq(Stream!Byte)
         /\ Len(Masked(said, mask)) = Len(said)
         /\ \A i \in 1 .. Len(said) :
              Stream!Xor8(Masked(said, mask)[i], mask[((i - 1) % 4) + 1])
                = said[i]
  <1>1. ASSUME NEW i \in 1 .. Len(said)
        PROVE  /\ said[i] \in Stream!Byte
               /\ mask[((i - 1) % 4) + 1] \in Stream!Byte
    <2>1. ((i - 1) % 4) + 1 \in 1 .. Len(mask)
      BY KeyPlace DEF HasFour
    <2>2. said[i] \in Stream!Byte
      OBVIOUS
    <2>3. mask[((i - 1) % 4) + 1] \in Stream!Byte
      <3> DEFINE j == ((i - 1) % 4) + 1
      <3>1. j \in 1 .. Len(mask)
        BY <2>1
      <3> HIDE DEF j
      <3>2. mask[j] \in Stream!Byte
        BY <3>1
      <3> QED
        BY <3>2 DEF j
    <2> QED
      BY <2>2, <2>3
  <1>2. \A i \in 1 .. Len(said) :
          Stream!Xor8(said[i], mask[((i - 1) % 4) + 1]) \in Stream!Byte
    BY <1>1, XorTwice
  <1>3. \A i \in 1 .. Len(said) :
          Stream!Xor8(Stream!Xor8(said[i], mask[((i - 1) % 4) + 1]),
                      mask[((i - 1) % 4) + 1]) = said[i]
    BY <1>1, XorTwice
  <1>4. Masked(said, mask) \in [1 .. Len(said) -> Stream!Byte]
    BY <1>2, Zenon DEF Masked
  <1>5. \A i \in 1 .. Len(said) :
          Masked(said, mask)[i]
            = Stream!Xor8(said[i], mask[((i - 1) % 4) + 1])
    BY Zenon DEF Masked
  <1>6. Len(said) \in Nat
    OBVIOUS
  <1>7. /\ Masked(said, mask) \in Seq(Stream!Byte)
        /\ Len(Masked(said, mask)) = Len(said)
    BY <1>4, <1>6
  <1> QED
    BY <1>3, <1>5, <1>7

\* A client's frame: its head, its key, its masked text.
LEMMA ClientFrameParts ==
  ASSUME NEW said \in Seq(Stream!Byte), IsTwoBytes(Len(said)),
         NEW mask \in Seq(Stream!Byte), HasFour(mask),
         NEW input, input = Stream!ClientFrame(said, mask)
  PROVE  /\ input \in Seq(Stream!Byte)
         /\ Len(input) = HeadBytes(Len(said)) + 4 + Len(said)
         /\ \A i \in 1 .. HeadBytes(Len(said)) :
              input[i] = ClientHead(Len(said))[i]
         /\ \A i \in 1 .. Len(mask) :
              input[HeadBytes(Len(said)) + i] = mask[i]
         /\ \A i \in 1 .. Len(said) :
              input[HeadBytes(Len(said)) + 4 + i] = Masked(said, mask)[i]
  <1>1. input = (ClientHead(Len(said)) \o mask) \o Masked(said, mask)
    BY Zenon DEF Stream!ClientFrame, ClientHead, Masked
  <1>2. Len(said) \in Nat
    OBVIOUS
  <1>3. /\ ClientHead(Len(said)) \in Seq(Stream!Byte)
        /\ Len(ClientHead(Len(said))) = HeadBytes(Len(said))
    BY <1>2, ClientHeadParts
  <1>4. /\ Masked(said, mask) \in Seq(Stream!Byte)
        /\ Len(Masked(said, mask)) = Len(said)
    BY MaskedParts
  <1> DEFINE head == ClientHead(Len(said))
             body == Masked(said, mask)
             h == HeadBytes(Len(said))
             n == Len(said)
  <1> HIDE DEF head, body, h, n
  <1>4a. /\ head \in Seq(Stream!Byte) /\ body \in Seq(Stream!Byte)
         /\ input = (head \o mask) \o body
    BY <1>1, <1>3, <1>4 DEF head, body
  <1>5. /\ h \in Nat /\ n \in Nat
        /\ Len(head) = h /\ Len(body) = n
    BY <1>2, <1>3, <1>4 DEF head, body, h, n, HeadBytes
  <1>6. /\ input \in Seq(Stream!Byte)
        /\ Len(input) = Len(head) + Len(mask) + Len(body)
        /\ \A i \in 1 .. Len(head) : input[i] = head[i]
        /\ \A i \in 1 .. Len(mask) : input[Len(head) + i] = mask[i]
        /\ \A i \in 1 .. Len(body) :
             input[Len(head) + Len(mask) + i] = body[i]
    BY <1>4a
  <1> DEFINE k == Len(mask)
  <1>8. k = 4
    BY DEF HasFour
  <1> HIDE DEF k
  <1>7. /\ input \in Seq(Stream!Byte) /\ Len(input) = h + 4 + n
        /\ \A i \in 1 .. h : input[i] = head[i]
        /\ \A i \in 1 .. Len(mask) : input[h + i] = mask[i]
        /\ \A i \in 1 .. n : input[h + 4 + i] = body[i]
    <2>1. /\ Len(input) = Len(head) + k + Len(body)
          /\ \A i \in 1 .. Len(body) : input[Len(head) + k + i] = body[i]
      BY <1>6 DEF k
    <2>2. /\ Len(input) = h + k + n
          /\ \A i \in 1 .. n : input[h + k + i] = body[i]
      BY <1>5, <2>1
    <2>3. /\ Len(input) = h + 4 + n
          /\ \A i \in 1 .. n : input[h + 4 + i] = body[i]
      BY <1>8, <2>2
    <2>4. /\ \A i \in 1 .. h : input[i] = head[i]
          /\ \A i \in 1 .. Len(mask) : input[h + i] = mask[i]
      BY <1>5, <1>6
    <2> QED
      BY <1>6, <2>3, <2>4
  <1> QED
    BY <1>7 DEF head, body, h, n

\* The loop of ParseFrame over an extended length.
LEMMA LengthUnderstood ==
  ASSUME NEW n \in Nat, IsTwoBytes(n), Stream!SmallBytes(n)
  PROVE  Stream!SignedOr(Stream!SignedOr(0, n \div 256), n % 256) = n
  <1> DEFINE a == n \div 256
             b == n % 256
  <1>1. /\ a \in Nat /\ a < 256 /\ b \in Nat /\ b < 256 /\ n = (a * 256) + b
    BY DEF IsTwoBytes
  <1> HIDE DEF a, b
  <1>2. a < 128 /\ b < 128
    BY <1>1 DEF Stream!SmallBytes, b
  <1>3. Stream!SignedOr(0, a) = a
    BY <1>1, <1>2 DEF Stream!SignedOr
  <1>4. Stream!SignedOr(a, b) = (a * 256) + b
    BY <1>1, <1>2 DEF Stream!SignedOr
  <1> QED
    BY <1>1, <1>3, <1>4 DEF a, b

\* The buffer begins with the frame that was sent.
Begins(input, sent) == \A i \in 1 .. Len(sent) : input[i] = sent[i]

\* What ParseFrame takes for the length of a client's frame.
LEMMA FrameLength ==
  ASSUME NEW said \in Seq(Stream!Byte), IsTwoBytes(Len(said)),
         Stream!SmallBytes(Len(said)),
         NEW mask \in Seq(Stream!Byte), HasFour(mask),
         NEW input, Begins(input, Stream!ClientFrame(said, mask))
  PROVE  /\ input[2] >= 128
         /\ 2 + Stream!ExtendedBytes(input) = HeadBytes(Len(said))
         /\ Stream!ParsedLength(input) = Len(said)
  <1> DEFINE n == Len(said)
             head == ClientHead(n)
             sent == Stream!ClientFrame(said, mask)
  <1>1. n \in Nat /\ IsTwoBytes(n) /\ Stream!SmallBytes(n)
    OBVIOUS
  <1> HIDE DEF n
  <1>2. /\ head[1] = 129
        /\ n < 126 => head[2] = 128 + n
        /\ n >= 126 => /\ head[2] = 254 /\ head[3] = n \div 256
                       /\ head[4] = n % 256
    BY <1>1, ClientHeadParts
  <1>3. /\ Len(sent) = HeadBytes(n) + 4 + n
        /\ \A i \in 1 .. HeadBytes(n) : sent[i] = head[i]
    BY ClientFrameParts DEF n
  <1>3a. \A i \in 1 .. Len(sent) : input[i] = sent[i]
    BY DEF Begins
  <1> HIDE DEF head, sent
  <1>4. /\ n < 126 => input[2] = 128 + n
        /\ n >= 126 => /\ input[2] = 254 /\ input[3] = n \div 256
                       /\ input[4] = n % 256
    BY <1>1, <1>2, <1>3, <1>3a DEF HeadBytes
  <1>5. CASE n < 126
    <2>1. input[2] = 128 + n /\ input[2] % 128 = n
      BY <1>1, <1>4, <1>5
    <2>2. Stream!ExtendedBytes(input) = 0
      BY <1>1, <1>5, <2>1 DEF Stream!ExtendedBytes
    <2>3. Stream!ParsedLength(input) = n
      BY <2>1, <2>2 DEF Stream!ParsedLength
    <2> QED
      BY <1>1, <1>5, <2>1, <2>2, <2>3 DEF HeadBytes, n
  <1>6. CASE ~(n < 126)
    <2>1. input[2] = 254 /\ input[3] = n \div 256 /\ input[4] = n % 256
      BY <1>1, <1>4, <1>6
    <2>2. Stream!ExtendedBytes(input) = 2
      BY <2>1 DEF Stream!ExtendedBytes
    <2> DEFINE high == n \div 256
               low == n % 256
               bytes == [i \in 1 .. 2 |-> input[2 + i]]
    <2>3. bytes = <<high, low>>
      <3>1. input[2 + 1] = high /\ input[2 + 2] = low
        BY <2>1
      <3> HIDE DEF high, low
      <3> QED
        BY <3>1
    <2>4. Stream!ParsedLength(input)
            = Stream!FoldLeft(Stream!SignedOr, 0, bytes)
      <3>1. Stream!ExtendedBytes(input) # 0
        BY <2>2
      <3> QED
        BY <2>2, <3>1, Zenon DEF Stream!ParsedLength
    <2> HIDE DEF bytes, high, low
    <2>5. Stream!ParsedLength(input)
            = Stream!SignedOr(Stream!SignedOr(0, high), low)
      BY <2>3, <2>4, FoldOfTwo, Zenon
    <2>6. Stream!ParsedLength(input) = n
      BY <1>1, <2>5, LengthUnderstood DEF high, low
    <2>7. input[2] >= 128 /\ 2 + Stream!ExtendedBytes(input) = HeadBytes(n)
      BY <1>6, <2>1, <2>2 DEF HeadBytes
    <2> QED
      BY <2>6, <2>7 DEF n
  <1> QED
    BY <1>5, <1>6

\* Frame.cpp, ParseFrame and the unmasking: a client's text comes back, and
\* nothing is read behind its frame.
LEMMA ClientFrameRead ==
  ASSUME NEW said \in Seq(Stream!Byte), IsTwoBytes(Len(said)),
         Stream!SmallBytes(Len(said)),
         NEW mask \in Seq(Stream!Byte), HasFour(mask),
         NEW input, Begins(input, Stream!ClientFrame(said, mask))
  PROVE  /\ Stream!ParsedLength(input) = Len(said)
         /\ Stream!DataStart(input) + Len(said)
              = Len(Stream!ClientFrame(said, mask))
         /\ Stream!PayloadData(Stream!ParseFrame(input)) = said
  <1> DEFINE sent == Stream!ClientFrame(said, mask)
             frame == Stream!ParseFrame(input)
             n == Len(said)
             h == HeadBytes(n)
             place(i) == ((i - 1) % 4) + 1
  <1>1. /\ input[2] >= 128
        /\ 2 + Stream!ExtendedBytes(input) = h
        /\ Stream!ParsedLength(input) = n
    BY FrameLength
  <1>2. /\ Len(sent) = h + 4 + n
        /\ \A i \in 1 .. Len(mask) : sent[h + i] = mask[i]
        /\ \A i \in 1 .. n : sent[h + 4 + i] = Masked(said, mask)[i]
    BY ClientFrameParts
  <1>3. n \in Nat /\ h \in Nat
    BY DEF HeadBytes
  <1>3a. \A i \in 1 .. Len(sent) : input[i] = sent[i]
    BY DEF Begins
  <1> HIDE DEF sent, n, h
  <1>4. Stream!DataStart(input) = h + 4
    BY <1>1, <1>3 DEF Stream!DataStart
  <1> DEFINE first == input[1] % 16
             final == input[1] >= 128
             masked == input[2] >= 128
             four == [i \in 1 .. 4 |-> input[h + i]]
             bytes == [i \in 1 .. n |-> input[h + 4 + i]]
  <1>5. frame = [opecode |-> first, fin |-> final, mask |-> masked,
                 length |-> n, maskingKey |-> four, data |-> bytes]
    BY <1>1, <1>4, Zenon DEF Stream!ParseFrame
  <1> HIDE DEF first, final, masked, four, bytes, frame
  <1>6. frame.length = n /\ frame.maskingKey = four /\ frame.data = bytes
    BY <1>5
  <1>7. \A i \in 1 .. n : frame.data[i] = Masked(said, mask)[i]
    <2>1. \A i \in 1 .. n : bytes[i] = input[h + 4 + i]
      BY DEF bytes
    <2>2. \A i \in 1 .. n : h + 4 + i \in 1 .. Len(sent)
      BY <1>2, <1>3
    <2> QED
      BY <1>2, <1>3a, <1>6, <2>1, <2>2, ZenonT(30)
  <1>8. \A i \in 1 .. 4 : frame.maskingKey[i] = mask[i]
    <2>1. \A i \in 1 .. 4 : four[i] = input[h + i]
      BY DEF four
    <2>2. \A i \in 1 .. 4 : h + i \in 1 .. Len(sent)
      BY <1>2, <1>3
    <2>3. \A i \in 1 .. 4 : i \in 1 .. Len(mask)
      BY DEF HasFour
    <2> QED
      BY <1>2, <1>3a, <1>6, <2>1, <2>2, <2>3, Zenon
  <1>9. \A i \in 1 .. n : frame.maskingKey[place(i)] = mask[place(i)]
    <2>1. \A i \in 1 .. n : place(i) \in 1 .. 4
      BY <1>3
    <2> QED
      BY <1>8, <2>1
  <1>10. \A i \in 1 .. n :
           Stream!Xor8(Masked(said, mask)[i], mask[place(i)]) = said[i]
    BY MaskedParts DEF n
  <1> HIDE DEF place
  <1>11. \A i \in 1 .. n :
           Stream!Xor8(frame.data[i], frame.maskingKey[place(i)]) = said[i]
    BY <1>7, <1>9, <1>10, Zenon
  <1>12. Stream!PayloadData(frame)
           = [i \in 1 .. n |->
                Stream!Xor8(frame.data[i], frame.maskingKey[place(i)])]
    BY <1>6, Zenon DEF Stream!PayloadData, place
  <1>13. Stream!PayloadData(frame) = [i \in 1 .. n |-> said[i]]
    BY <1>11, <1>12, Zenon
  <1>14. said = [i \in 1 .. n |-> said[i]]
    BY DEF n
  <1>15. Stream!PayloadData(frame) = said
    BY <1>13, <1>14, Zenon
  <1>16. Stream!DataStart(input) + n = Len(sent)
    BY <1>2, <1>3, <1>4
  <1> QED
    BY <1>1, <1>15, <1>16 DEF n, sent, frame

\* The texts the runs take have a length of two bytes.
LEMMA HeardLength ==
  \A n \in HeardLengths \cup TextLengths : n \in Nat /\ IsTwoBytes(n)
  BY FormatsAssumption DEF FormatsAssumption, IsTwoBytes

\* A sequence of four.
LEMMA FourOf ==
  ASSUME NEW Elem,
         NEW a \in Elem, NEW b \in Elem, NEW c \in Elem, NEW d \in Elem
  PROVE  <<a, b, c, d>> \in Seq(Elem) /\ HasFour(<<a, b, c, d>>)
  BY DEF HasFour

\* The masking keys are keys.
LEMMA KeysAreKeys ==
  \A k \in Stream!Keys : k \in Seq(Stream!Byte) /\ HasFour(k)
  <1>1. /\ 0 \in Stream!Byte /\ 1 \in Stream!Byte /\ 128 \in Stream!Byte
        /\ 255 \in Stream!Byte /\ 90 \in Stream!Byte
    BY ByteRange
  <1> HIDE DEF Stream!Byte
  <1>2. <<0, 0, 0, 0>> \in Seq(Stream!Byte) /\ HasFour(<<0, 0, 0, 0>>)
    BY <1>1, FourOf
  <1>3. /\ <<1, 128, 255, 90>> \in Seq(Stream!Byte)
        /\ HasFour(<<1, 128, 255, 90>>)
    BY <1>1, FourOf
  <1> QED
    BY <1>2, <1>3 DEF Stream!Keys

\* The text a client sends is made of bytes.
LEMMA ClientsText ==
  ASSUME NEW n \in Nat
  PROVE  LET said == [i \in 1 .. n |-> 65 + (i % 26)]
         IN  said \in Seq(Stream!Byte) /\ Len(said) = n
  <1>1. \A i \in 1 .. n : 65 + (i % 26) \in Stream!Byte
    <2>1. \A i \in 1 .. n : 65 + (i % 26) \in Nat /\ 65 + (i % 26) < 256
      OBVIOUS
    <2> QED
      BY <2>1, ByteRange
  <1> QED
    BY <1>1

\* What was read is in the buffer, whatever is behind it.
LEMMA MemoryBegins ==
  ASSUME NEW Elem, NEW sent \in Seq(Elem), NEW stray
  PROVE  Begins(Stream!Memory(SubSeq(sent, 1, Len(sent)), stray), sent)
  <1>1. SubSeq(sent, 1, Len(sent)) = sent
    OBVIOUS
  <1>2. Len(sent) \in Nat
    OBVIOUS
  <1>3. \A i \in 1 .. Len(sent) : i \in Nat \ {0} /\ i <= Len(sent)
    BY <1>2
  <1>4. \A i \in 1 .. Len(sent) : Stream!Memory(sent, stray)[i] = sent[i]
    BY <1>3 DEF Stream!Memory
  <1> QED
    BY <1>1, <1>4, Zenon DEF Begins

\* A text whose frame is read whole is understood.
LEMMA WholeFrameHeard ==
  ASSUME NEW said \in Seq(Stream!Byte), IsTwoBytes(Len(said)),
         Stream!SmallBytes(Len(said)),
         NEW mask \in Seq(Stream!Byte), HasFour(mask),
         NEW input, Begins(input, Stream!ClientFrame(said, mask)),
         Len(Stream!ClientFrame(said, mask)) <= BufferSize
  PROVE  Stream!Outcomes(input, said) = {"said"}
  <1> DEFINE length == Stream!ParsedLength(input)
             start == Stream!DataStart(input)
             sent == Stream!ClientFrame(said, mask)
             payload == Stream!PayloadData(Stream!ParseFrame(input))
  <1>1. length = Len(said) /\ start + Len(said) = Len(sent) /\ payload = said
    BY ClientFrameRead
  <1>2. Stream!Outcomes(input, said)
          = IF length < 0 THEN {"bad_alloc"}
            ELSE {IF payload = said THEN "said" ELSE "other"}
                 \cup (IF start + length > BufferSize THEN {"crash"} ELSE {})
    BY Zenon DEF Stream!Outcomes
  <1>3. Len(said) \in Nat /\ Len(sent) <= BufferSize
    OBVIOUS
  <1>4. BufferSize \in Nat /\ Len(sent) \in Nat
    <2>1. sent \in Seq(Stream!Byte)
      BY ClientFrameParts
    <2>2. Len(sent) \in Nat
      BY <2>1
    <2> QED
      BY <2>2, FormatsAssumption DEF FormatsAssumption
  <1> HIDE DEF length, start, sent, payload
  <1>5. ~(length < 0) /\ ~(start + length > BufferSize)
    BY <1>1, <1>3, <1>4
  <1> QED
    BY <1>1, <1>2, <1>5

\* No step of the stream makes ParseFrame misread a client's text.
LEMMA ClientUnderstoodKept ==
  ASSUME Stream!ClientUnderstood, [Stream!Next]_streamVars
  PROVE  Stream!ClientUnderstood'
  <1>1. CASE UNCHANGED heard
    <2>1. Stream!ClientUnderstood' <=> Stream!ClientUnderstood
      BY <1>1 DEF Stream!ClientUnderstood
    <2> QED
      BY <2>1
  <1>2. ASSUME NEW n \in HeardLengths, Stream!HandleRead(n)
        PROVE  Stream!ClientUnderstood'
    <2>1. n \in Nat /\ IsTwoBytes(n)
      BY HeardLength
    <2> DEFINE said == [i \in 1 .. n |-> 65 + (i % 26)]
               sent(k) == Stream!ClientFrame(said, k)
               input(k, c, stray) ==
                 Stream!Memory(SubSeq(sent(k), 1, c), stray)
    <2>2. PICK k \in Stream!Keys, stray \in Strays :
            \E c \in Stream!Reads(Len(sent(k))) :
            \E as \in Stream!Outcomes(input(k, c, stray), said) :
              heard' = [length |-> n, complete |-> c = Len(sent(k)),
                        as |-> as]
      BY <1>2, Zenon DEF Stream!HandleRead
    <2>3. said \in Seq(Stream!Byte) /\ Len(said) = n
      BY <2>1, ClientsText
    <2>4. k \in Seq(Stream!Byte) /\ HasFour(k)
      BY KeysAreKeys
    <2> HIDE DEF said
    <2>5. PICK c \in Stream!Reads(Len(sent(k))) :
            \E as \in Stream!Outcomes(input(k, c, stray), said) :
              heard' = [length |-> n, complete |-> c = Len(sent(k)),
                        as |-> as]
      BY <2>2, Zenon
    <2>6. c <= BufferSize
      BY DEF Stream!Reads
    <2>7. ASSUME c = Len(sent(k)), Stream!SmallBytes(n)
          PROVE  Stream!Outcomes(input(k, c, stray), said) = {"said"}
      <3>1. sent(k) \in Seq(Stream!Byte)
        BY <2>1, <2>3, <2>4, ClientFrameParts, Zenon
      <3>2. Begins(input(k, c, stray), sent(k))
        BY <2>7, <3>1, MemoryBegins, Zenon
      <3>3. Len(sent(k)) <= BufferSize
        BY <2>6, <2>7, Zenon
      <3>4. IsTwoBytes(Len(said)) /\ Stream!SmallBytes(Len(said))
        <4>1. Len(said) = n /\ IsTwoBytes(n) /\ Stream!SmallBytes(n)
          BY <2>1, <2>3, <2>7
        <4> QED
          BY <4>1, SMT
      <3> HIDE DEF input
      <3> QED
        BY <2>3, <2>4, <3>2, <3>3, <3>4, WholeFrameHeard, Zenon
    <2> DEFINE outcomes == Stream!Outcomes(input(k, c, stray), said)
               all == c = Len(sent(k))
    <2>8. /\ all /\ Stream!SmallBytes(n) => outcomes = {"said"}
          /\ \E as \in outcomes :
               heard' = [length |-> n, complete |-> all, as |-> as]
      BY <2>5, <2>7, Zenon
    <2> HIDE DEF outcomes, all
    <2>9. PICK as \in outcomes :
            heard' = [length |-> n, complete |-> all, as |-> as]
      BY <2>8
    <2>10. heard'.length = n /\ heard'.complete = all /\ heard'.as = as
      BY <2>9
    <2>11. all /\ Stream!SmallBytes(n) => heard'.as = "said"
      BY <2>8, <2>10, Zenon
    <2> QED
      BY <2>10, <2>11 DEF Stream!ClientUnderstood
  <1>3. ASSUME Stream!Next PROVE Stream!ClientUnderstood'
    <2>1. ASSUME NEW n \in TextLengths, Stream!SendText(n)
          PROVE  UNCHANGED heard
      BY <2>1, Zenon DEF Stream!SendText
    <2>2. Stream!ReadFrame \/ Stream!ReadDraft76 => UNCHANGED heard
      BY Zenon DEF Stream!ReadFrame, Stream!ReadDraft76
    <2> QED
      BY <1>1, <1>2, <1>3, <2>1, <2>2, Zenon DEF Stream!Next
  <1>4. streamVars' = streamVars => UNCHANGED heard
    BY Zenon DEF streamVars
  <1> QED
    BY <1>1, <1>3, <1>4, Zenon

\* Nothing is heard at the start.
LEMMA ClientUnderstoodInitially == Stream!Init => Stream!ClientUnderstood
  BY DEF Stream!Init, Stream!ClientUnderstood

-----------------------------------------------------------------------------
(* The stream a client reads and sendText.                                 *)

\* The bytes of a text, none of which ends a frame of draft 76.
Plain == {b \in Nat : 64 <= b /\ b < 128}

\* A frame's bytes in front of n bytes of text, and all of them.
HeadSize(kind, n) ==
  IF kind = "draft76" THEN 1 ELSE IF n < 126 THEN 2 ELSE 4
FrameBytes(kind, n) ==
  HeadSize(kind, n) + n + (IF kind = "draft76" THEN 1 ELSE 0)

\* A complete frame of what was said, in a stream behind its first p bytes.
Framed(kind, w, p, said) ==
  /\ kind = "draft76" => w[p + 1] = 0 /\ w[p + Len(said) + 2] = 255
  /\ kind # "draft76" =>
       /\ w[p + 1] = 129 /\ Len(said) # 126
       /\ Len(said) < 126 => w[p + 2] = Len(said)
       /\ Len(said) > 126 => /\ w[p + 2] = 126
                             /\ w[p + 3] = Len(said) \div 256
                             /\ w[p + 4] = Len(said) % 256
  /\ \A i \in 1 .. Len(said) :
       w[p + HeadSize(kind, Len(said)) + i] = said[i]

\* A frame is never empty.
LEMMA FrameBytesNat ==
  ASSUME NEW kind, NEW n \in Nat
  PROVE  FrameBytes(kind, n) \in Nat /\ FrameBytes(kind, n) >= 2
  BY DEF FrameBytes, HeadSize

\* What stands in front of a text in version 10.
LEMMA Version10Frame ==
  ASSUME NEW kind, NEW w, NEW p \in Nat, NEW said, Len(said) \in Nat,
         Framed(kind, w, p, said), kind # "draft76"
  PROVE  /\ w[p + 1] = 129 /\ Len(said) # 126
         /\ Len(said) < 126 => w[p + 2] = Len(said)
         /\ Len(said) > 126 => /\ w[p + 2] = 126
                               /\ w[p + 3] = Len(said) \div 256
                               /\ w[p + 4] = Len(said) % 256
  BY DEF Framed

\* A frame is where its bytes are.
LEMMA FramedAlike ==
  ASSUME NEW kind, NEW v, NEW w, NEW p \in Nat, NEW q \in Nat,
         NEW said, Len(said) \in Nat, Framed(kind, v, p, said),
         \A i \in 1 .. FrameBytes(kind, Len(said)) : w[q + i] = v[p + i]
  PROVE  Framed(kind, w, q, said)
  <1> DEFINE n == Len(said)
             h == HeadSize(kind, n)
  <1>1. n \in Nat /\ h \in Nat
    BY DEF HeadSize
  <1>2. CASE kind = "draft76"
    <2>1. FrameBytes(kind, n) = n + 2 /\ h = 1
      BY <1>1, <1>2 DEF FrameBytes, HeadSize
    <2>2. w[q + 1] = v[p + 1] /\ w[q + (n + 2)] = v[p + (n + 2)]
      BY <1>1, <2>1
    <2>3. q + (n + 2) = q + n + 2 /\ p + (n + 2) = p + n + 2
      BY <1>1
    <2>4. v[p + 1] = 0 /\ v[p + n + 2] = 255
      BY <1>2 DEF Framed
    <2>5. w[q + 1] = 0 /\ w[q + n + 2] = 255
      BY <1>1, <2>2, <2>3, <2>4
    <2>6. \A i \in 1 .. n : w[q + h + i] = said[i]
      <3>1. \A i \in 1 .. n : v[p + h + i] = said[i]
        BY DEF Framed
      <3> TAKE i \in 1 .. n
      <3>2. w[q + (h + i)] = v[p + (h + i)]
        <4>1. h + i \in 1 .. FrameBytes(kind, n)
          BY <1>1, <2>1
        <4> QED
          BY <4>1
      <3>3. q + (h + i) = q + h + i /\ p + (h + i) = p + h + i
        BY <1>1
      <3> QED
        BY <3>1, <3>2, <3>3
    <2> QED
      BY <1>2, <2>5, <2>6 DEF Framed
  <1>3. CASE kind # "draft76"
    <2>1. FrameBytes(kind, n) = h + n
      BY <1>1, <1>3 DEF FrameBytes
    <2>2. h = IF n < 126 THEN 2 ELSE 4
      BY <1>3 DEF HeadSize
    <2>3. /\ w[q + 1] = v[p + 1] /\ w[q + 2] = v[p + 2]
          /\ n >= 126 => w[q + 3] = v[p + 3] /\ w[q + 4] = v[p + 4]
      <3> DEFINE f == FrameBytes(kind, n)
      <3>1. \A i \in 1 .. f : w[q + i] = v[p + i]
        OBVIOUS
      <3>2. f = h + n
        BY <2>1
      <3> HIDE DEF f, h, n
      <3>3. /\ 1 \in 1 .. f /\ 2 \in 1 .. f
            /\ n >= 126 => 3 \in 1 .. f /\ 4 \in 1 .. f
        BY <1>1, <2>2, <3>2
      <3> QED
        BY <3>1, <3>3, Zenon
    <2>4. \A i \in 1 .. n : w[q + h + i] = said[i]
      <3>1. \A i \in 1 .. n : v[p + h + i] = said[i]
        BY DEF Framed
      <3> TAKE i \in 1 .. n
      <3>2. w[q + (h + i)] = v[p + (h + i)]
        <4>1. h + i \in 1 .. FrameBytes(kind, n)
          BY <1>1, <2>1
        <4> QED
          BY <4>1
      <3>3. q + (h + i) = q + h + i /\ p + (h + i) = p + h + i
        BY <1>1
      <3> QED
        BY <3>1, <3>2, <3>3
    <2>5. /\ v[p + 1] = 129 /\ n # 126
          /\ n < 126 => v[p + 2] = n
          /\ n > 126 => /\ v[p + 2] = 126 /\ v[p + 3] = n \div 256
                        /\ v[p + 4] = n % 256
      BY <1>1, <1>3, Version10Frame
    <2> HIDE DEF h
    <2>6. /\ w[q + 1] = 129 /\ n # 126
          /\ n < 126 => w[q + 2] = n
          /\ n > 126 => /\ w[q + 2] = 126 /\ w[q + 3] = n \div 256
                        /\ w[q + 4] = n % 256
      BY <1>1, <2>3, <2>5
    <2> QED
      BY <1>3, <2>4, <2>6, Zenon DEF Framed, h
  <1> QED
    BY <1>2, <1>3

\* What sendText is given.
Message == {s \in Seq(Plain) : IsTwoBytes(Len(s))}

\* A text by its bytes.
LEMMA MessageBytes ==
  ASSUME NEW said \in Message
  PROVE  /\ said \in Seq(Plain) /\ said \in Seq(Nat)
         /\ Len(said) \in Nat /\ IsTwoBytes(Len(said))
         /\ \A i \in 1 .. Len(said) :
              said[i] \in Nat /\ 64 <= said[i] /\ said[i] < 128
  <1>1. said \in Seq(Plain) /\ IsTwoBytes(Len(said)) /\ Len(said) \in Nat
    BY DEF Message
  <1>2. \A b \in Plain : b \in Nat /\ 64 <= b /\ b < 128
    BY DEF Plain
  <1>3. \A i \in 1 .. Len(said) : said[i] \in Plain
    BY <1>1
  <1>4. \A i \in 1 .. Len(said) : said[i] \in Nat
    BY <1>2, <1>3
  <1>5. said \in Seq(Nat)
    BY <1>1, <1>4
  <1> QED
    BY <1>1, <1>2, <1>3, <1>5

\* sendText of draft 76 makes one frame of its text.
LEMMA FrameOfDraft76 ==
  ASSUME NEW said \in Message, NEW out, out = Stream!Draft76Output(said)
  PROVE  /\ out \in Seq(Nat) /\ Len(out) = FrameBytes("draft76", Len(said))
         /\ Framed("draft76", out, 0, said)
  <1> DEFINE first == <<0>>
             last == <<255>>
             n == Len(said)
  <1>1. /\ first \in Seq(Nat) /\ last \in Seq(Nat)
        /\ Len(first) = 1 /\ Len(last) = 1 /\ first[1] = 0 /\ last[1] = 255
    OBVIOUS
  <1>2. out = (first \o said) \o last
    BY Zenon DEF Stream!Draft76Output
  <1>3. n \in Nat /\ said \in Seq(Nat)
    BY MessageBytes
  <1> HIDE DEF first, last, n
  <1>4. /\ out \in Seq(Nat) /\ Len(out) = Len(first) + Len(said) + Len(last)
        /\ \A i \in 1 .. Len(first) : out[i] = first[i]
        /\ \A i \in 1 .. Len(said) : out[Len(first) + i] = said[i]
        /\ \A i \in 1 .. Len(last) : out[Len(first) + Len(said) + i] = last[i]
    <2>1. first \in Seq(Nat) /\ last \in Seq(Nat)
      BY <1>1
    <2> QED
      BY <1>2, <1>3, <2>1
  <1>5. /\ Len(out) = 1 + n + 1 /\ out[1] = 0
        /\ \A i \in 1 .. n : out[1 + i] = said[i]
        /\ out[n + 2] = 255
    <2>1. out[1] = first[1] /\ out[1 + n + 1] = last[1]
      BY <1>1, <1>3, <1>4 DEF n
    <2>2. 1 + n + 1 = n + 2
      BY <1>3
    <2> QED
      BY <1>1, <1>4, <2>1, <2>2 DEF n
  <1> QED
    BY <1>3, <1>4, <1>5 DEF Framed, FrameBytes, HeadSize, n

\* What ToBinary makes of a text, from its second byte to the extended length's
\* end and as a whole, and how much of it sendText sends.
SecondBytes(said) ==
  Stream!LengthBytes(Stream!CreateTextFrame(said), <<>>)
WholeFrame(said) == Stream!ToBinary(Stream!CreateTextFrame(said), <<>>)
SentSize(said) == Stream!FrameSize(Stream!CreateTextFrame(said))

\* LengthBytes writes a length in one byte or, behind 126, in two.
LEMMA LengthBytesParts ==
  ASSUME NEW said \in Message, NEW second,
         second = SecondBytes(said)
  PROVE  /\ second \in Seq(Nat)
         /\ Len(said) < 126 => Len(second) = 1 /\ second[1] = Len(said)
         /\ Len(said) >= 126 => /\ Len(second) = 3 /\ second[1] = 126
                                /\ second[2] = Len(said) \div 256
                                /\ second[3] = Len(said) % 256
  <1> DEFINE n == Len(said)
             f == Stream!CreateTextFrame(said)
  <1>1. n \in Nat /\ n < 65536
    BY MessageBytes DEF IsTwoBytes
  <1>0. n \in Nat
    BY MessageBytes
  <1>2. f.length = n
    BY DEF Stream!CreateTextFrame
  <1> HIDE DEF f, n
  <1>3. /\ n \div 256 \in Nat /\ (n \div 256) % 256 = n \div 256
        /\ n % 256 \in Nat
    BY <1>1
  <1>4. CASE n < 126
    <2>1. second = <<n>>
      BY <1>1, <1>2, <1>4 DEF SecondBytes, Stream!LengthBytes, f
    <2>2. second \in Seq(Nat) /\ Len(second) = 1 /\ second[1] = n
      BY <1>0, <2>1
    <2> QED
      BY <1>0, <1>4, <2>2 DEF n
  <1>5. CASE ~(n < 126)
    <2>1. second = <<126, (n \div 256) % 256, n % 256>>
      BY <1>1, <1>2, <1>5 DEF SecondBytes, Stream!LengthBytes, f
    <2>2. second = <<126, n \div 256, n % 256>>
      BY <1>3, <2>1
    <2> QED
      BY <1>1, <1>3, <1>5, <2>2 DEF n
  <1> QED
    BY <1>4, <1>5

\* sendText of version 10 makes one frame of its text, unless the size it
\* sends is not the size of the frame.
LEMMA FrameOfVersion10 ==
  ASSUME NEW said \in Message, NEW all,
         all = WholeFrame(said), NEW size, size = SentSize(said)
  PROVE  /\ all \in Seq(Nat) /\ size \in Nat
         /\ size = Len(all) <=> Len(said) # 126
         /\ Len(said) # 126 => /\ Len(all) = FrameBytes("ver10", Len(said))
                               /\ Framed("ver10", all, 0, said)
  <1> DEFINE n == Len(said)
             f == Stream!CreateTextFrame(said)
             second == SecondBytes(said)
             first == <<129>>
             h == HeadSize("ver10", n)
  <1>1. n \in Nat /\ n < 65536 /\ said \in Seq(Nat)
    BY MessageBytes DEF IsTwoBytes
  <1>0. n \in Nat
    BY MessageBytes
  <1>2. /\ second \in Seq(Nat)
        /\ n < 126 => Len(second) = 1 /\ second[1] = n
        /\ n >= 126 => /\ Len(second) = 3 /\ second[1] = 126
                       /\ second[2] = n \div 256 /\ second[3] = n % 256
    BY LengthBytesParts
  <1>3. /\ first \in Seq(Nat) /\ Len(first) = 1 /\ first[1] = 129
    OBVIOUS
  <1>4. /\ f.fin = TRUE /\ f.opecode = 1 /\ f.mask = FALSE /\ f.data = said
        /\ f.length = n
    BY DEF Stream!CreateTextFrame
  <1>5. all = (first \o second) \o said
    <2> HIDE DEF f, second, first
    <2>1. all = ((<<(IF f.fin THEN 128 ELSE 0) + (f.opecode % 16)>>
                    \o (IF f.mask /\ f.length < 126 THEN <<128 + second[1]>>
                                                    ELSE second))
                   \o (IF f.mask THEN f.maskingKey ELSE <<>>)) \o f.data
      BY Zenon DEF WholeFrame, Stream!ToBinary, second, SecondBytes, f
    <2>2. all = ((<<128 + (1 % 16)>> \o second) \o <<>>) \o said
      BY <1>4, <2>1, Zenon
    <2>3. 128 + (1 % 16) = 129
      OBVIOUS
    <2>4. all = ((first \o second) \o <<>>) \o said
      BY <2>2, <2>3, Zenon DEF first
    <2>5. first \o second \in Seq(Nat)
      BY <1>2, <1>3
    <2>6. (first \o second) \o <<>> = first \o second
      BY <2>5
    <2> QED
      BY <2>4, <2>6, Zenon
  <1>6. size = 2 + (IF n > 126 THEN 2 ELSE 0) + (IF n > 65536 THEN 6 ELSE 0)
                 + n
    <2> HIDE DEF f, n
    <2> QED
      BY <1>1, <1>4 DEF SentSize, Stream!FrameSize, f
  <1> HIDE DEF n, f, second, first
  <1>7. /\ all \in Seq(Nat) /\ Len(all) = Len(first) + Len(second) + Len(said)
        /\ \A i \in 1 .. Len(first) : all[i] = first[i]
        /\ \A i \in 1 .. Len(second) : all[Len(first) + i] = second[i]
        /\ \A i \in 1 .. Len(said) :
             all[Len(first) + Len(second) + i] = said[i]
    <2>1. first \in Seq(Nat) /\ second \in Seq(Nat) /\ said \in Seq(Nat)
      BY <1>1, <1>2, <1>3
    <2> QED
      BY <1>5, <2>1, SMTT(30)
  <1>8. size = 2 + (IF n > 126 THEN 2 ELSE 0) + n
    BY <1>1, <1>6
  <1> DEFINE m == Len(second)
  <1>9. /\ m \in Nat /\ h \in Nat /\ m = IF n < 126 THEN 1 ELSE 3
        /\ h = 1 + m
    <2>1. /\ m \in Nat
          /\ n < 126 => m = 1
          /\ n >= 126 => m = 3
      BY <1>2
    <2> HIDE DEF m
    <2>2. h = IF n < 126 THEN 2 ELSE 4
      <3>1. "ver10" # "draft76"
        OBVIOUS
      <3> QED
        BY <3>1, Zenon DEF HeadSize
    <2> QED
      BY <1>0, <2>1, <2>2
  <1> HIDE DEF h, m
  <1>10. /\ Len(all) = h + n /\ all[1] = 129
         /\ \A i \in 1 .. n : all[h + i] = said[i]
         /\ \A i \in 1 .. m : all[1 + i] = second[i]
    <2>1. all[1] = first[1]
      BY <1>3, <1>7
    <2>2. /\ Len(all) = 1 + m + n
          /\ \A i \in 1 .. n : all[1 + m + i] = said[i]
          /\ \A i \in 1 .. m : all[1 + i] = second[i]
      BY <1>3, <1>7 DEF n, m
    <2> QED
      BY <1>3, <1>9, <2>1, <2>2
  <1>10a. all[1] = 129
    BY <1>10, Zenon
  <1>10b. /\ \A i \in 1 .. n : all[h + i] = said[i]
          /\ \A i \in 1 .. m : all[1 + i] = second[i]
    BY <1>10, Zenon
  <1> DEFINE long == Len(all)
  <1>10c. long = h + n
    BY <1>10, Zenon
  <1> HIDE DEF long
  <1>11. /\ n < 126 => all[2] = n
         /\ n >= 126 => /\ all[2] = 126 /\ all[3] = n \div 256
                        /\ all[4] = n % 256
    <2>1. /\ all[2] = second[1]
          /\ n >= 126 => all[3] = second[2] /\ all[4] = second[3]
      BY <1>0, <1>9, <1>10b
    <2>2. /\ n < 126 => second[1] = n
          /\ n >= 126 => /\ second[1] = 126 /\ second[2] = n \div 256
                         /\ second[3] = n % 256
      BY <1>2
    <2> QED
      BY <1>0, <2>1, <2>2
  <1>12. size \in Nat /\ (size = Len(all) <=> n # 126)
    <2>1. size \in Nat /\ (size = long <=> n # 126)
      BY <1>0, <1>8, <1>9, <1>10c
    <2> QED
      BY <2>1 DEF long
  <1>13. FrameBytes("ver10", n) = h + n
    <2>1. FrameBytes("ver10", n) = h + n + 0
      <3>1. "ver10" # "draft76"
        OBVIOUS
      <3> QED
        BY <3>1, Zenon DEF FrameBytes, h
    <2> QED
      BY <1>0, <1>9, <2>1
  <1>14. n # 126 => Framed("ver10", all, 0, said)
    <2>1. \A i \in 1 .. n : all[0 + h + i] = said[i]
      BY <1>0, <1>9, <1>10b
    <2>2. /\ n < 126 => all[0 + 2] = n
          /\ n > 126 => /\ all[0 + 2] = 126 /\ all[0 + 3] = n \div 256
                        /\ all[0 + 4] = n % 256
      BY <1>0, <1>11
    <2>3. all[0 + 1] = 129
      BY <1>10a
    <2> QED
      <3>1. "ver10" # "draft76"
        OBVIOUS
      <3> QED
        BY <2>1, <2>2, <2>3, <3>1, Zenon DEF Framed, n, h
  <1> QED
    BY <1>7, <1>10, <1>12, <1>13, <1>14 DEF n

\* Where the frames end in the stream that r of the texts have been read from.
Boundaries(kind, sent, w, r, at) ==
  /\ at \in [0 .. Len(sent) -> Int]
  /\ at[r] = 0 /\ at[Len(sent)] = Len(w)
  /\ \A i, j \in r .. Len(sent) : i <= j => at[i] <= at[j]
  /\ \A j \in r .. Len(sent) - 1 :
       /\ at[j + 1] = at[j] + FrameBytes(kind, Len(sent[j + 1]))
       /\ Framed(kind, w, at[j], sent[j + 1])

\* The bytes of one frame, and no other.
IsFrame(kind, out, said) ==
  Len(out) = FrameBytes(kind, Len(said)) /\ Framed(kind, out, 0, said)

\* A frame more at the stream's end.
LEMMA BoundariesGrow ==
  ASSUME NEW kind, NEW sent \in Seq(Message), NEW w \in Seq(Nat),
         NEW r \in Nat, r <= Len(sent), NEW at,
         Boundaries(kind, sent, w, r, at),
         NEW said \in Message, NEW out \in Seq(Nat),
         IsFrame(kind, out, said)
  PROVE  \E bt : Boundaries(kind, Append(sent, said), w \o out, r, bt)
  <1> DEFINE k == Len(sent)
             more == Append(sent, said)
             all == w \o out
             size == FrameBytes(kind, Len(said))
             bt == [j \in 0 .. k + 1 |-> IF j <= k THEN at[j]
                                                   ELSE Len(w) + size]
  <1>1. k \in Nat /\ r <= k /\ Len(w) \in Nat
    OBVIOUS
  <1>2. /\ at \in [0 .. k -> Int] /\ at[r] = 0 /\ at[k] = Len(w)
        /\ \A i, j \in r .. k : i <= j => at[i] <= at[j]
    BY Zenon DEF Boundaries
  <1>3. \A j \in r .. k - 1 :
          /\ at[j + 1] = at[j] + FrameBytes(kind, Len(sent[j + 1]))
          /\ Framed(kind, w, at[j], sent[j + 1])
    BY Zenon DEF Boundaries
  <1>4. /\ Len(more) = k + 1 /\ more[k + 1] = said
        /\ \A j \in 1 .. k : more[j] = sent[j]
    OBVIOUS
  <1>5. /\ Len(all) = Len(w) + Len(out)
        /\ \A i \in 1 .. Len(w) : all[i] = w[i]
        /\ \A i \in 1 .. Len(out) : all[Len(w) + i] = out[i]
    OBVIOUS
  <1>6. size \in Nat /\ size = Len(out) /\ Len(said) \in Nat
    BY MessageBytes, FrameBytesNat DEF IsFrame
  <1> DEFINE long == Len(w)
  <1>7. /\ long \in Nat /\ Len(all) = long + size
        /\ \A i \in 1 .. long : all[i] = w[i]
        /\ \A i \in 1 .. size : all[long + i] = out[i]
    BY <1>1, <1>5, <1>6
  <1> HIDE DEF k, more, all, size, long
  <1>8. /\ bt \in [0 .. k + 1 -> Int]
        /\ bt[k + 1] = long + size
        /\ \A j \in 0 .. k : bt[j] = at[j]
    <2>1. \A j \in 0 .. k : at[j] \in Int
      BY <1>2
    <2> QED
      BY <1>1, <1>6, <1>7, <2>1 DEF long
  <1> HIDE DEF bt
  <1>9. bt[r] = 0 /\ bt[k] = long
    BY <1>1, <1>2, <1>8 DEF long
  <1>10. ASSUME NEW i \in r .. k + 1, NEW j \in r .. k + 1, i <= j
         PROVE  bt[i] <= bt[j]
    <2>1. CASE j <= k
      <3>1. i \in r .. k /\ j \in r .. k
        BY <1>1, <1>10, <2>1
      <3>2. at[i] <= at[j] /\ bt[i] = at[i] /\ bt[j] = at[j]
        BY <1>1, <1>2, <1>8, <1>10, <3>1
      <3> QED
        BY <3>2
    <2>2. CASE i <= k /\ j = k + 1
      <3>1. i \in r .. k /\ k \in r .. k
        BY <1>1, <2>2
      <3>2. at[i] <= at[k] /\ bt[i] = at[i] /\ at[i] \in Int
        BY <1>1, <1>2, <1>8, <2>2, <3>1
      <3> QED
        BY <1>2, <1>6, <1>7, <1>8, <2>2, <3>2 DEF long
    <2>3. CASE i = k + 1 /\ j = k + 1
      BY <1>6, <1>7, <1>8, <2>3
    <2> QED
      BY <1>1, <1>10, <2>1, <2>2, <2>3
  <1>11. ASSUME NEW j \in r .. k
         PROVE  /\ bt[j + 1] = bt[j] + FrameBytes(kind, Len(more[j + 1]))
                /\ Framed(kind, all, bt[j], more[j + 1])
    <2>1. CASE j = k
      <3>1. more[j + 1] = said
        BY <1>4, <2>1 DEF k
      <3>2. \A i \in 1 .. FrameBytes(kind, Len(said)) :
              all[long + i] = out[0 + i]
        BY <1>6, <1>7 DEF size
      <3>3. Framed(kind, all, long, said)
        BY <1>6, <1>7, <3>2, FramedAlike DEF IsFrame
      <3> QED
        BY <1>8, <1>9, <2>1, <3>1, <3>3 DEF size
    <2>2. CASE j < k
      <3>1. j \in r .. k - 1 /\ j + 1 \in 1 .. k /\ j \in 0 .. k
            /\ j + 1 \in 0 .. k
        BY <1>1, <2>2
      <3>2. more[j + 1] = sent[j + 1]
        BY <1>4, <3>1
      <3>3. bt[j] = at[j] /\ bt[j + 1] = at[j + 1]
        BY <1>8, <3>1
      <3>4. /\ at[j + 1] = at[j] + FrameBytes(kind, Len(sent[j + 1]))
            /\ Framed(kind, w, at[j], sent[j + 1])
        BY <1>3, <3>1
      <3> DEFINE m == Len(sent[j + 1])
                 f == FrameBytes(kind, m)
                 p == at[j]
      <3>5. sent[j + 1] \in Message
        BY <3>1 DEF k
      <3>6. m \in Nat /\ f \in Nat
        BY <3>5, MessageBytes, FrameBytesNat
      <3>7. p \in Nat /\ p + f <= long
        <4>1. at[r] <= at[j] /\ at[j + 1] <= at[k]
          BY <1>1, <1>2, <2>2
        <4>2. at[j] \in Int
          BY <1>2, <3>1
        <4> HIDE DEF f
        <4> QED
          BY <1>2, <3>4, <3>6, <4>1, <4>2 DEF f, long
      <3> HIDE DEF f, p
      <3>8. \A i \in 1 .. f : all[p + i] = w[p + i]
        BY <1>7, <3>6, <3>7
      <3>9. Framed(kind, all, p, sent[j + 1])
        <4> DEFINE this == sent[j + 1]
        <4> HIDE DEF this
        <4>1. Framed(kind, w, p, this) /\ Len(this) \in Nat
          BY <3>4, <3>6, Zenon DEF p, this
        <4>2. \A i \in 1 .. FrameBytes(kind, Len(this)) : all[p + i] = w[p + i]
          BY <3>8, Zenon DEF f, this
        <4>3. Framed(kind, all, p, this)
          BY <3>7, <4>1, <4>2, FramedAlike, Zenon
        <4> QED
          BY <4>3, Zenon DEF this
      <3> QED
        BY <3>2, <3>3, <3>4, <3>9 DEF p
    <2> QED
      BY <1>1, <2>1, <2>2
  <1>12. Boundaries(kind, more, all, r, bt)
    <2>1. \A j \in r .. Len(more) - 1 :
            /\ bt[j + 1] = bt[j] + FrameBytes(kind, Len(more[j + 1]))
            /\ Framed(kind, all, bt[j], more[j + 1])
      <3>1. Len(more) - 1 = k
        BY <1>1, <1>4 DEF k
      <3> QED
        BY <1>11, <3>1
    <2>2. bt[Len(more)] = Len(all)
      BY <1>4, <1>7, <1>8 DEF k
    <2>3. \A i, j \in r .. Len(more) : i <= j => bt[i] <= bt[j]
      BY <1>4, <1>10 DEF k
    <2>4. bt \in [0 .. Len(more) -> Int]
      BY <1>4, <1>8 DEF k
    <2> QED
      BY <1>9, <2>1, <2>2, <2>3, <2>4, Zenon DEF Boundaries
  <1> QED
    BY <1>12 DEF more, all

\* A frame less at its head.
LEMMA BoundariesShrink ==
  ASSUME NEW kind, NEW sent \in Seq(Message), NEW w \in Seq(Nat),
         NEW r \in Nat, r < Len(sent), NEW at,
         Boundaries(kind, sent, w, r, at)
  PROVE  LET size == FrameBytes(kind, Len(sent[r + 1]))
             rest == SubSeq(w, size + 1, Len(w))
         IN  /\ rest \in Seq(Nat) /\ size \in Nat /\ size <= Len(w)
             /\ Framed(kind, w, 0, sent[r + 1])
             /\ \E bt : Boundaries(kind, sent, rest, r + 1, bt)
  <1> DEFINE k == Len(sent)
             long == Len(w)
             size == FrameBytes(kind, Len(sent[r + 1]))
             rest == SubSeq(w, size + 1, long)
             bt == [j \in 0 .. k |-> at[j] - size]
  <1>1. k \in Nat /\ long \in Nat /\ r < k
    OBVIOUS
  <1>2. /\ at \in [0 .. k -> Int] /\ at[r] = 0 /\ at[k] = long
        /\ \A i, j \in r .. k : i <= j => at[i] <= at[j]
        /\ \A j \in r .. k - 1 :
             /\ at[j + 1] = at[j] + FrameBytes(kind, Len(sent[j + 1]))
             /\ Framed(kind, w, at[j], sent[j + 1])
    BY Zenon DEF Boundaries
  <1>3. \A j \in 1 .. k : Len(sent[j]) \in Nat
    <2>1. \A j \in 1 .. k : sent[j] \in Message
      OBVIOUS
    <2> QED
      BY <2>1, MessageBytes
  <1> HIDE DEF k, long, size, rest
  <1>4. size \in Nat
    <2>1. r + 1 \in 1 .. k
      BY <1>1
    <2> QED
      BY <1>3, <2>1, FrameBytesNat DEF size
  <1>5. at[r + 1] = size /\ Framed(kind, w, 0, sent[r + 1])
    <2>1. r \in r .. k - 1
      BY <1>1
    <2>2. /\ at[r + 1] = at[r] + size
          /\ Framed(kind, w, at[r], sent[r + 1])
      BY <1>2, <2>1, Zenon DEF size
    <2>3. at[r + 1] = 0 + size
      BY <1>2, <2>2, Zenon
    <2> QED
      BY <1>2, <1>4, <2>2, <2>3
  <1>6. size <= long
    <2>1. r + 1 \in r .. k /\ k \in r .. k /\ r + 1 <= k
      BY <1>1
    <2>2. at[r + 1] <= at[k]
      BY <1>2, <2>1, Zenon
    <2> QED
      BY <1>2, <1>5, <2>2, Zenon
  <1>7. /\ rest \in Seq(Nat) /\ Len(rest) = long - size
        /\ \A i \in 1 .. long - size : rest[i] = w[size + i]
    <2>1. size <= Len(w)
      BY <1>6 DEF long
    <2> QED
      BY <1>4, <2>1 DEF rest, long
  <1>8. /\ bt \in [0 .. k -> Int]
        /\ \A j \in 0 .. k : bt[j] = at[j] - size
    <2>1. \A j \in 0 .. k : at[j] \in Int
      BY <1>2
    <2> QED
      BY <1>4, <2>1
  <1> HIDE DEF bt
  <1>9. bt[r + 1] = 0 /\ bt[k] = Len(rest)
    <2>1. r + 1 \in 0 .. k /\ k \in 0 .. k
      BY <1>1
    <2>2. bt[r + 1] = size - size /\ bt[k] = long - size
      BY <1>2, <1>5, <1>8, <2>1, Zenon
    <2> QED
      BY <1>4, <1>7, <2>2
  <1>10. \A i, j \in r + 1 .. k : i <= j => bt[i] <= bt[j]
    <2> TAKE i, j \in r + 1 .. k
    <2> HAVE i <= j
    <2>1. i \in r .. k /\ j \in r .. k /\ i \in 0 .. k /\ j \in 0 .. k
      BY <1>1
    <2>2. at[i] <= at[j] /\ at[i] \in Int /\ at[j] \in Int
      BY <1>2, <2>1
    <2>3. bt[i] = at[i] - size /\ bt[j] = at[j] - size
      BY <1>8, <2>1
    <2> QED
      BY <1>4, <2>2, <2>3
  <1>11. ASSUME NEW j \in r + 1 .. k - 1
         PROVE  /\ bt[j + 1] = bt[j] + FrameBytes(kind, Len(sent[j + 1]))
                /\ Framed(kind, rest, bt[j], sent[j + 1])
    <2> DEFINE this == sent[j + 1]
               f == FrameBytes(kind, Len(this))
               p == at[j]
               q == bt[j]
    <2>1. /\ j \in r .. k - 1 /\ j \in 0 .. k /\ j + 1 \in 0 .. k
          /\ j + 1 \in 1 .. k /\ r + 1 \in r .. k /\ j \in r .. k
          /\ j + 1 \in r .. k /\ k \in r .. k /\ r + 1 <= j /\ j + 1 <= k
      BY <1>1
    <2>2. at[j + 1] = p + f /\ Framed(kind, w, p, this)
      BY <1>2, <2>1, Zenon
    <2>3. Len(this) \in Nat /\ f \in Nat
      BY <1>3, <2>1, FrameBytesNat
    <2>4. /\ at[r + 1] <= at[j] /\ at[j + 1] <= at[k]
          /\ at[j] \in Int /\ at[j + 1] \in Int
      BY <1>2, <2>1
    <2>5. q = p - size /\ bt[j + 1] = at[j + 1] - size
      BY <1>8, <2>1
    <2> HIDE DEF this, f, p, q
    <2>6. /\ p \in Nat /\ q \in Nat /\ p = size + q /\ p + f <= long
      <3>1. size <= p /\ p \in Int /\ p + f <= long
        BY <1>2, <1>5, <2>2, <2>4 DEF p
      <3> QED
        BY <1>4, <2>5, <3>1
    <2>7. \A i \in 1 .. f : rest[q + i] = w[p + i]
      <3> TAKE i \in 1 .. f
      <3>1. q + i \in 1 .. long - size
        BY <1>1, <1>4, <2>3, <2>6
      <3>2. rest[q + i] = w[size + (q + i)]
        BY <1>7, <3>1, Zenon
      <3>3. size + (q + i) = p + i
        BY <1>4, <2>6
      <3> QED
        BY <3>2, <3>3, Zenon
    <2>8. Framed(kind, rest, q, this)
      BY <2>2, <2>3, <2>6, <2>7, FramedAlike, Zenon DEF f
    <2>9. bt[j + 1] = q + f
      BY <1>4, <2>2, <2>3, <2>5, <2>6
    <2> QED
      BY <2>8, <2>9 DEF this, f, q
  <1>12. Boundaries(kind, sent, rest, r + 1, bt)
    BY <1>8, <1>9, <1>10, <1>11, Zenon DEF Boundaries, k
  <1> QED
    BY <1>4, <1>5, <1>6, <1>7, <1>12, Zenon DEF long, size, rest

\* A part with a sequence's elements is the sequence.
LEMMA PartIs ==
  ASSUME NEW said \in Seq(Nat), NEW w \in Seq(Nat), NEW h \in Nat,
         h + Len(said) <= Len(w),
         \A i \in 1 .. Len(said) : w[h + i] = said[i]
  PROVE  SubSeq(w, h + 1, h + Len(said)) = said
  <1> DEFINE m == h + Len(said)
             taken == SubSeq(w, h + 1, m)
  <1>1. m \in Nat /\ m <= Len(w) /\ Len(said) \in Nat /\ h <= m
        /\ m - h = Len(said)
    OBVIOUS
  <1> HIDE DEF m
  <1>2. /\ taken \in Seq(Nat) /\ Len(taken) = m - h
        /\ \A i \in 1 .. m - h : taken[i] = w[h + i]
    BY <1>1
  <1> HIDE DEF taken
  <1>3. \A i \in 1 .. Len(taken) : taken[i] = said[i]
    BY <1>1, <1>2
  <1>4. taken = said
    BY <1>1, <1>2, <1>3, SameSequence, Zenon
  <1> QED
    BY <1>4 DEF taken, m

\* A client of version 10 reads the text of the frame at the stream's head,
\* and takes its bytes away.
LEMMA Version10Read ==
  ASSUME NEW said \in Message, wire \in Seq(Nat), protocol = "ver10",
         Framed(protocol, wire, 0, said),
         FrameBytes(protocol, Len(said)) <= Len(wire)
  PROVE  /\ Stream!FrameThere
         /\ Stream!PayloadEnd = FrameBytes(protocol, Len(said))
         /\ SubSeq(wire, Stream!PayloadStart, Stream!PayloadEnd) = said
  <1> DEFINE n == Len(said)
             h == HeadSize(protocol, n)
             f == FrameBytes(protocol, n)
             long == Len(wire)
  <1>1. n \in Nat /\ IsTwoBytes(n) /\ said \in Seq(Nat)
    BY MessageBytes
  <1>2. protocol # "draft76"
    OBVIOUS
  <1>3. /\ wire[0 + 1] = 129 /\ n # 126
        /\ n < 126 => wire[0 + 2] = n
        /\ n > 126 => /\ wire[0 + 2] = 126 /\ wire[0 + 3] = n \div 256
                      /\ wire[0 + 4] = n % 256
    BY <1>1, <1>2, Version10Frame
  <1>4. \A i \in 1 .. n : wire[0 + h + i] = said[i]
    BY Zenon DEF Framed
  <1>5. h = IF n < 126 THEN 2 ELSE 4
    BY <1>2, Zenon DEF HeadSize
  <1>6. f = h + n + 0
    BY <1>2, Zenon DEF FrameBytes
  <1>7. f <= long /\ long \in Nat
    OBVIOUS
  <1> HIDE DEF n, h, f, long
  <1>8. /\ wire[1] = 129 /\ n # 126
        /\ n < 126 => wire[2] = n
        /\ n > 126 => /\ wire[2] = 126 /\ wire[3] = n \div 256
                      /\ wire[4] = n % 256
    BY <1>3
  <1>9. h \in Nat /\ f = h + n
    BY <1>1, <1>5, <1>6
  <1>10. Stream!PayloadEnd = f
    <2>1. CASE n < 126
      <3>1. wire[2] = n /\ wire[2] # 126
        BY <1>1, <1>8, <2>1
      <3>2. Stream!PayloadEnd = 2 + n
        BY <1>1, <2>1, <3>1 DEF Stream!PayloadEnd
      <3> QED
        BY <1>1, <1>5, <1>9, <2>1, <3>2
    <2>2. CASE n > 126
      <3>1. wire[2] = 126 /\ wire[3] = n \div 256 /\ wire[4] = n % 256
        BY <1>8, <2>2
      <3>2. Stream!PayloadEnd = 4 + ((n \div 256) * 256) + (n % 256)
        BY <1>1, <3>1 DEF Stream!PayloadEnd
      <3>3. 4 + ((n \div 256) * 256) + (n % 256) = 4 + n
        BY <1>1
      <3> QED
        BY <1>1, <1>5, <1>9, <2>2, <3>2, <3>3
    <2> QED
      BY <1>1, <1>8, <2>1, <2>2
  <1>11. Stream!PayloadStart = h + 1
    <2>1. CASE n < 126
      <3>1. wire[2] = n
        BY <1>8, <2>1
      <3>2. Stream!PayloadStart = 3
        BY <1>1, <2>1, <3>1 DEF Stream!PayloadStart
      <3> QED
        BY <1>5, <2>1, <3>2
    <2>2. CASE n > 126
      <3>1. wire[2] = 126
        BY <1>8, <2>2
      <3>2. Stream!PayloadStart = 5
        BY <3>1 DEF Stream!PayloadStart
      <3> QED
        BY <1>1, <1>5, <2>2, <3>2
    <2> QED
      BY <1>1, <1>8, <2>1, <2>2
  <1>12. Stream!FrameThere
    <2>1. long >= 4 \/ (long >= 2 /\ wire[2] < 126)
      BY <1>1, <1>5, <1>7, <1>8, <1>9
    <2>2. wire[2] < 128
      BY <1>1, <1>8
    <2>3. Stream!PayloadEnd <= long
      BY <1>7, <1>10
    <2> QED
      BY <1>8, <2>1, <2>2, <2>3, Zenon DEF Stream!FrameThere, long
  <1>13. SubSeq(wire, h + 1, h + Len(said)) = said
    <2>1. \A i \in 1 .. Len(said) : wire[h + i] = said[i]
      BY <1>1, <1>4, <1>9 DEF n
    <2>2. h + Len(said) <= Len(wire)
      BY <1>7, <1>9 DEF n, long
    <2> QED
      BY <1>1, <1>9, <2>1, <2>2, PartIs
  <1> QED
    BY <1>9, <1>10, <1>11, <1>12, <1>13, Zenon DEF n, f

\* So does a client of draft 76, which looks for the byte that ends the frame.
LEMMA Draft76Read ==
  ASSUME NEW said \in Message, wire \in Seq(Nat), protocol = "draft76",
         Framed(protocol, wire, 0, said),
         FrameBytes(protocol, Len(said)) <= Len(wire)
  PROVE  LET last == Stream!SelectInSeq(wire, LAMBDA byte : byte = 255)
         IN  /\ Stream!Draft76There
             /\ last = FrameBytes(protocol, Len(said))
             /\ SubSeq(wire, 2, last - 1) = said
  <1> DEFINE n == Len(said)
             long == Len(wire)
             found == {i \in 1 .. Len(wire) : wire[i] = 255}
  <1>1. /\ n \in Nat /\ said \in Seq(Nat)
        /\ \A i \in 1 .. n : said[i] \in Nat /\ said[i] < 128
    BY MessageBytes
  <1>2. /\ wire[0 + 1] = 0 /\ wire[0 + n + 2] = 255
        /\ \A i \in 1 .. n : wire[0 + HeadSize(protocol, n) + i] = said[i]
    BY Zenon DEF Framed
  <1>3. HeadSize(protocol, n) = 1 /\ FrameBytes(protocol, n) = n + 2
    BY <1>1 DEF HeadSize, FrameBytes
  <1>4. long \in Nat /\ n + 2 <= long
    BY <1>3
  <1> HIDE DEF n, long
  <1>5. /\ wire[1] = 0 /\ wire[n + 2] = 255
        /\ \A i \in 1 .. n : wire[1 + i] = said[i]
    <2>1. 0 + n + 2 = n + 2
      BY <1>1
    <2>2. \A i \in 1 .. n : wire[0 + 1 + i] = said[i]
      BY <1>2, <1>3
    <2> QED
      BY <1>2, <2>1, <2>2
  <1>6. \A i \in 1 .. n + 1 : wire[i] # 255
    <2> TAKE i \in 1 .. n + 1
    <2>1. CASE i = 1
      BY <1>5, <2>1
    <2>2. CASE i # 1
      <3>1. i - 1 \in 1 .. n /\ 1 + (i - 1) = i
        BY <1>1, <2>2
      <3>2. wire[i] = said[i - 1]
        BY <1>5, <3>1
      <3> QED
        BY <1>1, <3>1, <3>2
    <2> QED
      BY <2>1, <2>2
  <1>7. n + 2 \in found
    BY <1>1, <1>4, <1>5 DEF long
  <1>8. \A i \in found : n + 2 <= i
    BY <1>1, <1>6
  <1>9. found \subseteq Int
    OBVIOUS
  <1>10. Stream!SelectInSeq(wire, LAMBDA byte : byte = 255)
           = IF found # {} THEN Stream!Min(found) ELSE 0
    BY Zenon DEF Stream!SelectInSeq
  <1> HIDE DEF found
  <1>11. Stream!Min(found) = n + 2
    <2> DEFINE first == Stream!Min(found)
    <2>1. first = CHOOSE x \in found : \A y \in found : x <= y
      BY Zenon DEF Stream!Min
    <2> HIDE DEF first
    <2>2. first \in found /\ \A y \in found : first <= y
      BY <1>7, <1>8, <2>1, Zenon
    <2>3. first <= n + 2 /\ n + 2 <= first /\ first \in Int
      BY <1>7, <1>8, <1>9, <2>2
    <2> QED
      BY <1>1, <2>3 DEF first
  <1>12. Stream!SelectInSeq(wire, LAMBDA byte : byte = 255) = n + 2
    BY <1>7, <1>10, <1>11, Zenon
  <1>13. Stream!Draft76There
    <2>1. /\ n + 2 \in DOMAIN wire /\ wire # <<>>
      BY <1>1, <1>4 DEF long
    <2> QED
      BY <1>5, <2>1 DEF Stream!Draft76There
  <1>14. SubSeq(wire, 1 + 1, 1 + Len(said)) = said
    <2>1. \A i \in 1 .. Len(said) : wire[1 + i] = said[i]
      BY <1>5 DEF n
    <2>2. 1 + Len(said) <= Len(wire)
      BY <1>1, <1>4 DEF n, long
    <2> QED
      BY <1>1, <2>1, <2>2, PartIs
  <1>15. SubSeq(wire, 2, (n + 2) - 1) = said
    <2>1. 1 + 1 = 2 /\ (n + 2) - 1 = 1 + Len(said)
      BY <1>1 DEF n
    <2> QED
      BY <1>14, <2>1, Zenon
  <1> QED
    BY <1>3, <1>12, <1>13, <1>15, Zenon DEF n

\* What is on its way is what was given to sendText and not read yet, each
\* text in a frame of its own.
InOrder ==
  /\ wire \in Seq(Nat) /\ received \in Seq(Message)
  /\ Len(received) <= Len(texts)
  /\ \A i \in 1 .. Len(received) : received[i] = texts[i]
  /\ \E at : Boundaries(protocol, texts, wire, Len(received), at)

\* Until a write is cut short, everything is in order.
StreamInv ==
  /\ protocol \in {"ver10", "draft76"}
  /\ texts \in Seq(Message)
  /\ whole \in BOOLEAN
  /\ whole => InOrder

\* An empty stream is in order.
LEMMA StreamStart == Stream!Init => StreamInv
  <1> SUFFICES ASSUME Stream!Init PROVE StreamInv
    OBVIOUS
  <1>1. /\ protocol \in {"ver10", "draft76"}
        /\ texts = <<>> /\ wire = <<>> /\ received = <<>> /\ whole = TRUE
    BY Zenon DEF Stream!Init
  <1>2. /\ texts \in Seq(Message) /\ wire \in Seq(Nat)
        /\ received \in Seq(Message)
        /\ Len(texts) = 0 /\ Len(wire) = 0 /\ Len(received) = 0
    BY <1>1
  <1> DEFINE at == [i \in 0 .. 0 |-> 0]
  <1>3. Boundaries(protocol, texts, wire, 0, at)
    <2> HIDE DEF at
    <2>1. at \in [0 .. 0 -> Int] /\ at[0] = 0
      BY DEF at
    <2>2. \A i \in 0 .. 0 : i = 0
      OBVIOUS
    <2>3. \A j \in 0 .. 0 - 1 : FALSE
      OBVIOUS
    <2>4. \A i, j \in 0 .. 0 : i <= j => at[i] <= at[j]
      BY <2>1
    <2> QED
      BY <1>2, <2>1, <2>3, <2>4, Zenon DEF Boundaries
  <1>4. \A i \in 1 .. 0 : FALSE
    OBVIOUS
  <1>5. InOrder
    <2>1. Len(received) <= Len(texts)
      BY <1>2
    <2>2. \A i \in 1 .. Len(received) : received[i] = texts[i]
      BY <1>2, <1>4, Zenon
    <2>3. Boundaries(protocol, texts, wire, Len(received), at)
      BY <1>2, <1>3, Zenon
    <2> HIDE DEF at
    <2> QED
      BY <1>2, <2>1, <2>2, <2>3, Zenon DEF InOrder
  <1>6. texts \in Seq(Message)
    BY <1>2
  <1> QED
    BY <1>1, <1>5, <1>6, Zenon DEF StreamInv

\* What the action sends is a text.
LEMMA SentIsMessage ==
  ASSUME NEW n \in TextLengths, texts \in Seq(Message)
  PROVE  Stream!Text(n) \in Message
  <1>1. n \in Nat /\ IsTwoBytes(n)
    BY HeardLength
  <1> DEFINE byte == 64 + (Len(texts) % 64)
  <1>2. byte \in Plain
    <2>1. byte \in Nat /\ 64 <= byte /\ byte < 128
      <3>1. Len(texts) \in Nat
        OBVIOUS
      <3> QED
        BY <3>1
    <2> QED
      BY <2>1 DEF Plain
  <1>3. Stream!Text(n) = [i \in 1 .. n |-> byte]
    BY Zenon DEF Stream!Text
  <1> HIDE DEF byte
  <1>4. Stream!Text(n) \in Seq(Plain) /\ Len(Stream!Text(n)) = n
    BY <1>1, <1>2, <1>3
  <1> QED
    BY <1>1, <1>4, Zenon DEF Message

\* What write_some is given, when it is all of a text, is the text's frame.
LEMMA OutputIsFrame ==
  ASSUME NEW said \in Message, protocol \in {"ver10", "draft76"},
         Stream!Complete(said)
  PROVE  /\ Stream!Output(said) \in Seq(Nat)
         /\ IsFrame(protocol, Stream!Output(said), said)
  <1>1. CASE protocol = "draft76"
    <2>1. Stream!Output(said) = Stream!Draft76Output(said)
      BY <1>1, Zenon DEF Stream!Output
    <2> QED
      BY <1>1, <2>1, FrameOfDraft76, Zenon DEF IsFrame
  <1>2. CASE protocol = "ver10"
    <2> DEFINE all == WholeFrame(said)
               size == SentSize(said)
    <2>1. "ver10" # "draft76"
      OBVIOUS
    <2>2. size = Len(all)
      BY <1>2, Zenon DEF Stream!Complete, WholeFrame, SentSize
    <2>3. Stream!Output(said) = SubSeq(all, 1, size)
      BY <1>2, <2>1, Zenon DEF Stream!Output, WholeFrame, SentSize
    <2>4. /\ all \in Seq(Nat)
          /\ size = Len(all) <=> Len(said) # 126
          /\ Len(said) # 126 => /\ Len(all) = FrameBytes("ver10", Len(said))
                                /\ Framed("ver10", all, 0, said)
      BY FrameOfVersion10, Zenon
    <2> HIDE DEF all, size
    <2>5. SubSeq(all, 1, Len(all)) = all
      BY <2>4
    <2> QED
      BY <1>2, <2>2, <2>3, <2>4, <2>5, Zenon DEF IsFrame
  <1> QED
    BY <1>1, <1>2

\* sendText keeps the stream in order.
LEMMA StreamSend ==
  ASSUME StreamInv, NEW n \in TextLengths, Stream!SendText(n)
  PROVE  StreamInv'
  <1> DEFINE said == Stream!Text(n)
             output == Stream!Output(said)
  <1>1. PICK m \in {2, Len(output)} :
          /\ wire' = wire \o SubSeq(output, 1, m)
          /\ whole' = (whole /\ m = Len(output) /\ Stream!Complete(said))
    BY Zenon DEF Stream!SendText
  <1>2. /\ texts' = Append(texts, said)
        /\ protocol' = protocol /\ received' = received
    BY Zenon DEF Stream!SendText
  <1>3. /\ protocol \in {"ver10", "draft76"} /\ texts \in Seq(Message)
        /\ whole \in BOOLEAN /\ (whole => InOrder)
    BY Zenon DEF StreamInv
  <1>4. said \in Message
    BY <1>3, SentIsMessage
  <1> HIDE DEF said
  <1>5. texts' \in Seq(Message)
    BY <1>2, <1>3, <1>4
  <1>6. ASSUME whole' PROVE InOrder'
    <2>1. whole /\ m = Len(output) /\ Stream!Complete(said)
      BY <1>1, <1>6, Zenon
    <2>2. InOrder
      BY <1>3, <2>1, Zenon
    <2>3. output \in Seq(Nat) /\ IsFrame(protocol, output, said)
      BY <1>3, <1>4, <2>1, OutputIsFrame
    <2> HIDE DEF output
    <2>4. wire' = wire \o output
      <3>1. SubSeq(output, 1, Len(output)) = output
        BY <2>3
      <3> QED
        BY <1>1, <2>1, <3>1, Zenon
    <2>5. /\ wire \in Seq(Nat) /\ received \in Seq(Message)
          /\ Len(received) <= Len(texts)
          /\ \A i \in 1 .. Len(received) : received[i] = texts[i]
      BY <2>2, Zenon DEF InOrder
    <2>6. PICK at : Boundaries(protocol, texts, wire, Len(received), at)
      BY <2>2, Zenon DEF InOrder
    <2>7. Len(received) \in Nat
      BY <2>5
    <2>8. PICK bt : Boundaries(protocol, Append(texts, said),
                               wire \o output, Len(received), bt)
      BY <1>3, <1>4, <2>3, <2>5, <2>6, <2>7, BoundariesGrow, Zenon
    <2>9. Boundaries(protocol', texts', wire', Len(received'), bt)
      BY <1>2, <2>4, <2>8, Zenon
    <2>10. wire' \in Seq(Nat) /\ received' \in Seq(Message)
      BY <1>2, <2>3, <2>4, <2>5
    <2>11. Len(received') <= Len(texts')
      <3>1. Len(texts') = Len(texts) + 1 /\ Len(texts) \in Nat
        BY <1>2, <1>3
      <3> QED
        BY <1>2, <2>5, <2>7, <3>1
    <2>12. \A i \in 1 .. Len(received') : received'[i] = texts'[i]
      <3>1. \A i \in 1 .. Len(received) : texts'[i] = texts[i]
        BY <1>2, <1>3, <1>4, <2>5, <2>7
      <3> QED
        BY <1>2, <2>5, <3>1, Zenon
    <2> QED
      BY <2>9, <2>10, <2>11, <2>12, Zenon DEF InOrder
  <1>7. whole' \in BOOLEAN
    BY <1>1, Zenon
  <1> QED
    BY <1>2, <1>3, <1>5, <1>6, <1>7, Zenon DEF StreamInv

\* A stream all of whose texts have been read is empty.
LEMMA AllRead ==
  ASSUME InOrder, texts \in Seq(Message), ~(Len(received) < Len(texts))
  PROVE  /\ wire = <<>> /\ received = texts
         /\ ~Stream!FrameThere /\ ~Stream!Draft76There
  <1>1. /\ wire \in Seq(Nat) /\ received \in Seq(Message)
        /\ Len(received) <= Len(texts)
        /\ \A i \in 1 .. Len(received) : received[i] = texts[i]
    BY Zenon DEF InOrder
  <1>2. PICK at : Boundaries(protocol, texts, wire, Len(received), at)
    BY Zenon DEF InOrder
  <1>3. Len(received) = Len(texts)
    BY <1>1
  <1>4. Len(wire) = 0
    BY <1>2, <1>3, Zenon DEF Boundaries
  <1>5. wire = <<>>
    BY <1>1, <1>4
  <1>6. received = texts
    BY <1>1, <1>3, SameSequence, Zenon
  <1>7. ~Stream!FrameThere
    <2>1. ~(Len(wire) >= 4 \/ (Len(wire) >= 2 /\ wire[2] < 126))
      BY <1>4
    <2> QED
      BY <2>1, Zenon DEF Stream!FrameThere
  <1>8. ~Stream!Draft76There
    BY <1>5, Zenon DEF Stream!Draft76There
  <1> QED
    BY <1>5, <1>6, <1>7, <1>8

\* The first text that is not read has its frame at the stream's head.
LEMMA NextText ==
  ASSUME InOrder, texts \in Seq(Message), Len(received) < Len(texts),
         NEW said, said = texts[Len(received) + 1]
  PROVE  LET size == FrameBytes(protocol, Len(said))
             rest == SubSeq(wire, size + 1, Len(wire))
         IN  /\ said \in Message /\ wire \in Seq(Nat)
             /\ Framed(protocol, wire, 0, said) /\ size <= Len(wire)
             /\ rest \in Seq(Nat)
             /\ \E bt : Boundaries(protocol, texts, rest,
                                   Len(received) + 1, bt)
  <1>1. wire \in Seq(Nat) /\ received \in Seq(Message)
    BY Zenon DEF InOrder
  <1>2. PICK at : Boundaries(protocol, texts, wire, Len(received), at)
    BY Zenon DEF InOrder
  <1>3. Len(received) \in Nat
    BY <1>1
  <1>4. said \in Message
    <2>1. Len(received) + 1 \in 1 .. Len(texts)
      BY <1>3
    <2> DEFINE i == Len(received) + 1
    <2> HIDE DEF i
    <2>2. texts[i] \in Message
      BY <2>1 DEF i
    <2> QED
      BY <2>2 DEF i
  <1> QED
    BY <1>1, <1>2, <1>3, <1>4, BoundariesShrink, Zenon

\* What a client does when it has read it.
LEMMA Received ==
  ASSUME InOrder, texts \in Seq(Message), Len(received) < Len(texts),
         NEW said, said = texts[Len(received) + 1],
         received' = Append(received, said),
         wire' = SubSeq(wire, FrameBytes(protocol, Len(said)) + 1, Len(wire)),
         UNCHANGED <<protocol, texts>>
  PROVE  InOrder'
  <1> DEFINE r == Len(received)
  <1>1. /\ received \in Seq(Message) /\ r \in Nat
        /\ \A i \in 1 .. r : received[i] = texts[i]
    BY Zenon, LenProperties DEF InOrder
  <1>2. said \in Message /\ wire' \in Seq(Nat)
    BY NextText, Zenon
  <1>3. PICK bt : Boundaries(protocol, texts, wire', r + 1, bt)
    BY NextText, Zenon
  <1>4. /\ received' \in Seq(Message) /\ Len(received') = r + 1
        /\ received'[r + 1] = said
        /\ \A i \in 1 .. r : received'[i] = received[i]
    BY <1>1, <1>2
  <1>5. Boundaries(protocol', texts', wire', Len(received'), bt)
    BY <1>3, <1>4, Zenon
  <1>6. Len(received') <= Len(texts')
    BY <1>1, <1>4
  <1>7. \A i \in 1 .. Len(received') : received'[i] = texts'[i]
    <2> TAKE i \in 1 .. Len(received')
    <2> HIDE DEF r
    <2>1. i \in 1 .. r \/ i = r + 1
      BY <1>1, <1>4
    <2>2. texts' = texts /\ said = texts[r + 1]
      BY DEF r
    <2> QED
      BY <1>1, <1>4, <2>1, <2>2, Zenon
  <1> QED
    BY <1>2, <1>4, <1>5, <1>6, <1>7, Zenon DEF InOrder

\* A client's read keeps the stream in order.
LEMMA StreamRead ==
  ASSUME StreamInv, Stream!ReadFrame \/ Stream!ReadDraft76
  PROVE  StreamInv'
  <1>1. /\ protocol \in {"ver10", "draft76"} /\ texts \in Seq(Message)
        /\ whole \in BOOLEAN /\ (whole => InOrder)
    BY Zenon DEF StreamInv
  <1>2. protocol' = protocol /\ texts' = texts /\ whole' = whole
    BY Zenon DEF Stream!ReadFrame, Stream!ReadDraft76
  <1>3. ASSUME whole PROVE InOrder'
    <2>1. InOrder
      BY <1>1, <1>3, Zenon
    <2>2. Stream!FrameThere \/ Stream!Draft76There
      BY Zenon DEF Stream!ReadFrame, Stream!ReadDraft76
    <2>3. Len(received) < Len(texts)
      BY <1>1, <2>1, <2>2, AllRead, Zenon
    <2> DEFINE said == texts[Len(received) + 1]
               size == FrameBytes(protocol, Len(said))
    <2>4. /\ said \in Message /\ wire \in Seq(Nat)
          /\ Framed(protocol, wire, 0, said) /\ size <= Len(wire)
      BY <1>1, <2>1, <2>3, NextText, Zenon
    <2> HIDE DEF said
    <2>5. /\ received' = Append(received, said)
          /\ wire' = SubSeq(wire, size + 1, Len(wire))
      <3>1. CASE Stream!ReadFrame
        <4>1. protocol = "ver10"
          BY <3>1, Zenon DEF Stream!ReadFrame, Stream!FrameThere
        <4>2. /\ Stream!PayloadEnd = size
              /\ SubSeq(wire, Stream!PayloadStart, Stream!PayloadEnd) = said
          BY <2>4, <4>1, Version10Read, Zenon
        <4> QED
          BY <3>1, <4>2, Zenon DEF Stream!ReadFrame
      <3>2. CASE Stream!ReadDraft76
        <4> DEFINE last ==
                     Stream!SelectInSeq(wire, LAMBDA byte : byte = 255)
        <4>1. protocol = "draft76"
          BY <3>2, Zenon DEF Stream!ReadDraft76, Stream!Draft76There
        <4>2. last = size /\ SubSeq(wire, 2, last - 1) = said
          BY <2>4, <4>1, Draft76Read, Zenon
        <4>3. /\ received' = Append(received, SubSeq(wire, 2, last - 1))
              /\ wire' = SubSeq(wire, last + 1, Len(wire))
          BY <3>2, Zenon DEF Stream!ReadDraft76
        <4> QED
          BY <4>2, <4>3, Zenon
      <3> QED
        BY <3>1, <3>2
    <2> QED
      BY <1>1, <1>2, <2>1, <2>3, <2>5, Received, Zenon DEF said
  <1> QED
    BY <1>1, <1>2, <1>3, Zenon DEF StreamInv

\* Every step keeps the stream in order.
LEMMA StreamKept ==
  ASSUME StreamInv, [Stream!Next]_streamVars
  PROVE  StreamInv'
  <1>1. ASSUME UNCHANGED <<protocol, texts, wire, received, whole>>
        PROVE  StreamInv'
    <2>1. InOrder' <=> InOrder
      BY <1>1, Zenon DEF InOrder
    <2> QED
      BY <1>1, <2>1, Zenon DEF StreamInv
  <1>2. ASSUME NEW n \in HeardLengths, Stream!HandleRead(n)
        PROVE  UNCHANGED <<protocol, texts, wire, received, whole>>
    BY <1>2, Zenon DEF Stream!HandleRead
  <1>3. streamVars' = streamVars
          => UNCHANGED <<protocol, texts, wire, received, whole>>
    BY Zenon DEF streamVars
  <1> QED
    BY <1>1, <1>2, <1>3, StreamSend, StreamRead, Zenon DEF Stream!Next

\* A stream in order gives its reader what was sent.
LEMMA StreamIsIntact == StreamInv => Stream!StreamIntact
  <1> SUFFICES ASSUME StreamInv, whole
               PROVE  /\ Stream!IsPrefix(received, texts)
                      /\ ~Stream!FrameThere /\ ~Stream!Draft76There
                           => received = texts
    BY Zenon DEF Stream!StreamIntact
  <1>1. /\ protocol \in {"ver10", "draft76"} /\ texts \in Seq(Message)
        /\ InOrder
    BY Zenon DEF StreamInv
  <1>2. /\ received \in Seq(Message) /\ Len(received) <= Len(texts)
        /\ \A i \in 1 .. Len(received) : received[i] = texts[i]
    BY <1>1, Zenon DEF InOrder
  <1>3. Stream!IsPrefix(received, texts)
    <2>1. /\ SubSeq(received, 1, Len(received)) \in Seq(Message)
          /\ SubSeq(texts, 1, Len(received)) \in Seq(Message)
          /\ Len(SubSeq(received, 1, Len(received))) = Len(received)
          /\ Len(SubSeq(texts, 1, Len(received))) = Len(received)
      BY <1>1, <1>2
    <2>2. \A i \in 1 .. Len(received) :
            SubSeq(received, 1, Len(received))[i]
              = SubSeq(texts, 1, Len(received))[i]
      BY <1>1, <1>2
    <2>3. SubSeq(received, 1, Len(received))
            = SubSeq(texts, 1, Len(received))
      BY <2>1, <2>2, SameSequence, Zenon
    <2> QED
      BY <1>2, <2>3, Zenon DEF Stream!IsPrefix
  <1>4. ASSUME ~Stream!FrameThere, ~Stream!Draft76There
        PROVE  received = texts
    <2>1. CASE Len(received) < Len(texts)
      <3> DEFINE said == texts[Len(received) + 1]
      <3>1. /\ said \in Message /\ wire \in Seq(Nat)
            /\ Framed(protocol, wire, 0, said)
            /\ FrameBytes(protocol, Len(said)) <= Len(wire)
        BY <1>1, <2>1, NextText, Zenon
      <3> HIDE DEF said
      <3>2. CASE protocol = "ver10"
        BY <1>4, <3>1, <3>2, Version10Read, Zenon
      <3>3. CASE protocol = "draft76"
        BY <1>4, <3>1, <3>3, Draft76Read, Zenon
      <3> QED
        BY <1>1, <3>2, <3>3
    <2>2. CASE ~(Len(received) < Len(texts))
      BY <1>1, <2>2, AllRead
    <2> QED
      BY <2>1, <2>2
  <1> QED
    BY <1>3, <1>4, Zenon

-----------------------------------------------------------------------------
(* Base64 in buffers that need not be large enough.                        *)

\* The data are bytes; the text is their encoding, with a line's end in it or
\* not; and the last call keeps its promise.
BuffersInv ==
  /\ IsData(data)
  /\ text \in Seq(Nat)
  /\ call # Buffers!NoCall => call.result.dlen \in Nat
  /\ data # <<>> /\ text # <<>> =>
       \E p, h : Broken(Encoded(data), text, p, h)
  /\ Buffers!Base64Inverse

\* A buffer is of some size, also one that a call asked for.
LEMMA RoomsAreRooms ==
  ASSUME BuffersInv, NEW room \in Buffers!RoomsNow
  PROVE  room \in Nat
  <1>1. Rooms \subseteq Nat
    BY FormatsAssumption DEF FormatsAssumption
  <1> QED
    BY <1>1 DEF Buffers!RoomsNow, BuffersInv

\* Nothing is encoded at the start.
LEMMA BuffersStart == Buffers!Init => BuffersInv
  <1> SUFFICES ASSUME Buffers!Init PROVE BuffersInv
    OBVIOUS
  <1>1. PICK n \in 0 .. MaxBytes : data \in [1 .. n -> SourceBytes]
    BY DEF Buffers!Init
  <1>2. MaxBytes \in Nat /\ \A b \in SourceBytes : b \in Nat /\ IsByte(b)
    BY FormatsAssumption DEF FormatsAssumption, IsByte
  <1>3. n \in Nat
    BY <1>2
  <1>4. data \in Seq(Nat) /\ Len(data) = n
    BY <1>1, <1>2, <1>3
  <1>5. IsData(data)
    BY <1>1, <1>2, <1>4, Zenon DEF IsData
  <1>6. text = <<>> /\ call = Buffers!NoCall
    BY DEF Buffers!Init
  <1>7. text \in Seq(Nat)
    BY <1>6
  <1> QED
    BY <1>5, <1>6, <1>7, Zenon DEF BuffersInv, Buffers!Base64Inverse

\* What a call's record says of it.
Records(c, function, room, src, result) ==
  c.function = function /\ c.room = room /\ c.src = src /\ c.result = result

\* It says what it was made of.
LEMMA CalledParts ==
  ASSUME NEW function, NEW room, NEW src, NEW result
  PROVE  Records(Buffers!Called(function, room, src, result),
                 function, room, src, result)
  BY DEF Buffers!Called, Records

\* base64_encode is called.
LEMMA EncodeKept ==
  ASSUME BuffersInv, NEW room \in Buffers!RoomsNow, Buffers!CallEncode(room)
  PROVE  BuffersInv'
  <1> DEFINE result == Encode(data, room)
  <1>1. room \in Nat /\ IsData(data)
    BY RoomsAreRooms DEF BuffersInv
  <1>2. call' = Buffers!Called("encode", room, data, result)
        /\ text' = Text(result) /\ data' = data
    BY Zenon DEF Buffers!CallEncode, Text
  <1>3. /\ Fits(result, room)
        /\ result.rc = "too_small" => Encode(data, result.dlen).rc = "ok"
        /\ Text(result) = <<>>
             \/ (data # <<>> /\ Text(result) = Encoded(data))
    <2>1. Encodes(data, room, result)
      BY <1>1, EncodeCalled, Zenon
    <2> QED
      BY <2>1, Zenon DEF Encodes
  <1> HIDE DEF result
  <1>4. call'.function = "encode" /\ call'.room = room /\ call'.src = data
        /\ call'.result = result
    <2> DEFINE c == Buffers!Called("encode", room, data, result)
    <2>1. Records(c, "encode", room, data, result)
      BY CalledParts, Zenon
    <2>2. call' = c
      BY <1>2, Zenon
    <2> HIDE DEF c
    <2> QED
      BY <2>1, <2>2, Zenon DEF Records
  <1>5. Encoded(data) \in Seq(Nat)
    BY <1>1, EncodedParts, Zenon
  <1>6. text' \in Seq(Nat)
    <2>1. <<>> \in Seq(Nat)
      OBVIOUS
    <2> QED
      BY <1>2, <1>3, <1>5, <2>1, Zenon
  <1>7. text' # <<>> => \E p, h : Broken(Encoded(data'), text', p, h)
    BY <1>2, <1>3, <1>5, Unbroken, Zenon
  <1>8. Buffers!Base64Inverse'
    <2>1. /\ Len(call'.result.written) <= call'.room
          /\ call'.result.rc = "too_small" =>
               Encode(call'.src, call'.result.dlen).rc = "ok"
      BY <1>3, <1>4, Zenon DEF Fits
    <2>2. call'.function # "decode" /\ call'.function = "encode"
      BY <1>4
    <2> QED
      BY <2>1, <2>2, Zenon DEF Buffers!Base64Inverse
  <1>9. call'.result.dlen \in Nat
    BY <1>3, <1>4, Zenon DEF Fits
  <1> QED
    BY <1>1, <1>2, <1>6, <1>7, <1>8, <1>9, Zenon DEF BuffersInv

\* base64_decode is called.
LEMMA DecodeKept ==
  ASSUME BuffersInv, NEW room \in Buffers!RoomsNow, Buffers!CallDecode(room)
  PROVE  BuffersInv'
  <1> DEFINE result == Decode(text, room)
  <1>1. room \in Nat /\ IsData(data) /\ text \in Seq(Nat)
    BY RoomsAreRooms DEF BuffersInv
  <1>2. call' = Buffers!Called("decode", room, text, result)
        /\ text' = text /\ data' = data /\ text # <<>>
    BY Zenon DEF Buffers!CallDecode
  <1>3. /\ Fits(result, room)
        /\ result.rc = "too_small" => Decode(text, result.dlen).rc = "ok"
    <2>1. Decodes(text, room, result)
      BY <1>1, DecodeCalled, Zenon
    <2> QED
      BY <2>1, Zenon DEF Decodes
  <1>4. data # <<>> =>
          result.rc = "too_small"
            \/ (result.rc = "ok" /\ result.written = data)
    BY <1>1, <1>2, ComesBack, Zenon DEF BuffersInv
  <1> HIDE DEF result
  <1>5. call'.function = "decode" /\ call'.room = room /\ call'.src = text
        /\ call'.result = result
    <2> DEFINE c == Buffers!Called("decode", room, text, result)
    <2>1. Records(c, "decode", room, text, result)
      BY CalledParts, Zenon
    <2>2. call' = c
      BY <1>2, Zenon
    <2> HIDE DEF c
    <2> QED
      BY <2>1, <2>2, Zenon DEF Records
  <1>6. Buffers!Base64Inverse'
    <2>1. /\ Len(call'.result.written) <= call'.room
          /\ call'.result.rc = "too_small" =>
               Decode(call'.src, call'.result.dlen).rc = "ok"
          /\ data' # <<>> =>
               call'.result.rc = "too_small"
                 \/ (call'.result.rc = "ok" /\ call'.result.written = data')
      BY <1>2, <1>3, <1>4, <1>5, Zenon DEF Fits
    <2>2. call'.function # "encode"
      BY <1>5
    <2> QED
      BY <2>1, <2>2, Zenon DEF Buffers!Base64Inverse
  <1>7. call'.result.dlen \in Nat
    BY <1>3, <1>5, Zenon DEF Fits
  <1>8. data' # <<>> /\ text' # <<>> =>
          \E p, h : Broken(Encoded(data'), text', p, h)
    BY <1>2, Zenon DEF BuffersInv
  <1> QED
    BY <1>1, <1>2, <1>6, <1>7, <1>8, Zenon DEF BuffersInv

\* A text without a line's end is not broken.
LEMMA NotBroken ==
  ASSUME NEW s, NEW t, NEW p, NEW h, Broken(s, t, p, h),
         \A k \in 1 .. Len(t) : t[k] # 10
  PROVE  t = s
  <1>1. /\ s \in Seq(Nat) /\ t \in Seq(Nat) /\ Len(s) \in Nat
        /\ p \in 1 .. Len(s) /\ h \in Nat /\ Len(t) = Len(s) + h
    BY DEF Broken
  <1>2. h = 0
    <2> SUFFICES ASSUME h # 0 PROVE FALSE
      OBVIOUS
    <2>1. p + 1 \in p + 1 .. p + h /\ p + 1 \in 1 .. Len(t)
      BY <1>1
    <2>2. IsBreak(t, p + 1)
      BY <2>1, Zenon DEF Broken
    <2>3. p + 1 < Len(t) => (p + 1) + 1 \in 1 .. Len(t)
      BY <1>1
    <2> QED
      BY <2>1, <2>2, <2>3 DEF IsBreak
  <1>3. \A i \in 1 .. Len(t) : t[i] = s[i]
    <2> TAKE i \in 1 .. Len(t)
    <2>1. CASE i <= p
      <3>1. i \in 1 .. p
        BY <1>1, <2>1
      <3> QED
        BY <3>1 DEF Broken
    <2>2. CASE ~(i <= p)
      <3>1. i \in p + 1 .. Len(s) /\ i + h = i
        BY <1>1, <1>2, <2>2
      <3>2. t[i + h] = s[i]
        BY <3>1 DEF Broken
      <3> QED
        BY <3>1, <3>2
    <2> QED
      BY <2>1, <2>2
  <1>4. Len(t) = Len(s)
    BY <1>1, <1>2
  <1> QED
    BY <1>1, <1>3, <1>4, SameSequence, Zenon

\* A line's end is put into the text, which had none.
LEMMA BreakKept ==
  ASSUME BuffersInv, NEW i \in DOMAIN text, NEW end \in LineEnds,
         Buffers!BreakLine(i, end)
  PROVE  BuffersInv'
  <1>1. text \in Seq(Nat) /\ DOMAIN text = 1 .. Len(text)
    BY DEF BuffersInv
  <1>2. text' = Spliced(text, i, end) /\ data' = data /\ call' = call
    BY Zenon DEF Buffers!BreakLine, Spliced
  <1>3. PICK h \in 1 .. 2 : Broken(text, text', i, h)
    BY <1>1, <1>2, BreakBreaks, Zenon
  <1>4. text' \in Seq(Nat)
    BY <1>3, Zenon DEF Broken
  <1>5. ASSUME data # <<>>
        PROVE  \E p, k : Broken(Encoded(data'), text', p, k)
    <2>1. text # <<>> /\ \A k \in 1 .. Len(text) : text[k] # 10
      BY <1>1, Zenon DEF Buffers!BreakLine
    <2>2. text = Encoded(data)
      BY <1>5, <2>1, NotBroken, Zenon DEF BuffersInv
    <2> QED
      BY <1>2, <1>3, <2>2, Zenon
  <1>6. Buffers!Base64Inverse'
    BY <1>2, Zenon DEF BuffersInv, Buffers!Base64Inverse
  <1> QED
    BY <1>2, <1>4, <1>5, <1>6, Zenon DEF BuffersInv

\* A text that is garbled is no longer that of the data.
LEMMA GarbleKept ==
  ASSUME BuffersInv, NEW i \in DOMAIN text, Buffers!Garble(i)
  PROVE  BuffersInv'
  <1>1. text \in Seq(Nat) /\ i \in 1 .. Len(text)
    BY DEF BuffersInv
  <1>2. data' = <<>> /\ call' = Buffers!NoCall
    BY Zenon DEF Buffers!Garble
  <1>3. text' \in Seq(Nat)
    <2> DEFINE a == SubSeq(text, 1, i)
               b == [text EXCEPT ![i] = 61]
               c == [text EXCEPT ![i] = 200]
    <2>1. a \in Seq(Nat)
      BY <1>1
    <2>2. b \in Seq(Nat)
      BY <1>1
    <2>3. c \in Seq(Nat)
      BY <1>1
    <2>4. text' = a \/ text' = b \/ text' = c
      BY ZenonT(40) DEF Buffers!Garble
    <2> HIDE DEF a, b, c
    <2> QED
      BY <2>1, <2>2, <2>3, <2>4, Zenon
  <1>4. IsData(<<>>)
    BY DEF IsData
  <1> QED
    BY <1>2, <1>3, <1>4, Zenon DEF BuffersInv, Buffers!Base64Inverse

\* Every step keeps all of it.
LEMMA BuffersKept == BuffersInv /\ [Buffers!Next]_bufferVars => BuffersInv'
  <1> SUFFICES ASSUME BuffersInv, [Buffers!Next]_bufferVars PROVE BuffersInv'
    OBVIOUS
  <1>1. ASSUME NEW room \in Buffers!RoomsNow, Buffers!CallEncode(room)
        PROVE  BuffersInv'
    BY <1>1, EncodeKept
  <1>2. ASSUME NEW room \in Buffers!RoomsNow, Buffers!CallDecode(room)
        PROVE  BuffersInv'
    BY <1>2, DecodeKept
  <1>3. ASSUME NEW i \in DOMAIN text, NEW end \in LineEnds,
               Buffers!BreakLine(i, end)
        PROVE  BuffersInv'
    BY <1>3, BreakKept
  <1>4. ASSUME NEW i \in DOMAIN text, Buffers!Garble(i)
        PROVE  BuffersInv'
    BY <1>4, GarbleKept
  <1>5. CASE UNCHANGED bufferVars
    BY <1>5, Zenon DEF bufferVars, BuffersInv, Buffers!Base64Inverse
  <1>6. CASE Buffers!Next
    BY <1>1, <1>2, <1>3, <1>4, <1>6, Zenon DEF Buffers!Next, LineEnds
  <1> QED
    BY <1>5, <1>6

-----------------------------------------------------------------------------
(* The pixels on their way through Base64.                                *)

\* Of six bytes or more, base64_encode's text fits a buffer of twice the bytes.
LEMMA TwiceIsEnough ==
  ASSUME NEW n \in Nat, 6 <= n
  PROVE  EncodedSize(n) \in Nat /\ ~(2 * n < EncodedSize(n) + 1)
  <1> DEFINE m == Quartets(n)
  <1>1. m \in Nat /\ 3 * m <= n + 2 /\ EncodedSize(n) = 4 * m
    BY QuartetCount, Zenon
  <1> HIDE DEF m
  <1> QED
    BY <1>1

\* The characters of a text that are no line breaks are at most all of them.
LEMMA CountedIs ==
  ASSUME NEW t \in Seq(Nat)
  PROVE  /\ Cardinality({i \in DOMAIN t : ~IsBreak(t, i)}) \in Nat
         /\ Cardinality({i \in DOMAIN t : ~IsBreak(t, i)}) <= Len(t)
  <1> DEFINE Elem == {i \in DOMAIN t : ~IsBreak(t, i)}
             h == Len(t)
  <1>1. Elem \subseteq 1 .. h /\ h \in Nat
    OBVIOUS
  <1> HIDE DEF Elem, h
  <1>2. /\ 1 \in Int /\ h \in Int
        /\ (IF 1 > h THEN 0 ELSE h - 1 + 1) = h
    BY <1>1
  <1>3. IsFiniteSet(1 .. h) /\ Cardinality(1 .. h) = h
    BY <1>2, FS_Interval
  <1>4. IsFiniteSet(Elem) /\ Cardinality(Elem) <= Cardinality(1 .. h)
    BY <1>1, <1>3, FS_Subset
  <1>5. Cardinality(Elem) \in Nat
    BY <1>4, FS_CardinalityType
  <1> QED
    BY <1>3, <1>4, <1>5, Zenon DEF Elem, h

\* And a buffer of as many bytes as the text has is large enough to decode it.
LEMMA AsManyAreEnough ==
  ASSUME NEW t \in Seq(Nat)
  PROVE  Decode(t, Len(t)).rc # "too_small"
  <1> DEFINE Elem == {i \in DOMAIN t : ~IsBreak(t, i)}
             n == Cardinality(Elem)
             size == DecodedSize(n)
             out == Decoded(Kept(t))
  <1>1. n \in Nat /\ n <= Len(t) /\ Len(t) \in Nat
    BY CountedIs
  <1>2. Decode(t, Len(t)) =
          CASE Invalid(t) ->
                 [rc |-> "invalid", dlen |-> Len(t), written |-> <<>>]
            [] ~Invalid(t) /\ n = 0 ->
                 [rc |-> "ok", dlen |-> Len(t), written |-> <<>>]
            [] ~Invalid(t) /\ n > 0 /\ Len(t) < size ->
                 [rc |-> "too_small", dlen |-> size, written |-> <<>>]
            [] OTHER -> [rc |-> "ok", dlen |-> Len(out), written |-> out]
    BY Zenon DEF Decode
  <1> HIDE DEF n
  <1>3. ~(Len(t) < size)
    BY <1>1 DEF DecodedSize
  <1> HIDE DEF size, out
  <1>4. CASE Invalid(t)
    BY <1>2, <1>4
  <1>5. CASE ~Invalid(t) /\ n = 0
    BY <1>2, <1>5
  <1>6. CASE ~Invalid(t) /\ ~(n = 0)
    <2>1. Decode(t, Len(t))
            = [rc |-> "ok", dlen |-> Len(out), written |-> out]
      BY <1>1, <1>2, <1>3, <1>6
    <2> QED
      BY <2>1
  <1> QED
    BY <1>4, <1>5, <1>6

\* So six bytes or more come through base64_encode and back.
LEMMA Transfers ==
  ASSUME NEW src, IsData(src), 6 <= Len(src), NEW c,
         c = Images!Characters(src)
  PROVE  Decode(c, Len(c)).written = src
  <1> DEFINE n == Len(src)
             out == Encoded(src)
             size == EncodedSize(n)
  <1>1. n \in Nat /\ ~(n = 0) /\ ~(2 * n < size + 1) /\ size \in Nat
    BY TwiceIsEnough DEF IsData
  <1>2. out \in Seq(Nat) /\ out # <<>>
    <2> DEFINE m == Quartets(n)
    <2>1. m \in Nat /\ n <= 3 * m
      BY <1>1, QuartetCount, Zenon
    <2>2. out \in Seq(Nat) /\ Len(out) = 4 * m
      BY EncodedParts, Zenon
    <2> HIDE DEF m, out
    <2> QED
      BY <1>1, <2>1, <2>2
  <1>3. Encode(src, 2 * n) =
          IF n = 0 THEN [rc |-> "ok", dlen |-> 2 * n, written |-> <<>>]
          ELSE IF 2 * n < size + 1
                 THEN [rc |-> "too_small", dlen |-> size + 1,
                       written |-> <<>>]
                 ELSE [rc |-> "ok", dlen |-> Len(out),
                       written |-> out \o <<0>>]
    BY Zenon DEF Encode
  <1> DEFINE r == Encode(src, 2 * n)
             w == out \o <<0>>
  <1>4. c = SubSeq(r.written, 1, r.dlen)
    BY Zenon DEF Images!Characters
  <1> HIDE DEF n, out, size
  <1>5. r.dlen = Len(out) /\ r.written = w
    BY <1>1, <1>3
  <1>6. w \in Seq(Nat) /\ Len(w) = Len(out) + 1 /\ Len(out) \in Nat
        /\ \A i \in 1 .. Len(out) : w[i] = out[i]
    BY <1>2
  <1> HIDE DEF w, r
  <1>7. c = out
    <2> DEFINE v == SubSeq(w, 1, Len(out))
    <2>1. v \in Seq(Nat) /\ Len(v) = Len(out)
          /\ \A i \in 1 .. Len(out) : v[i] = w[i]
      BY <1>6
    <2>2. \A i \in 1 .. Len(v) : v[i] = out[i]
      BY <1>6, <2>1
    <2> HIDE DEF v
    <2>3. v = out
      BY <1>2, <2>1, <2>2, SameSequence, Zenon
    <2> QED
      BY <1>4, <1>5, <2>3, Zenon DEF v
  <1>8. Broken(Encoded(src), out, Len(out), 0)
    BY <1>2, Unbroken, Zenon DEF out
  <1>9. Decode(out, Len(out)).rc # "too_small"
    BY <1>2, AsManyAreEnough, Zenon
  <1>10. Decode(out, Len(out)).written = src
    <2>1. \E p, h : Broken(Encoded(src), out, p, h)
      BY <1>8, Zenon
    <2> DEFINE k == Len(out)
    <2>2. k \in Nat
      BY <1>6
    <2> HIDE DEF k
    <2>3. \/ Decode(out, k).rc = "too_small"
          \/ Decode(out, k).rc = "ok" /\ Decode(out, k).written = src
      BY <2>1, <2>2, ComesBack, Zenon
    <2> QED
      BY <1>9, <2>3, Zenon DEF k
  <1> QED
    BY <1>7, <1>10, Zenon

\* Two elements of a sequence, one after the other.
LEMMA TwoFrom ==
  ASSUME NEW s \in Seq(Nat), NEW k \in Nat, k + 2 <= Len(s)
  PROVE  SubSeq(s, k + 1, k + 2) = <<s[k + 1], s[k + 2]>>
  <1> DEFINE u == SubSeq(s, k + 1, k + 2)
             v == <<s[k + 1], s[k + 2]>>
  <1>1. u \in Seq(Nat) /\ Len(u) = 2 /\ \A i \in 1 .. 2 : u[i] = s[k + i]
    <2> DEFINE m == k + 1
               l == k + 2
    <2>1. /\ m \in Int /\ l \in Int /\ m <= l /\ (l - m) + 1 = 2
          /\ \A i \in m .. l : s[i] \in Nat
          /\ \A i \in 1 .. 2 : (m + i) - 1 = k + i
      OBVIOUS
    <2> HIDE DEF m, l
    <2> QED
      BY <2>1, SubSeqProperties DEF u
  <1>2. v \in Seq(Nat) /\ Len(v) = 2 /\ v[1] = s[k + 1] /\ v[2] = s[k + 2]
    OBVIOUS
  <1> HIDE DEF u, v
  <1>3. \A i \in 1 .. Len(u) : u[i] = v[i]
    <2>1. \A i \in 1 .. 2 : i = 1 \/ i = 2
      OBVIOUS
    <2> QED
      BY <1>1, <1>2, <2>1, Zenon
  <1>4. u = v
    BY <1>1, <1>2, <1>3, SameSequence, Zenon
  <1> QED
    BY <1>4, Zenon DEF u, v

\* The same of three.
LEMMA ThreeFrom ==
  ASSUME NEW s \in Seq(Nat), NEW k \in Nat, k + 3 <= Len(s)
  PROVE  SubSeq(s, k + 1, k + 3) = <<s[k + 1], s[k + 2], s[k + 3]>>
  <1> DEFINE u == SubSeq(s, k + 1, k + 3)
             v == <<s[k + 1], s[k + 2], s[k + 3]>>
  <1>1. u \in Seq(Nat) /\ Len(u) = 3 /\ \A i \in 1 .. 3 : u[i] = s[k + i]
    <2> DEFINE m == k + 1
               l == k + 3
    <2>1. /\ m \in Int /\ l \in Int /\ m <= l /\ (l - m) + 1 = 3
          /\ \A i \in m .. l : s[i] \in Nat
          /\ \A i \in 1 .. 3 : (m + i) - 1 = k + i
      OBVIOUS
    <2> HIDE DEF m, l
    <2> QED
      BY <2>1, SubSeqProperties DEF u
  <1>2. v \in Seq(Nat) /\ Len(v) = 3
        /\ v[1] = s[k + 1] /\ v[2] = s[k + 2] /\ v[3] = s[k + 3]
    OBVIOUS
  <1> HIDE DEF u, v
  <1>3. \A i \in 1 .. Len(u) : u[i] = v[i]
    <2>1. \A i \in 1 .. 3 : i = 1 \/ i = 2 \/ i = 3
      OBVIOUS
    <2> QED
      BY <1>1, <1>2, <2>1, Zenon
  <1>4. u = v
    BY <1>1, <1>2, <1>3, SameSequence, Zenon
  <1> QED
    BY <1>4, Zenon DEF u, v

\* The number of pixels.
LEMMA PixelCount ==
  ASSUME NEW size, size = Wid * Hei
  PROVE  /\ size \in Nat /\ size > 2 /\ Images!Pixels = 0 .. size - 1
         /\ Images!Cardinality(Images!Pixels) = size
         /\ 2 * Wid * Hei = 2 * size /\ 3 * Wid * Hei = 3 * size
  <1>1. size \in Nat /\ size > 2
        /\ 2 * Wid * Hei = 2 * size /\ 3 * Wid * Hei = 3 * size
    BY FormatsAssumption DEF FormatsAssumption
  <1>2. Images!Pixels = 0 .. size - 1
    BY DEF Images!Pixels
  <1>3. Cardinality(0 .. size - 1) = size
    <2>1. 0 \in Int /\ size - 1 \in Int
          /\ (IF 0 > size - 1 THEN 0 ELSE (size - 1) - 0 + 1) = size
      BY <1>1
    <2> QED
      BY <2>1, FS_Interval
  <1> QED
    BY <1>1, <1>2, <1>3, ImagesCardinality, Zenon

\* The bytes of the frame with red and blue exchanged.
LEMMA ColourBytes ==
  ASSUME FrameOK, NEW b, b = Images!BGR2RGB(rgb24)
  PROVE  /\ IsData(b) /\ Len(b) = Len(rgb24) /\ 6 <= Len(b)
         /\ \A n \in Images!Pixels :
              SubSeq(b, (3 * n) + 1, (3 * n) + 3)
                = <<rgb24[(3 * n) + 3], rgb24[(3 * n) + 2],
                    rgb24[(3 * n) + 1]>>
  <1> DEFINE size == Wid * Hei
             m == 3 * size
  <1>1. size \in Nat /\ size > 2 /\ Images!Pixels = 0 .. size - 1
        /\ 3 * Wid * Hei = m
    BY PixelCount
  <1> HIDE DEF size
  <1>2. rgb24 \in [1 .. m -> Stream!Byte]
    BY <1>1, Zenon DEF FrameOK
  <1>3. DOMAIN rgb24 = 1 .. m /\ \A i \in 1 .. m : rgb24[i] \in Stream!Byte
    BY <1>2
  <1>4. DOMAIN b = 1 .. m
    BY <1>3, Zenon DEF Images!BGR2RGB
  <1>5. \A i \in 1 .. m :
          b[i] = CASE i % 3 = 1 -> rgb24[i + 2] [] i % 3 = 2 -> rgb24[i]
                   [] OTHER -> rgb24[i - 2]
    BY <1>3, Zenon DEF Images!BGR2RGB
  <1>6. ASSUME NEW n \in 0 .. size - 1
        PROVE  /\ (3 * n) + 1 \in 1 .. m /\ (3 * n) + 2 \in 1 .. m
               /\ (3 * n) + 3 \in 1 .. m
               /\ b[(3 * n) + 1] = rgb24[(3 * n) + 3]
               /\ b[(3 * n) + 2] = rgb24[(3 * n) + 2]
               /\ b[(3 * n) + 3] = rgb24[(3 * n) + 1]
    <2> DEFINE i == (3 * n) + 1
               j == (3 * n) + 2
               k == (3 * n) + 3
    <2>1. /\ i \in 1 .. m /\ i % 3 = 1 /\ i + 2 = k
          /\ j \in 1 .. m /\ j % 3 = 2 /\ ~(j % 3 = 1)
          /\ k \in 1 .. m /\ ~(k % 3 = 1) /\ ~(k % 3 = 2) /\ k - 2 = i
      BY <1>1
    <2> HIDE DEF i, j, k, m
    <2>2. b[i] = rgb24[k]
      <3>1. b[i] = rgb24[i + 2]
        BY <1>5, <2>1, Zenon
      <3> QED
        BY <2>1, <3>1, Zenon
    <2>3. b[j] = rgb24[j]
      BY <1>5, <2>1, Zenon
    <2>4. b[k] = rgb24[i]
      <3>1. b[k] = rgb24[k - 2]
        BY <1>5, <2>1, Zenon
      <3> QED
        BY <2>1, <3>1, Zenon
    <2> QED
      BY <2>1, <2>2, <2>3, <2>4, Zenon DEF i, j, k
  <1>7. \A i \in 1 .. m : b[i] \in Nat /\ IsByte(b[i])
    <2> TAKE i \in 1 .. m
    <2> DEFINE n == (i - 1) \div 3
    <2>1. n \in 0 .. size - 1
          /\ (i = (3 * n) + 1 \/ i = (3 * n) + 2 \/ i = (3 * n) + 3)
      BY <1>1
    <2> HIDE DEF n, m
    <2>2. b[i] \in Stream!Byte
      BY <1>3, <1>6, <2>1, Zenon
    <2> QED
      BY <2>2, ByteRange, Zenon DEF IsByte
  <1>8. b \in Seq(Nat) /\ Len(b) = m /\ Len(rgb24) = m /\ 6 <= m
    <2>1. m \in Nat /\ 6 <= m
      BY <1>1
    <2> DEFINE f(i) == CASE i % 3 = 1 -> rgb24[i + 2]
                         [] i % 3 = 2 -> rgb24[i]
                         [] OTHER -> rgb24[i - 2]
    <2>2. b = [i \in 1 .. m |-> f(i)]
      BY <1>3, Zenon DEF Images!BGR2RGB
    <2> HIDE DEF f, m
    <2>3. b \in [1 .. m -> Nat]
      <3>1. \A i \in 1 .. m : f(i) \in Nat
        BY <1>7, <2>2
      <3> QED
        BY <2>2, <3>1
    <2>4. b \in Seq(Nat) /\ Len(b) = m
      BY <2>1, <2>3
    <2>5. Len(rgb24) = m
      BY <1>2, <2>1
    <2> QED
      BY <2>1, <2>4, <2>5
  <1>9. IsData(b)
    BY <1>7, <1>8, Zenon DEF IsData
  <1>10. ASSUME NEW n \in 0 .. size - 1
         PROVE  SubSeq(b, (3 * n) + 1, (3 * n) + 3)
                  = <<rgb24[(3 * n) + 3], rgb24[(3 * n) + 2],
                      rgb24[(3 * n) + 1]>>
    <2>1. b \in Seq(Nat)
      BY <1>8
    <2>2. 3 * n \in Nat /\ (3 * n) + 3 <= Len(b)
      BY <1>1, <1>6, <1>8
    <2>3. SubSeq(b, (3 * n) + 1, (3 * n) + 3)
            = <<b[(3 * n) + 1], b[(3 * n) + 2], b[(3 * n) + 3]>>
      BY <2>1, <2>2, ThreeFrom, Zenon
    <2> QED
      BY <1>6, <2>3, Zenon
  <1> QED
    BY <1>1, <1>8, <1>9, <1>10, Zenon

\* The bytes of the depths: the low one, and 0 for the high one.
LEMMA BytesOfDepth ==
  ASSUME NEW d \in Nat
  PROVE  /\ d % 256 \in Nat /\ IsByte(d % 256)
         /\ (d - (d % 256)) % 256 = 0
  BY DEF IsByte

\* getDepthImageData's bytes, row after row.
LEMMA DepthBytesAre ==
  ASSUME FrameOK, NEW b, b = Images!DepthBytes
  PROVE  /\ IsData(b) /\ Len(b) = 2 * Images!Cardinality(Images!Pixels)
         /\ 6 <= Len(b)
         /\ \A n \in Images!Pixels :
              SubSeq(b, (2 * n) + 1, (2 * n) + 2) = <<depthMD[n] % 256, 0>>
  <1> DEFINE size == Wid * Hei
             m == 2 * size
             low(n) == depthMD[n] % 256
  <1>1. size \in Nat /\ size > 2 /\ Images!Pixels = 0 .. size - 1
        /\ 2 * Wid * Hei = m /\ Images!Cardinality(Images!Pixels) = size
    BY PixelCount
  <1>2. \A n \in Int : ((n \div Wid) * Wid) + (n % Wid) = n
    BY FormatFacts
  <1> HIDE DEF size
  <1>3. \A n \in 0 .. size - 1 : depthMD[n] \in Nat
    <2>1. MaxDepth \in Nat
      BY FormatsAssumption DEF FormatsAssumption
    <2> QED
      BY <1>1, <2>1, DepthsAreDepths
  <1>4. \A n \in Int : Images!Depth(n % Wid, n \div Wid) = depthMD[n]
    BY <1>2, Zenon DEF Images!Depth
  <1> DEFINE f(i) ==
        LET depth == Images!Depth(((i - 1) \div 2) % Wid,
                                  ((i - 1) \div 2) \div Wid)
        IN  IF i % 2 = 1 THEN depth % 256 ELSE (depth - (depth % 256)) % 256
  <1>5. b = [i \in 1 .. m |-> f(i)]
    BY <1>1, Zenon DEF Images!DepthBytes
  <1>6. ASSUME NEW n \in 0 .. size - 1
        PROVE  /\ (2 * n) + 1 \in 1 .. m /\ (2 * n) + 2 \in 1 .. m
               /\ f((2 * n) + 1) = low(n) /\ f((2 * n) + 2) = 0
    <2> DEFINE i == (2 * n) + 1
               j == (2 * n) + 2
    <2>1. /\ i \in 1 .. m /\ i % 2 = 1 /\ (i - 1) \div 2 = n
          /\ j \in 1 .. m /\ ~(j % 2 = 1) /\ (j - 1) \div 2 = n
          /\ n \in Int
      BY <1>1
    <2> HIDE DEF i, j, m
    <2>2. Images!Depth(n % Wid, n \div Wid) = depthMD[n]
      BY <1>4, <2>1
    <2>3. f(i) = low(n)
      BY <2>1, <2>2, Zenon
    <2>4. f(j) = (depthMD[n] - low(n)) % 256
      BY <2>1, <2>2
    <2>5. (depthMD[n] - low(n)) % 256 = 0
      BY <1>3, BytesOfDepth
    <2> HIDE DEF f, low
    <2> QED
      BY <2>1, <2>3, <2>4, <2>5, Zenon DEF i, j
  <1>7. \A n \in 0 .. size - 1 : low(n) \in Nat /\ IsByte(low(n))
    <2> TAKE n \in 0 .. size - 1
    <2> QED
      BY <1>3, BytesOfDepth
  <1> HIDE DEF f, low
  <1>8. \A i \in 1 .. m : f(i) \in Nat /\ IsByte(f(i))
    <2> TAKE i \in 1 .. m
    <2> DEFINE n == (i - 1) \div 2
    <2>1. n \in 0 .. size - 1 /\ (i = (2 * n) + 1 \/ i = (2 * n) + 2)
      BY <1>1
    <2> HIDE DEF n, m
    <2>2. f(i) = low(n) \/ f(i) = 0
      BY <1>6, <2>1, Zenon
    <2>3. 0 \in Nat /\ IsByte(0)
      BY DEF IsByte
    <2> QED
      BY <1>7, <2>1, <2>2, <2>3, Zenon
  <1>9. b \in Seq(Nat) /\ Len(b) = m /\ 6 <= m
        /\ \A i \in 1 .. m : b[i] = f(i)
    <2>1. m \in Nat /\ 6 <= m
      BY <1>1
    <2> HIDE DEF m
    <2>2. \A i \in 1 .. m : f(i) \in Nat
      BY <1>8, Zenon
    <2>3. b \in [1 .. m -> Nat] /\ \A i \in 1 .. m : b[i] = f(i)
      BY <1>5, <2>2
    <2> QED
      BY <2>1, <2>3
  <1>10. IsData(b)
    BY <1>8, <1>9, Zenon DEF IsData
  <1>11. ASSUME NEW n \in 0 .. size - 1
         PROVE  SubSeq(b, (2 * n) + 1, (2 * n) + 2) = <<low(n), 0>>
    <2>1. b \in Seq(Nat) /\ 2 * n \in Nat /\ (2 * n) + 2 <= Len(b)
      BY <1>1, <1>6, <1>9
    <2>2. SubSeq(b, (2 * n) + 1, (2 * n) + 2)
            = <<b[(2 * n) + 1], b[(2 * n) + 2]>>
      BY <2>1, TwoFrom, Zenon
    <2> QED
      BY <1>6, <1>9, <2>2, Zenon
  <1> QED
    BY <1>1, <1>9, <1>10, <1>11, Zenon DEF low

\* Every pixel is at its place in what a client decodes.
LEMMA PixelsDoArrive == ImagesInv => Images!PixelsArrive
  <1> SUFFICES ASSUME ImagesInv PROVE Images!PixelsArrive
    OBVIOUS
  <1>1. FrameOK /\ Answers
    BY DEF ImagesInv
  <1>2. ASSUME NEW x \in 0 .. Wid - 1, NEW y \in 0 .. Hei - 1
        PROVE  /\ (y * Wid) + x \in Images!Pixels
               /\ ((y * Wid) + x) % Wid = x
               /\ ((y * Wid) + x) \div Wid = y
               /\ Images!Depth(x, y) = depthMD[(y * Wid) + x]
    BY <1>2, PixelPlace, Zenon DEF Images!Depth
  <1>3. ASSUME answer.of = "getDepth", answer.x < Wid, answer.y < Hei
        PROVE  answer.value = IF Images!Depth(answer.x, answer.y) = 0
                              THEN 1000
                              ELSE Images!Depth(answer.x, answer.y)
    BY <1>1, <1>3, Zenon DEF Answers, DepthAnswer, Images!Depth
  <1>4. ASSUME answer.of = "getDepthImageData"
        PROVE  /\ Len(Images!Arrived) = 2 * Images!Cardinality(Images!Pixels)
               /\ \A x \in 0 .. Wid - 1, y \in 0 .. Hei - 1 :
                    SubSeq(Images!Arrived, (2 * ((y * Wid) + x)) + 1,
                                           (2 * ((y * Wid) + x)) + 2)
                      = <<Images!Depth(x, y) % 256, 0>>
    <2> DEFINE b == Images!DepthBytes
    <2>1. /\ IsData(b) /\ Len(b) = 2 * Images!Cardinality(Images!Pixels)
          /\ 6 <= Len(b)
          /\ \A n \in Images!Pixels :
               SubSeq(b, (2 * n) + 1, (2 * n) + 2) = <<depthMD[n] % 256, 0>>
      BY <1>1, DepthBytesAre, Zenon
    <2>2. answer.pixels = Images!Characters(b)
      BY <1>1, <1>4, Zenon DEF Answers, DepthDataAnswer
    <2>3. "getDepthImageData" # "getRgbBinary"
      OBVIOUS
    <2> HIDE DEF b
    <2>4. Images!Arrived = b
      BY <1>4, <2>1, <2>2, <2>3, Transfers, Zenon DEF Images!Arrived
    <2>5. Len(Images!Arrived) = 2 * Images!Cardinality(Images!Pixels)
      BY <2>1, <2>4, Zenon
    <2>6. ASSUME NEW x \in 0 .. Wid - 1, NEW y \in 0 .. Hei - 1
          PROVE  SubSeq(Images!Arrived, (2 * ((y * Wid) + x)) + 1,
                                        (2 * ((y * Wid) + x)) + 2)
                   = <<Images!Depth(x, y) % 256, 0>>
      <3> DEFINE n == (y * Wid) + x
      <3>1. n \in Images!Pixels /\ Images!Depth(x, y) = depthMD[n]
        BY <1>2
      <3> HIDE DEF n
      <3>2. SubSeq(b, (2 * n) + 1, (2 * n) + 2) = <<depthMD[n] % 256, 0>>
        BY <2>1, <3>1, Zenon
      <3> QED
        BY <2>4, <3>1, <3>2, ZenonT(30) DEF n
    <2> QED
      BY <2>5, <2>6
  <1>5. ASSUME answer.of \in {"getRgbData", "getRgbBinary"}
        PROVE  /\ Len(Images!Arrived) = Len(rgb24)
               /\ \A n \in Images!Pixels :
                    SubSeq(Images!Arrived, (3 * n) + 1, (3 * n) + 3)
                      = <<rgb24[(3 * n) + 3], rgb24[(3 * n) + 2],
                          rgb24[(3 * n) + 1]>>
    <2> DEFINE b == Images!BGR2RGB(rgb24)
    <2>1. /\ IsData(b) /\ Len(b) = Len(rgb24) /\ 6 <= Len(b)
          /\ \A n \in Images!Pixels :
               SubSeq(b, (3 * n) + 1, (3 * n) + 3)
                 = <<rgb24[(3 * n) + 3], rgb24[(3 * n) + 2],
                     rgb24[(3 * n) + 1]>>
      BY <1>1, ColourBytes, Zenon
    <2>2. Images!Arrived = b
      <3>1. CASE answer.of = "getRgbBinary"
        BY <1>1, <3>1, Zenon DEF Answers, RgbBinaryAnswer, Images!Arrived
      <3>2. CASE answer.of = "getRgbData"
        <4>1. answer.pixels = Images!Characters(b)
          BY <1>1, <3>2, Zenon DEF Answers, RgbDataAnswer
        <4>2. "getRgbData" # "getRgbBinary"
          OBVIOUS
        <4> HIDE DEF b
        <4> QED
          BY <2>1, <3>2, <4>1, <4>2, Transfers, Zenon DEF Images!Arrived
      <3> QED
        BY <1>5, <3>1, <3>2
    <2> HIDE DEF b
    <2> QED
      BY <2>1, <2>2, Zenon
  <1>6. ASSUME answer.of = "getPointCloud",
               NEW x \in 0 .. Wid - 1, NEW y \in 0 .. Hei - 1,
               NEW point, point = answer.points[(y * Wid) + x]
        PROVE  /\ point.Z = Images!Depth(x, y)
               /\ point.X = point.Z * (x - (Wid \div 2))
               /\ point.Y = point.Z * (y - (Hei \div 2))
    <2> DEFINE n == (y * Wid) + x
    <2>1. n \in Images!Pixels /\ n % Wid = x /\ n \div Wid = y
          /\ Images!Depth(x, y) = depthMD[n]
      BY <1>2
    <2>2. CloudWid = Wid /\ CloudHei = Hei
          /\ Images!Pixels = 0 .. (Wid * Hei) - 1
      BY FormatFacts DEF Images!Pixels
    <2>3. answer.points = [k \in Images!Pixels |-> Images!Depth2Point[k]]
      BY <1>1, <1>6, Zenon DEF Answers, PointCloudAnswer
    <2> HIDE DEF n
    <2>4. point = Images!Depth2Point[n]
      BY <1>6, <2>1, <2>3, Zenon DEF n
    <2>5. Images!Depth2Point[n]
            = [X |-> depthMD[n] * (x - (Wid \div 2)),
               Y |-> depthMD[n] * (y - (Hei \div 2)), Z |-> depthMD[n]]
      BY <2>1, <2>2, Zenon DEF Images!Depth2Point
    <2> QED
      BY <2>1, <2>4, <2>5
  <1>7. CASE answer.of = "getDepth"
    <2>1. /\ answer.of # "getDepthImageData"
          /\ answer.of \notin {"getRgbData", "getRgbBinary"}
          /\ answer.of # "getPointCloud"
      BY <1>7
    <2> QED
      BY <1>3, <1>7, <2>1, Zenon DEF Images!PixelsArrive
  <1>8. CASE answer.of = "getDepthImageData"
    <2>1. /\ answer.of # "getDepth"
          /\ answer.of \notin {"getRgbData", "getRgbBinary"}
          /\ answer.of # "getPointCloud"
      BY <1>8
    <2> QED
      BY <1>4, <1>8, <2>1, Zenon DEF Images!PixelsArrive
  <1>9. CASE answer.of \in {"getRgbData", "getRgbBinary"}
    <2>1. /\ answer.of # "getDepth" /\ answer.of # "getDepthImageData"
          /\ answer.of # "getPointCloud"
      BY <1>9
    <2> QED
      BY <1>5, <1>9, <2>1, Zenon DEF Images!PixelsArrive
  <1>10. CASE answer.of = "getPointCloud"
    <2>1. /\ answer.of # "getDepth" /\ answer.of # "getDepthImageData"
          /\ answer.of \notin {"getRgbData", "getRgbBinary"}
      BY <1>10
    <2> QED
      BY <1>6, <1>10, <2>1, Zenon DEF Images!PixelsArrive
  <1>11. CASE /\ answer.of # "getDepth" /\ answer.of # "getDepthImageData"
              /\ answer.of \notin {"getRgbData", "getRgbBinary"}
              /\ answer.of # "getPointCloud"
    BY <1>11, Zenon DEF Images!PixelsArrive
  <1> QED
    BY <1>7, <1>8, <1>9, <1>10, <1>11, Zenon

-----------------------------------------------------------------------------
(* What has been fed to a context is what its digest will be of.           *)

\* The message so far: an HMAC's begins with a block of the key.
SoFar(algorithm, k, m) ==
  IF k = <<>> THEN m ELSE KeyBlock(HmacKey(algorithm, k), 54) \o m

\* A context stands for what it was fed, whatever the parts were.
HashInv ==
  /\ key \in Seq(Byte) /\ fed \in Seq(Byte)
  /\ \/ ctx = Hashes!NoContext /\ key = <<>> /\ fed = <<>> /\ digest = <<>>
     \/ \E algorithm \in {"sha1", "md5"} :
          IsContext(ctx, algorithm, SoFar(algorithm, key, fed))
  /\ Hashes!DigestStandard

\* What it is asked to be.
LEMMA DigestIsOf ==
  ASSUME NEW algorithm, IsContext(ctx, algorithm, SoFar(algorithm, key, fed)),
         key \in Seq(Byte), fed \in Seq(Byte)
  PROVE  (IF key = <<>> THEN Finish(ctx)
                        ELSE HmacFinish(ctx, key))
           = IF key = <<>> THEN Standard(ctx.algorithm, fed)
                           ELSE StandardHmac(ctx.algorithm, key, fed)
  <1>1. ctx.algorithm = algorithm
    BY Zenon DEF IsContext, HasFields
  <1>2. CASE key = <<>>
    <2>1. IsContext(ctx, algorithm, fed)
      BY <1>2, Zenon DEF SoFar
    <2>2. Finish(ctx) = Standard(algorithm, fed)
      BY <2>1, FinishIs, Zenon
    <2> QED
      BY <1>1, <1>2, <2>2, Zenon
  <1>3. CASE key # <<>>
    <2>1. IsContext(ctx, algorithm,
                    KeyBlock(HmacKey(algorithm, key), 54) \o fed)
      BY <1>3, Zenon DEF SoFar
    <2>2. HmacFinish(ctx, key) = StandardHmac(algorithm, key, fed)
      BY <2>1, HmacFinishIs, Zenon
    <2> QED
      BY <1>1, <1>3, <2>2, Zenon
  <1> QED
    BY <1>2, <1>3, Zenon

\* The bytes that are fed.
LEMMA PartsAreBytes ==
  ASSUME NEW n \in Nat, NEW length \in Nat
  PROVE  /\ Hashes!Part(n, length) \in Seq(Byte)
         /\ Hashes!Part(n, length) = <<>> <=> length = 0
  <1> DEFINE p == [i \in 1 .. length |-> ((n + i) * 37) % 256]
  <1>1. Hashes!Part(n, length) = p
    BY Zenon DEF Hashes!Part
  <1>2. \A i \in 1 .. length : ((n + i) * 37) % 256 \in Byte
    BY SMT DEF Byte
  <1>3. p \in Seq(Byte) /\ Len(p) = length
    BY <1>2
  <1> HIDE DEF p
  <1>4. p = <<>> <=> length = 0
    BY <1>3
  <1> QED
    BY <1>1, <1>3, <1>4, Zenon

\* Nothing was fed at the start.
LEMMA HashStart == Hashes!Init => HashInv
  <1>1. <<>> \in Seq(Byte)
    OBVIOUS
  <1> QED
    BY <1>1, Zenon DEF Hashes!Init, HashInv, Hashes!DigestStandard

\* Every step keeps it: an update appends its part to what was fed, and a
\* finish has the digest of all of it.
LEMMA HashKept == HashInv /\ [Hashes!Next]_hashVars => HashInv'
  <1> SUFFICES ASSUME HashInv, [Hashes!Next]_hashVars PROVE HashInv'
    OBVIOUS
  <1>1. key \in Seq(Byte) /\ fed \in Seq(Byte) /\ Len(fed) \in Nat
        /\ \A n \in KeyLengths \cup PartLengths : n \in Nat
    BY FormatsAssumption DEF FormatsAssumption, HashInv
  <1>2. ASSUME ctx # Hashes!NoContext
        PROVE  \E algorithm \in {"sha1", "md5"} :
                 IsContext(ctx, algorithm, SoFar(algorithm, key, fed))
    BY <1>2, Zenon DEF HashInv
  <1>3. ASSUME ctx = Hashes!NoContext
        PROVE  key = <<>> /\ fed = <<>> /\ digest = <<>>
    <2>1. ASSUME NEW algorithm \in {"sha1", "md5"},
                 IsContext(ctx, algorithm, SoFar(algorithm, key, fed))
          PROVE  FALSE
      <3>1. ctx.algorithm = algorithm
        BY <2>1, Zenon DEF IsContext, HasFields
      <3>2. ctx.algorithm = "none"
        BY <1>3 DEF Hashes!NoContext
      <3> QED
        BY <3>1, <3>2
    <2> QED
      BY <2>1, Zenon DEF HashInv
  <1>4. ASSUME NEW algorithm \in {"sha1", "md5"}, NEW n \in KeyLengths,
               Hashes!Start(algorithm, n)
        PROVE  HashInv'
    <2>1. fed' = <<>> /\ digest' = <<>> /\ key' = Hashes!Part(0, n)
      BY <1>3, <1>4, Zenon DEF Hashes!Start
    <2>2. ctx' = IF n = 0 THEN Starts(algorithm)
                          ELSE HmacStarts(algorithm, key')
      BY <1>4, Zenon DEF Hashes!Start
    <2>3. key' \in Seq(Byte) /\ (key' = <<>> <=> n = 0)
      <3>1. 0 \in Nat
        OBVIOUS
      <3> QED
        BY <1>1, <2>1, <3>1, PartsAreBytes, Zenon
    <2>4. IsContext(ctx', algorithm, SoFar(algorithm, key', fed'))
      <3>1. CASE n = 0
        BY <2>1, <2>2, <2>3, <3>1, StartsContext, Zenon DEF SoFar
      <3>2. CASE n # 0
        <4> DEFINE b == KeyBlock(HmacKey(algorithm, key'), 54)
        <4>1. IsContext(ctx', algorithm, b)
          BY <2>2, <2>3, <3>2, HmacStartsIs, Zenon
        <4>2. b \in Seq(Byte)
          BY <4>1, Zenon DEF IsContext
        <4> HIDE DEF b
        <4>3. b \o <<>> = b
          BY <4>2
        <4> QED
          BY <2>1, <2>3, <3>2, <4>1, <4>3, Zenon DEF SoFar, b
      <3> QED
        BY <3>1, <3>2, Zenon
    <2>5. fed' \in Seq(Byte)
      BY <2>1
    <2> QED
      BY <2>1, <2>3, <2>4, <2>5, Zenon DEF HashInv, Hashes!DigestStandard
  <1>5. ASSUME NEW length \in PartLengths, Hashes!UpdatePart(length)
        PROVE  HashInv'
    <2> DEFINE input == Hashes!Part(Len(fed), length)
    <2>1. /\ ctx # Hashes!NoContext /\ digest' = <<>> /\ key' = key
          /\ ctx' = Update(ctx, input) /\ fed' = fed \o input
      BY <1>5, Zenon DEF Hashes!UpdatePart
    <2>2. input \in Seq(Byte)
      BY <1>1, PartsAreBytes, Zenon
    <2> HIDE DEF input
    <2>3. PICK algorithm \in {"sha1", "md5"} :
            IsContext(ctx, algorithm, SoFar(algorithm, key, fed))
      BY <1>2, <2>1, Zenon
    <2>4. IsContext(ctx', algorithm, SoFar(algorithm, key, fed) \o input)
      BY <2>1, <2>2, <2>3, UpdateIs, Zenon
    <2>5. SoFar(algorithm, key, fed) \o input = SoFar(algorithm, key', fed')
      <3> DEFINE b == KeyBlock(HmacKey(algorithm, key), 54)
      <3>1. CASE key = <<>>
        BY <2>1, <3>1, Zenon DEF SoFar
      <3>2. CASE key # <<>>
        <4>1. b \in Seq(Byte)
          <5>1. IsContext(HmacStarts(algorithm, key), algorithm, b)
            BY <1>1, HmacStartsIs, Zenon
          <5> QED
            BY <5>1, Zenon DEF IsContext
        <4> HIDE DEF b
        <4>2. (b \o fed) \o input = b \o (fed \o input)
          BY <1>1, <2>2, <4>1
        <4> QED
          BY <2>1, <3>2, <4>2, Zenon DEF SoFar, b
      <3> QED
        BY <3>1, <3>2, Zenon
    <2>6. fed' \in Seq(Byte)
      BY <1>1, <2>1, <2>2
    <2> QED
      BY <1>1, <2>1, <2>4, <2>5, <2>6, Zenon DEF HashInv,
         Hashes!DigestStandard
  <1>6. ASSUME Hashes!FinishDigest PROVE HashInv'
    <2>1. ctx # Hashes!NoContext /\ UNCHANGED <<ctx, key, fed>>
      BY <1>6, Zenon DEF Hashes!FinishDigest
    <2>2. PICK algorithm \in {"sha1", "md5"} :
            IsContext(ctx, algorithm, SoFar(algorithm, key, fed))
      BY <1>2, <2>1, Zenon
    <2>3. digest' = IF key = <<>> THEN Finish(ctx)
                                  ELSE HmacFinish(ctx, key)
      BY <1>6, Zenon DEF Hashes!FinishDigest
    <2>4. digest' = IF key = <<>>
                      THEN Standard(ctx.algorithm, fed)
                      ELSE StandardHmac(ctx.algorithm, key, fed)
      BY <1>1, <2>2, <2>3, DigestIsOf, Zenon
    <2> QED
      BY <1>1, <2>1, <2>2, <2>4, Zenon DEF HashInv, Hashes!DigestStandard
  <1>7. ASSUME UNCHANGED hashVars PROVE HashInv'
    BY <1>7, Zenon DEF hashVars, HashInv, Hashes!DigestStandard
  <1> QED
    BY <1>4, <1>5, <1>6, <1>7, Zenon DEF Hashes!Next

-----------------------------------------------------------------------------
(* A header in the buffer: its lines, and what they say, whatever follows. *)

\* The least place and the greatest.
LEMMA LowestIs ==
  ASSUME NEW T \in SUBSET Nat, NEW m \in T, \A k \in T : m <= k
  PROVE  Shake!Lowest(T) = m
  <1> DEFINE l == Shake!Lowest(T)
  <1>1. l \in T /\ \A k \in T : l <= k
    BY Zenon DEF Shake!Lowest
  <1> HIDE DEF l
  <1>2. l <= m /\ m <= l /\ l \in Nat /\ m \in Nat
    BY <1>1
  <1>3. l = m
    BY <1>2
  <1> QED
    BY <1>3, Zenon DEF l

\* What is not below any of a set is its greatest.
LEMMA HighestIs ==
  ASSUME NEW T \in SUBSET Nat, NEW m \in T, \A k \in T : m >= k
  PROVE  Shake!Highest(T) = m
  <1> DEFINE l == Shake!Highest(T)
  <1>1. l \in T /\ \A k \in T : l >= k
    BY Zenon DEF Shake!Highest
  <1> HIDE DEF l
  <1>2. l >= m /\ m >= l /\ l \in Nat /\ m \in Nat
    BY <1>1
  <1>3. l = m
    BY <1>2
  <1> QED
    BY <1>3, Zenon DEF l

\* A set of numbers has a least one.
LEMMA LowestOf ==
  ASSUME NEW T \in SUBSET Nat, T # {}
  PROVE  Shake!Lowest(T) \in T /\ \A k \in T : Shake!Lowest(T) <= k
  <1>1. PICK m \in T : \A k \in T : m <= k
    BY Least, Zenon
  <1> QED
    BY <1>1, LowestIs, Zenon

\* A set of numbers with a bound has a greatest one.
LEMMA HighestOf ==
  ASSUME NEW n \in Nat, NEW T \in SUBSET (0 .. n), T # {}
  PROVE  Shake!Highest(T) \in T /\ \A k \in T : Shake!Highest(T) >= k
  <1> DEFINE U == {n - k : k \in T}
  <1>1. U \in SUBSET Nat /\ U # {}
    <2>1. \A k \in T : k \in 0 .. n
      OBVIOUS
    <2>2. \A k \in T : n - k \in Nat
      BY <2>1
    <2> QED
      BY <2>2
  <1>2. PICK u \in U : \A k \in U : u <= k
    BY <1>1, Least, Zenon
  <1>3. PICK m \in T : u = n - m
    BY <1>2
  <1>4. \A k \in T : m >= k
    <2> TAKE k \in T
    <2>1. n - k \in U
      OBVIOUS
    <2>2. n - m <= n - k
      BY <1>2, <1>3, <2>1
    <2>3. k \in 0 .. n /\ m \in 0 .. n
      OBVIOUS
    <2> QED
      BY <2>2, <2>3
  <1>5. T \in SUBSET Nat
    OBVIOUS
  <1>6. Shake!Highest(T) = m
    BY <1>4, <1>5, HighestIs, Zenon
  <1> QED
    BY <1>4, <1>6, Zenon

\* There is a place for each of some sequences that stand one after the other.
LEMMA OffsetsExist ==
  ASSUME NEW Elem, NEW seqs \in Seq(Seq(Elem))
  PROVE  \E at : Offsets(seqs, at)
  <1> DEFINE n == Len(seqs)
             IsAt(at, m) ==
               /\ \A q \in 0 .. m : at[q] \in Nat
               /\ at[0] = 0
               /\ \A q \in 1 .. m : at[q] = at[q - 1] + Len(seqs[q])
             Bad == {m \in 0 .. n : ~\E at : IsAt(at, m)}
  <1>1. n \in Nat /\ \A q \in 1 .. n : Len(seqs[q]) \in Nat
    OBVIOUS
  <1> HIDE DEF n
  <1>2. Bad = {}
    <2> SUFFICES ASSUME Bad # {} PROVE FALSE
      OBVIOUS
    <2>1. Bad \in SUBSET Nat
      BY <1>1
    <2>2. PICK m \in Bad : \A k \in Bad : m <= k
      BY <2>1, Least, Zenon
    <2>3. m \in 0 .. n /\ ~\E at : IsAt(at, m)
      BY <2>2, Zenon
    <2>4. CASE m = 0
      <3> DEFINE z == [q \in 0 .. 0 |-> 0]
      <3>1. IsAt(z, 0)
        OBVIOUS
      <3> QED
        BY <2>3, <2>4, <3>1, Zenon
    <2>5. CASE m # 0
      <3>1. m - 1 \in 0 .. n /\ m \in Nat /\ m \in 1 .. n /\ ~(m <= m - 1)
        BY <1>1, <2>3, <2>5
      <3>2. m - 1 \notin Bad
        BY <2>2, <3>1, Zenon
      <3>3. PICK at : IsAt(at, m - 1)
        BY <3>1, <3>2, Zenon
      <3> DEFINE l == Len(seqs[m])
                 p == at[m - 1]
                 e == [q \in 0 .. m |-> IF q = m THEN p + l ELSE at[q]]
      <3> HIDE DEF Bad
      <3>4. l \in Nat /\ p \in Nat
        <4>1. m - 1 \in 0 .. m - 1
          BY <3>1
        <4>2. p \in Nat
          BY <3>3, <4>1
        <4> QED
          BY <1>1, <3>1, <4>2
      <3>5. \A q \in 0 .. m - 1 : e[q] = at[q] /\ at[q] \in Nat
        <4> HIDE DEF p, l
        <4> QED
          BY <3>1, <3>3
      <3>6. e[m] = p + l /\ e[m - 1] = p
        <4>1. m \in 0 .. m /\ m - 1 \in 0 .. m /\ m - 1 # m
          BY <3>1
        <4> HIDE DEF l
        <4> QED
          BY <4>1
      <3>7. \A q \in 0 .. m : e[q] \in Nat
        <4> TAKE q \in 0 .. m
        <4>1. q = m \/ q \in 0 .. m - 1
          BY <3>1
        <4>2. p + l \in Nat
          <5> HIDE DEF p, l
          <5> QED
            BY <3>4
        <4> HIDE DEF e, p, l
        <4> QED
          BY <3>5, <3>6, <4>1, <4>2, Zenon
      <3>8. e[0] = 0
        <4>1. 0 \in 0 .. m - 1
          BY <3>1
        <4> HIDE DEF e
        <4> QED
          BY <3>3, <3>5, <4>1, Zenon
      <3>9. \A q \in 1 .. m : e[q] = e[q - 1] + Len(seqs[q])
        <4> TAKE q \in 1 .. m
        <4>1. CASE q = m
          <5> HIDE DEF e, p
          <5> QED
            BY <3>6, <4>1, Zenon DEF l
        <4>2. CASE q # m
          <5>1. q \in 1 .. m - 1 /\ q \in 0 .. m - 1 /\ q - 1 \in 0 .. m - 1
            BY <3>1, <4>2
          <5>2. at[q] = at[q - 1] + Len(seqs[q])
            BY <3>3, <5>1, Zenon
          <5> HIDE DEF e
          <5> QED
            BY <3>5, <5>1, <5>2, Zenon
        <4> QED
          BY <4>1, <4>2
      <3> HIDE DEF e
      <3>10. IsAt(e, m)
        BY <3>7, <3>8, <3>9, Zenon
      <3> QED
        BY <2>3, <3>10, Zenon
    <2> QED
      BY <2>4, <2>5
  <1>3. n \in 0 .. n
    BY <1>1
  <1>4. \E at : IsAt(at, n)
    BY <1>2, <1>3, Zenon
  <1> QED
    BY <1>4, Zenon DEF Offsets, n

\* They go up, and every place up to the last is in one of the sequences.
LEMMA OffsetsGrow ==
  ASSUME NEW seqs, Len(seqs) \in Nat, NEW at, Offsets(seqs, at),
         \A q \in 1 .. Len(seqs) : Len(seqs[q]) \in Nat,
         NEW p \in 0 .. Len(seqs), NEW r \in p .. Len(seqs)
  PROVE  at[p] <= at[r]
  <1> DEFINE n == Len(seqs)
             Bad == {q \in p .. n : ~(at[p] <= at[q])}
  <1>1. /\ n \in Nat /\ p \in 0 .. n /\ r \in p .. n
        /\ \A q \in 0 .. n : at[q] \in Nat
        /\ \A q \in 1 .. n : /\ at[q] = at[q - 1] + Len(seqs[q])
                             /\ Len(seqs[q]) \in Nat
    BY DEF Offsets
  <1> HIDE DEF n
  <1>2. Bad = {}
    <2> SUFFICES ASSUME Bad # {} PROVE FALSE
      OBVIOUS
    <2>1. Bad \in SUBSET Nat
      BY <1>1
    <2>2. PICK m \in Bad : \A k \in Bad : m <= k
      BY <2>1, Least, Zenon
    <2>3. m \in p .. n /\ ~(at[p] <= at[m])
      BY <2>2
    <2>4. m # p
      BY <1>1, <2>3
    <2>5. m - 1 \in p .. n /\ m \in 1 .. n /\ m - 1 \in 0 .. n
          /\ ~(m <= m - 1) /\ m \in 0 .. n
      BY <1>1, <2>3, <2>4
    <2>6. at[p] <= at[m - 1]
      BY <2>2, <2>5
    <2>7. at[m] = at[m - 1] + Len(seqs[m]) /\ Len(seqs[m]) \in Nat
          /\ at[m] \in Nat /\ at[m - 1] \in Nat /\ at[p] \in Nat
      BY <1>1, <2>5
    <2> QED
      BY <2>3, <2>6, <2>7
  <1> QED
    BY <1>1, <1>2

\* Every place of a joined sequence is in one of its parts.
LEMMA OffsetsCover ==
  ASSUME NEW seqs, Len(seqs) \in Nat, NEW at, Offsets(seqs, at),
         NEW i \in 1 .. at[Len(seqs)]
  PROVE  \E q \in 1 .. Len(seqs) : at[q - 1] < i /\ i <= at[q]
  <1> DEFINE n == Len(seqs)
             After == {q \in 0 .. n : i <= at[q]}
  <1>1. n \in Nat /\ at[0] = 0 /\ \A q \in 0 .. n : at[q] \in Nat
    BY DEF Offsets
  <1>2. n \in After /\ i \in 1 .. at[n]
    BY <1>1
  <1> HIDE DEF n
  <1>3. After \in SUBSET Nat /\ After # {}
    BY <1>1, <1>2
  <1>4. PICK q \in After : \A k \in After : q <= k
    BY <1>3, Least, Zenon
  <1>5. q # 0 /\ i \in Nat
    BY <1>1, <1>2, <1>4
  <1>6. q \in 1 .. n /\ q - 1 \in 0 .. n /\ ~(q <= q - 1) /\ i <= at[q]
    BY <1>1, <1>4, <1>5
  <1>7. ~(i <= at[q - 1])
    BY <1>4, <1>6
  <1>8. at[q - 1] < i
    BY <1>1, <1>5, <1>6, <1>7
  <1> QED
    BY <1>6, <1>8 DEF n

\* Fields of a request: names are no bytes, values have no break and no blank
\* at an end.
AreFields(f) ==
  /\ f \in Seq(Nat \X Seq(0 .. 255))
  /\ \A q \in 1 .. Len(f) : f[q][1] > 256 /\ Shake!IsValue(f[q][2])

\* A field's line: its name, ": ", its value and the line's end.
IsLine(l, name, value) ==
  /\ l \in Seq(Nat) /\ Len(l) = Len(value) + 5
  /\ l[1] = name /\ l[2] = 58 /\ l[3] = 32
  /\ \A i \in 1 .. Len(value) : l[3 + i] = value[i]
  /\ l[Len(value) + 4] = 13 /\ l[Len(value) + 5] = 10

\* Bytes are numbers.
LEMMA BytesAreNumbers ==
  ASSUME NEW v \in Seq(0 .. 255)
  PROVE  /\ v \in Seq(Nat) /\ Len(v) \in Nat
         /\ \A i \in 1 .. Len(v) : v[i] \in Nat /\ v[i] < 256
  <1> DEFINE n == Len(v)
  <1>1. n \in Nat /\ \A i \in 1 .. n : v[i] \in 0 .. 255
    BY ElementOf, LenProperties
  <1>2. v = [i \in 1 .. n |-> v[i]]
    OBVIOUS
  <1> HIDE DEF n
  <1>3. \A i \in 1 .. n : v[i] \in Nat /\ v[i] < 256
    <2>1. \A b \in 0 .. 255 : b \in Nat /\ b < 256
      BY SMT
    <2> QED
      BY <1>1, <2>1, Zenon
  <1>4. v \in [1 .. n -> Nat]
    BY <1>2, <1>3, Zenon
  <1>5. v \in Seq(Nat)
    BY <1>1, <1>4
  <1> QED
    BY <1>1, <1>3, <1>5 DEF n

\* A field's name is no byte; its value is bytes.
LEMMA FieldIs ==
  ASSUME NEW f, AreFields(f), NEW q \in 1 .. Len(f)
  PROVE  /\ f[q][1] \in Nat /\ f[q][1] > 256
         /\ f[q][2] \in Seq(0 .. 255) /\ f[q][2] \in Seq(Nat)
         /\ Len(f[q][2]) \in Nat
         /\ \A i \in 1 .. Len(f[q][2]) : f[q][2][i] \in Nat
         /\ Shake!IsValue(f[q][2])
  <1>1. /\ f[q] \in Nat \X Seq(0 .. 255) /\ f[q][1] > 256
        /\ Shake!IsValue(f[q][2])
    BY DEF AreFields
  <1>2. f[q][1] \in Nat /\ f[q][2] \in Seq(0 .. 255)
    BY <1>1
  <1> DEFINE v == f[q][2]
  <1>3. v \in Seq(0 .. 255)
    BY <1>2
  <1> HIDE DEF v
  <1>4. v \in Seq(Nat) /\ Len(v) \in Nat /\ \A i \in 1 .. Len(v) : v[i] \in Nat
    BY <1>3, BytesAreNumbers, Zenon
  <1> QED
    BY <1>1, <1>2, <1>4 DEF v

\* The lines of a header are those of its fields.
LEMMA LinesAre ==
  ASSUME NEW f, AreFields(f)
  PROVE  /\ Shake!Lines(f) \in Seq(Seq(Nat)) /\ Len(Shake!Lines(f)) = Len(f)
         /\ \A q \in 1 .. Len(f) :
              IsLine(Shake!Lines(f)[q], f[q][1], f[q][2])
  <1> DEFINE n == Len(f)
             Line(q) == <<f[q][1], 58, 32>> \o f[q][2] \o <<13, 10>>
  <1>1. n \in Nat /\ DOMAIN f = 1 .. n
    BY DEF AreFields
  <1>2. ASSUME NEW q \in 1 .. n
        PROVE  IsLine(Line(q), f[q][1], f[q][2])
    <2> DEFINE name == f[q][1]
               v == f[q][2]
               a == <<name, 58, 32>>
               b == <<13, 10>>
    <2>1. name \in Nat /\ v \in Seq(Nat)
      BY FieldIs
    <2> HIDE DEF name, v
    <2>2. a \in Seq(Nat) /\ Len(a) = 3 /\ a[1] = name /\ a[2] = 58 /\ a[3] = 32
      BY <2>1
    <2>3. b \in Seq(Nat) /\ Len(b) = 2 /\ b[1] = 13 /\ b[2] = 10
      OBVIOUS
    <2> HIDE DEF a, b
    <2> DEFINE c == a \o v
    <2>4. IsJoin(Nat, c, a, v)
      BY <2>1, <2>2, JoinIs, Zenon
    <2> HIDE DEF c
    <2>5. c \in Seq(Nat)
      BY <2>4, Zenon DEF IsJoin
    <2> DEFINE l == c \o b
    <2>6. IsJoin(Nat, l, c, b)
      BY <2>3, <2>5, JoinIs, Zenon
    <2> HIDE DEF l
    <2>7. /\ Len(c) = 3 + Len(v)
          /\ c[1] = name /\ c[2] = 58 /\ c[3] = 32
          /\ \A i \in 1 .. Len(v) : c[3 + i] = v[i]
      BY <2>1, <2>2, <2>4 DEF IsJoin
    <2>8. IsLine(l, name, v)
      <3> DEFINE s == Len(v)
      <3>1. s \in Nat /\ Len(c) = 3 + s /\ Len(b) = 2
        BY <2>1, <2>3, <2>7
      <3>2. /\ l \in Seq(Nat) /\ Len(l) = Len(c) + Len(b)
            /\ \A i \in 1 .. Len(c) : l[i] = c[i]
            /\ \A i \in 1 .. Len(b) : l[Len(c) + i] = b[i]
        BY <2>6, Zenon DEF IsJoin
      <3> HIDE DEF s
      <3>3. /\ Len(l) = s + 5 /\ l[s + 4] = b[1] /\ l[s + 5] = b[2]
            /\ l[1] = c[1] /\ l[2] = c[2] /\ l[3] = c[3]
            /\ \A i \in 1 .. s : l[3 + i] = c[3 + i]
        BY <3>1, <3>2
      <3> QED
        BY <2>3, <2>7, <3>2, <3>3, Zenon DEF IsLine, s
    <2> QED
      BY <2>8, Zenon DEF l, c, a, b, name, v
  <1>3. Shake!Lines(f) = [q \in 1 .. n |-> Line(q)]
    BY <1>1, Zenon DEF Shake!Lines, Shake!Colon, Shake!Space, Shake!CR,
                       Shake!LF
  <1>4. \A q \in 1 .. n : Line(q) \in Seq(Nat)
    BY <1>2, Zenon DEF IsLine
  <1> HIDE DEF n, Line
  <1> DEFINE ll == [q \in 1 .. n |-> Line(q)]
  <1>5. ll \in Seq(Seq(Nat)) /\ Len(ll) = n
    BY <1>1, <1>4
  <1>6. \A q \in 1 .. n : ll[q] = Line(q)
    OBVIOUS
  <1> HIDE DEF ll
  <1> QED
    BY <1>2, <1>3, <1>5, <1>6, Zenon DEF n, ll

\* Where the lines are.
AreAt(f, at) ==
  /\ \A q \in 0 .. Len(f) : at[q] \in Nat
  /\ at[0] = 0
  /\ \A q \in 1 .. Len(f) : at[q] = at[q - 1] + Len(f[q][2]) + 5

\* The length of the header.
HeadLength(f, at) == at[Len(f)] + 5

\* A text begins with a header.
FieldAt(x, p, name, value) ==
  /\ x[p + 1] = name /\ x[p + 2] = 58 /\ x[p + 3] = 32
  /\ \A i \in 1 .. Len(value) : x[p + 3 + i] = value[i]
  /\ x[p + Len(value) + 4] = 13 /\ x[p + Len(value) + 5] = 10

\* A text begins with a header: the first line, those of the fields, each at
\* its place, and the empty one.
IsHeaded(x, f, at) ==
  /\ x \in Seq(Nat) /\ Len(x) >= HeadLength(f, at)
  /\ x[1] = 256 /\ x[2] = 13 /\ x[3] = 10
  /\ \A q \in 1 .. Len(f) : FieldAt(x, at[q - 1] + 3, f[q][1], f[q][2])
  /\ x[at[Len(f)] + 4] = 13 /\ x[at[Len(f)] + 5] = 10

\* Header lines are as long as this.
LEMMA LinesOffsets ==
  ASSUME NEW f, AreFields(f)
  PROVE  \E at : AreAt(f, at) /\ Offsets(Shake!Lines(f), at)
  <1> DEFINE ll == Shake!Lines(f)
  <1>1. /\ ll \in Seq(Seq(Nat)) /\ Len(ll) = Len(f)
        /\ \A q \in 1 .. Len(f) : Len(ll[q]) = Len(f[q][2]) + 5
    BY LinesAre DEF IsLine
  <1> HIDE DEF ll
  <1>2. PICK at : Offsets(ll, at)
    BY <1>1, OffsetsExist, Zenon
  <1>3. /\ \A q \in 0 .. Len(f) : at[q] \in Nat
        /\ at[0] = 0
        /\ \A q \in 1 .. Len(f) : at[q] = at[q - 1] + (Len(f[q][2]) + 5)
    BY <1>1, <1>2, Zenon DEF Offsets
  <1>4. \A q \in 1 .. Len(f) : at[q] = at[q - 1] + Len(f[q][2]) + 5
    <2> TAKE q \in 1 .. Len(f)
    <2>1. q - 1 \in 0 .. Len(f)
      BY DEF AreFields
    <2>2. at[q - 1] \in Nat /\ Len(f[q][2]) \in Nat
      BY <1>3, <2>1, FieldIs
    <2> QED
      BY <1>3, <2>2
  <1> QED
    BY <1>2, <1>3, <1>4, Zenon DEF AreAt, ll

\* The header is one, and as long as said.
LEMMA HeaderIs ==
  ASSUME NEW r, AreFields(r.fields), NEW at, AreAt(r.fields, at),
         Offsets(Shake!Lines(r.fields), at)
  PROVE  /\ IsHeaded(Shake!HeaderText(r), r.fields, at)
         /\ Len(Shake!HeaderText(r)) = HeadLength(r.fields, at)
  <1> DEFINE f == r.fields
             n == Len(f)
             ll == Shake!Lines(f)
             a == <<256, 13, 10>>
             b == <<13, 10>>
             m == FlattenSeq(ll)
             c == a \o m
             h == c \o b
             e == at[n]
  <1>1. n \in Nat /\ e \in Nat
    BY DEF AreFields, AreAt
  <1>2. Shake!HeaderText(r) = h
    <2>1. \A s : Shake!FlattenSeq(s) = FlattenSeq(s)
      BY Zenon DEF Shake!FlattenSeq, FlattenSeq
    <2> QED
      BY <2>1, Zenon DEF Shake!HeaderText, Shake!FirstLine, Shake!CR, Shake!LF
  <1>3. /\ ll \in Seq(Seq(Nat)) /\ Len(ll) = n
        /\ \A q \in 1 .. n : IsLine(ll[q], f[q][1], f[q][2])
    BY LinesAre, Zenon
  <1> HIDE DEF ll
  <1>4. StandAt(Nat, m, ll, at)
    BY <1>3, FlattenedAt, Zenon DEF ll
  <1>5. /\ m \in Seq(Nat) /\ Len(m) = e
        /\ \A q \in 1 .. n : \A i \in 1 .. Len(ll[q]) :
             m[at[q - 1] + i] = ll[q][i]
    BY <1>3, <1>4, Zenon DEF StandAt
  <1>6. a \in Seq(Nat) /\ Len(a) = 3 /\ a[1] = 256 /\ a[2] = 13 /\ a[3] = 10
    OBVIOUS
  <1>7. b \in Seq(Nat) /\ Len(b) = 2 /\ b[1] = 13 /\ b[2] = 10
    OBVIOUS
  <1> HIDE DEF a, b, m
  <1>8. IsJoin(Nat, c, a, m)
    BY <1>5, <1>6, JoinIs, Zenon
  <1>9. c \in Seq(Nat)
    BY <1>8, Zenon DEF IsJoin
  <1> HIDE DEF c
  <1>10. IsJoin(Nat, h, c, b)
    BY <1>7, <1>9, JoinIs, Zenon
  <1> HIDE DEF h, e
  <1>11. /\ Len(c) = e + 3 /\ c[1] = 256 /\ c[2] = 13 /\ c[3] = 10
         /\ \A i \in 1 .. e : c[i + 3] = m[i]
    BY <1>1, <1>5, <1>6, <1>8 DEF IsJoin
  <1>12. /\ h \in Seq(Nat) /\ Len(h) = e + 5
         /\ h[1] = 256 /\ h[2] = 13 /\ h[3] = 10
         /\ \A i \in 1 .. e : h[i + 3] = m[i]
         /\ h[e + 4] = 13 /\ h[e + 5] = 10
    BY <1>1, <1>7, <1>10, <1>11 DEF IsJoin
  <1>13. ASSUME NEW q \in 1 .. n
         PROVE  FieldAt(h, at[q - 1] + 3, f[q][1], f[q][2])
    <2> DEFINE p == at[q - 1]
               v == f[q][2]
               l == ll[q]
               s == Len(v)
    <2>1. /\ q - 1 \in 0 .. n /\ q \in 0 .. n
      BY <1>1
    <2>2. p \in Nat /\ at[q] \in Nat /\ at[q] = p + s + 5
      BY <2>1 DEF AreAt
    <2>3. s \in Nat
      BY FieldIs
    <2>4. at[q] <= e
      BY <1>3, <1>4, Zenon DEF StandAt, e
    <2>5. IsLine(l, f[q][1], v)
      BY <1>3, Zenon
    <2>6. \A i \in 1 .. Len(l) : m[p + i] = l[i]
      BY <1>5, Zenon
    <2> HIDE DEF p, v, l, s
    <2>7. Len(l) = s + 5
      BY <2>5, Zenon DEF IsLine, s
    <2>8. \A i \in 1 .. s + 5 : p + i \in 1 .. e /\ (p + i) + 3 = (p + 3) + i
      BY <1>1, <2>2, <2>3, <2>4
    <2>9. \A i \in 1 .. s + 5 : h[(p + 3) + i] = l[i]
      <3> TAKE i \in 1 .. s + 5
      <3>1. h[(p + i) + 3] = m[p + i]
        BY <1>12, <2>8, Zenon
      <3>2. m[p + i] = l[i]
        BY <2>6, <2>7, Zenon
      <3>3. (p + i) + 3 = (p + 3) + i
        BY <2>8, Zenon
      <3> QED
        BY <3>1, <3>2, <3>3, Zenon
    <2>10. /\ 1 \in 1 .. s + 5 /\ 2 \in 1 .. s + 5 /\ 3 \in 1 .. s + 5
           /\ s + 4 \in 1 .. s + 5 /\ s + 5 \in 1 .. s + 5
           /\ \A i \in 1 .. s : 3 + i \in 1 .. s + 5
           /\ p + 3 + s + 4 = (p + 3) + (s + 4)
           /\ p + 3 + s + 5 = (p + 3) + (s + 5)
           /\ \A i \in 1 .. s : p + 3 + 3 + i = (p + 3) + (3 + i)
      BY <2>2, <2>3
    <2>11. /\ h[(p + 3) + 1] = f[q][1] /\ h[(p + 3) + 2] = 58
           /\ h[(p + 3) + 3] = 32
           /\ h[p + 3 + s + 4] = 13 /\ h[p + 3 + s + 5] = 10
           /\ \A i \in 1 .. s : h[p + 3 + 3 + i] = v[i]
      <3>1. /\ l[1] = f[q][1] /\ l[2] = 58 /\ l[3] = 32
            /\ \A i \in 1 .. s : l[3 + i] = v[i]
            /\ l[s + 4] = 13 /\ l[s + 5] = 10
        BY <2>5, Zenon DEF IsLine, s
      <3>2. \A i \in 1 .. s : h[p + 3 + 3 + i] = v[i]
        <4> TAKE i \in 1 .. s
        <4>1. 3 + i \in 1 .. s + 5 /\ p + 3 + 3 + i = (p + 3) + (3 + i)
          BY <2>10, Zenon
        <4>2. h[(p + 3) + (3 + i)] = l[3 + i]
          BY <2>9, <4>1, Zenon
        <4> QED
          BY <3>1, <4>1, <4>2, Zenon
      <3>3. /\ h[(p + 3) + (s + 4)] = l[s + 4]
            /\ h[(p + 3) + (s + 5)] = l[s + 5]
            /\ h[(p + 3) + 1] = l[1] /\ h[(p + 3) + 2] = l[2]
            /\ h[(p + 3) + 3] = l[3]
        BY <2>9, <2>10, Zenon
      <3>4. h[p + 3 + s + 4] = l[s + 4] /\ h[p + 3 + s + 5] = l[s + 5]
        BY <2>10, <3>3, Zenon
      <3> QED
        BY <3>1, <3>2, <3>3, <3>4, Zenon
    <2> QED
      BY <2>11, Zenon DEF FieldAt, p, v, s
  <1>14. e + 5 = HeadLength(f, at) /\ Len(h) >= HeadLength(f, at)
    BY <1>1, <1>12 DEF HeadLength, e
  <1>15. IsHeaded(h, f, at) /\ Len(h) = HeadLength(f, at)
    BY <1>12, <1>13, <1>14, Zenon DEF IsHeaded, e, n
  <1> QED
    BY <1>2, <1>15, Zenon

\* The fields of a request and where their lines are, counted from the end of
\* the first line.
ArePlaces(f, at) ==
  AreFields(f) /\ AreAt(f, at) /\ Offsets(Shake!Lines(f), at)

\* Places are numbers, and a field's line is as long as its value and five
\* more.
LEMMA PlaceIs ==
  ASSUME NEW f, NEW at, ArePlaces(f, at)
  PROVE  /\ Len(f) \in Nat /\ at[Len(f)] \in Nat /\ at[0] = 0
         /\ \A q \in 1 .. Len(f) :
              /\ q - 1 \in 0 .. Len(f) /\ q \in 0 .. Len(f)
              /\ at[q - 1] \in Nat /\ at[q] \in Nat
              /\ Len(f[q][2]) \in Nat
              /\ at[q] = at[q - 1] + Len(f[q][2]) + 5
              /\ at[q] <= at[Len(f)]
         /\ \A p, q \in 0 .. Len(f) : p <= q => at[p] <= at[q]
  <1> DEFINE n == Len(f)
             ll == Shake!Lines(f)
  <1>1. n \in Nat /\ n \in 0 .. n
    BY DEF ArePlaces, AreFields
  <1>2. AreAt(f, at) /\ AreFields(f) /\ Offsets(ll, at)
    BY Zenon DEF ArePlaces
  <1>3. Len(ll) = n /\ \A q \in 1 .. n : Len(ll[q]) = Len(f[q][2]) + 5
    BY <1>2, LinesAre DEF IsLine
  <1>4. \A q \in 1 .. n : Len(f[q][2]) \in Nat
    BY <1>2, FieldIs, Zenon
  <1>5. \A q \in 1 .. n : Len(ll[q]) \in Nat
    BY <1>3, <1>4
  <1>6. ASSUME NEW p \in 0 .. n, NEW q \in 0 .. n, p <= q
        PROVE  at[p] <= at[q]
    <2> HIDE DEF ll, n
    <2>1. q \in p .. n
      BY <1>1, <1>6
    <2> QED
      BY <1>1, <1>2, <1>3, <1>5, <2>1, OffsetsGrow, Zenon
  <1>7. \A q \in 0 .. n : q <= n
    BY <1>1
  <1>8. \A q \in 1 .. n : q - 1 \in 0 .. n /\ q \in 0 .. n
    BY <1>1
  <1> HIDE DEF n
  <1>9. /\ \A q \in 0 .. n : at[q] \in Nat
        /\ at[0] = 0
        /\ \A q \in 1 .. n : at[q] = at[q - 1] + Len(f[q][2]) + 5
    BY <1>2, Zenon DEF AreAt, n
  <1> QED
    BY <1>1, <1>4, <1>6, <1>7, <1>8, <1>9, Zenon DEF n

\* The places of a field's line are within a header of enough length.
LEMMA InHeader ==
  ASSUME NEW a \in Nat, NEW s \in Nat, NEW e \in Nat, NEW z, z = a + s + 5,
         z <= e
  PROVE  /\ a + 3 + 1 \in 1 .. e + 5 /\ a + 3 + 2 \in 1 .. e + 5
         /\ a + 3 + 3 \in 1 .. e + 5
         /\ a + 3 + s + 4 \in 1 .. e + 5 /\ a + 3 + s + 5 \in 1 .. e + 5
         /\ \A i \in 1 .. s : a + 3 + 3 + i \in 1 .. e + 5
  OBVIOUS

\* What begins alike begins with the same header.
LEMMA HeadedAlike ==
  ASSUME NEW f, NEW at, ArePlaces(f, at), NEW h, IsHeaded(h, f, at),
         NEW x \in Seq(Nat), Len(x) >= HeadLength(f, at),
         \A i \in 1 .. HeadLength(f, at) : x[i] = h[i]
  PROVE  IsHeaded(x, f, at)
  <1> DEFINE n == Len(f)
             e == at[n]
  <1>1. n \in Nat /\ e \in Nat /\ HeadLength(f, at) = e + 5
    BY PlaceIs, Zenon DEF HeadLength
  <1>2. \A i \in 1 .. e + 5 : x[i] = h[i]
    BY <1>1, Zenon
  <1>3. /\ h[1] = 256 /\ h[2] = 13 /\ h[3] = 10
        /\ \A q \in 1 .. n : FieldAt(h, at[q - 1] + 3, f[q][1], f[q][2])
        /\ h[e + 4] = 13 /\ h[e + 5] = 10
    BY Zenon DEF IsHeaded
  <1>4. ASSUME NEW q \in 1 .. n
        PROVE  FieldAt(x, at[q - 1] + 3, f[q][1], f[q][2])
    <2> DEFINE v == f[q][2]
               s == Len(v)
               a == at[q - 1]
               p == a + 3
               z == at[q]
    <2>1. a \in Nat /\ s \in Nat /\ z = a + s + 5 /\ z <= e
      BY PlaceIs, SMTT(30)
    <2>2. FieldAt(h, p, f[q][1], v)
      BY <1>3, Zenon
    <2> HIDE DEF s, a, z, e, v
    <2>3. /\ p + 1 \in 1 .. e + 5 /\ p + 2 \in 1 .. e + 5
          /\ p + 3 \in 1 .. e + 5
          /\ p + s + 4 \in 1 .. e + 5 /\ p + s + 5 \in 1 .. e + 5
          /\ \A i \in 1 .. s : p + 3 + i \in 1 .. e + 5
      BY <1>1, <2>1, InHeader, Zenon DEF p
    <2> HIDE DEF p
    <2>4. \A i \in 1 .. s : x[p + 3 + i] = v[i]
      BY <1>2, <2>2, <2>3, ZenonT(30) DEF FieldAt, s
    <2>5. FieldAt(x, p, f[q][1], v)
      BY <1>2, <2>2, <2>3, <2>4, ZenonT(30) DEF FieldAt, s
    <2> QED
      BY <2>5, Zenon DEF p, a, v
  <1>5. /\ 1 \in 1 .. e + 5 /\ 2 \in 1 .. e + 5 /\ 3 \in 1 .. e + 5
        /\ e + 4 \in 1 .. e + 5 /\ e + 5 \in 1 .. e + 5
    <2> HIDE DEF e
    <2> QED
      BY <1>1
  <1>6. /\ x[1] = h[1] /\ x[2] = h[2] /\ x[3] = h[3]
        /\ x[e + 4] = h[e + 4] /\ x[e + 5] = h[e + 5]
    <2> HIDE DEF e
    <2> QED
      BY <1>2, <1>5
  <1> QED
    BY <1>3, <1>4, <1>6 DEF IsHeaded

\* Every place in a header is in the first line, in a field, or in the break
\* behind one of them.
InField(f, at, i, q) == at[q - 1] + 4 <= i /\ i <= at[q] + 1
IsEnd(at, i, q) == i = at[q] + 2 \/ i = at[q] + 3
IsBetween(f, at, i) ==
  \/ \E q \in 0 .. Len(f) : IsEnd(at, i, q)
  \/ i = at[Len(f)] + 4 \/ i = at[Len(f)] + 5

\* Every place in a header is one of them.
LEMMA PlaceInHeader ==
  ASSUME NEW f, NEW at, ArePlaces(f, at), NEW i \in 1 .. HeadLength(f, at)
  PROVE  \/ i = 1 \/ IsBetween(f, at, i)
         \/ \E q \in 1 .. Len(f) : InField(f, at, i, q)
  <1> DEFINE n == Len(f)
             e == at[n]
             ll == Shake!Lines(f)
  <1>1. n \in Nat /\ e \in Nat /\ HeadLength(f, at) = e + 5 /\ at[0] = 0
    BY PlaceIs, Zenon DEF HeadLength
  <1>2. 0 \in 0 .. n
    BY <1>1
  <1>3. CASE i = 2 \/ i = 3
    BY <1>1, <1>2, <1>3 DEF IsEnd, IsBetween
  <1>4. CASE i \in 4 .. e + 3
    <2> DEFINE k == i - 3
    <2>1. k \in 1 .. e /\ i = k + 3
      <3> HIDE DEF e
      <3> QED
        BY <1>1, <1>4
    <2>2. Len(ll) = n /\ Offsets(ll, at)
      BY LinesAre, Zenon DEF ArePlaces
    <2> HIDE DEF k, ll
    <2>3. PICK q \in 1 .. n : at[q - 1] < k /\ k <= at[q]
      <3> HIDE DEF n
      <3> QED
        BY <1>1, <2>1, <2>2, OffsetsCover, Zenon
    <2>4. at[q - 1] \in Nat /\ at[q] \in Nat /\ q \in 0 .. n /\ k \in Nat
      BY <2>1, PlaceIs
    <2> DEFINE a == at[q - 1]  z == at[q]
    <2>5. a \in Nat /\ z \in Nat /\ a < k /\ k <= z
      BY <2>3, <2>4, Zenon
    <2> HIDE DEF a, z
    <2>6. a + 4 <= i /\ (i <= z + 1 \/ i = z + 2 \/ i = z + 3)
      BY <2>1, <2>4, <2>5
    <2> QED
      BY <2>4, <2>6, Zenon DEF InField, IsEnd, IsBetween, a, z
  <1>5. \/ i = 1 \/ i = 2 \/ i = 3 \/ i \in 4 .. e + 3
        \/ i = e + 4 \/ i = e + 5
    <2> HIDE DEF e
    <2> QED
      BY <1>1
  <1> QED
    BY <1>3, <1>4, <1>5, Zenon DEF IsBetween

\* What stands in a field is no break and no NUL,
LEMMA FieldUnbroken ==
  ASSUME NEW f, NEW at, ArePlaces(f, at), NEW x, IsHeaded(x, f, at),
         NEW q \in 1 .. Len(f), NEW i \in Nat, InField(f, at, i, q)
  PROVE  x[i] # 0 /\ x[i] # 10 /\ x[i] # 13
  <1> DEFINE v == f[q][2]
             s == Len(v)
             a == at[q - 1]
             p == a + 3
  <1>1. a \in Nat /\ s \in Nat /\ at[q] = a + s + 5
    BY PlaceIs, Zenon
  <1>2. AreFields(f)
    BY Zenon DEF ArePlaces
  <1>3. f[q][1] \in Nat /\ f[q][1] > 256 /\ Shake!IsValue(v)
        /\ v \in Seq(0 .. 255)
    BY <1>2, FieldIs
  <1>4. \A k \in 1 .. s : v[k] # 0 /\ v[k] # 10 /\ v[k] # 13
    <2>1. Shake!Unbroken(v) /\ DOMAIN v = 1 .. s
      <3>1. DOMAIN v = 1 .. s
        <4> HIDE DEF v
        <4> QED
          BY <1>3
      <3> QED
        BY <1>3, <3>1, Zenon DEF Shake!IsValue
    <2>2. \A k \in DOMAIN v : v[k] \notin {0, 13, 10}
      BY <2>1, Zenon DEF Shake!Unbroken, Shake!Nul, Shake!CR, Shake!LF
    <2> HIDE DEF v, s
    <2> QED
      BY <2>1, <2>2
  <1>5. FieldAt(x, p, f[q][1], v)
    BY Zenon DEF IsHeaded
  <1>6. a + 4 <= i /\ i <= (a + s + 5) + 1
    BY <1>1, Zenon DEF InField
  <1> HIDE DEF v, s, a
  <1>7. \/ i = p + 1 \/ i = p + 2 \/ i = p + 3
        \/ \E k \in 1 .. s : i = p + 3 + k
    <2>1. i - (p + 3) \in 1 .. s \/ i = p + 1 \/ i = p + 2 \/ i = p + 3
      BY <1>1, <1>6
    <2>2. i = p + 3 + (i - (p + 3))
      BY <1>1
    <2> QED
      BY <2>1, <2>2, Zenon
  <1>8. /\ x[p + 1] = f[q][1] /\ x[p + 2] = 58 /\ x[p + 3] = 32
        /\ \A k \in 1 .. s : x[p + 3 + k] = v[k]
    BY <1>5, Zenon DEF FieldAt, s
  <1> HIDE DEF p
  <1>9. CASE i = p + 1
    BY <1>3, <1>8, <1>9
  <1>10. CASE i = p + 2
    BY <1>8, <1>10
  <1>11. CASE i = p + 3
    BY <1>8, <1>11
  <1>12. CASE \E k \in 1 .. s : i = p + 3 + k
    BY <1>4, <1>8, <1>12
  <1> QED
    BY <1>7, <1>9, <1>10, <1>11, <1>12

\* and what stands between fields is one.
LEMMA EndIsBreak ==
  ASSUME NEW f, NEW at, ArePlaces(f, at), NEW x, IsHeaded(x, f, at),
         NEW i \in Nat, IsBetween(f, at, i)
  PROVE  x[i] = 13 \/ x[i] = 10
  <1>1. at[0] = 0 /\ Len(f) \in Nat
    BY PlaceIs, Zenon
  <1>2. ASSUME NEW q \in 0 .. Len(f), IsEnd(at, i, q)
        PROVE  x[i] = 13 \/ x[i] = 10
    <2>1. CASE q = 0
      <3>1. i = 2 \/ i = 3
        BY <1>1, <1>2, <2>1 DEF IsEnd
      <3> QED
        BY <3>1 DEF IsHeaded
    <2>2. CASE q # 0
      <3>1. q \in 1 .. Len(f)
        BY <1>1, <2>2
      <3> DEFINE v == f[q][2]
                 s == Len(v)
                 a == at[q - 1]
                 p == a + 3
      <3>2. a \in Nat /\ s \in Nat /\ at[q] = a + s + 5
        BY <3>1, PlaceIs, Zenon
      <3>3. FieldAt(x, p, f[q][1], v)
        BY <3>1, Zenon DEF IsHeaded
      <3>4. i = (a + s + 5) + 2 \/ i = (a + s + 5) + 3
        BY <1>2, <3>2, Zenon DEF IsEnd
      <3> HIDE DEF a, s, v
      <3>5. i = p + s + 4 \/ i = p + s + 5
        BY <3>2, <3>4
      <3> HIDE DEF p
      <3> QED
        BY <3>3, <3>5, Zenon DEF FieldAt, s
    <2> QED
      BY <2>1, <2>2
  <1>3. CASE i = at[Len(f)] + 4 \/ i = at[Len(f)] + 5
    BY <1>3 DEF IsHeaded
  <1> QED
    BY <1>2, <1>3, Zenon DEF IsBetween

\* There is no NUL in a header.
LEMMA NoNul ==
  ASSUME NEW f, NEW at, ArePlaces(f, at), NEW x, IsHeaded(x, f, at),
         NEW i \in 1 .. HeadLength(f, at)
  PROVE  x[i] # 0
  <1>1. i \in Nat
    BY PlaceIs DEF HeadLength
  <1>2. CASE i = 1
    <2>1. x[1] = 256
      BY Zenon DEF IsHeaded
    <2> QED
      BY <1>2, <2>1
  <1>3. CASE IsBetween(f, at, i)
    <2>1. x[i] = 13 \/ x[i] = 10
      BY <1>1, <1>3, EndIsBreak
    <2> QED
      BY <2>1
  <1>4. CASE \E q \in 1 .. Len(f) : InField(f, at, i, q)
    BY <1>1, <1>4, FieldUnbroken, Zenon
  <1> QED
    BY <1>2, <1>3, <1>4, PlaceInHeader, Zenon

\* A C string goes up to the first NUL.
IsCString(x, b) ==
  /\ x \in Seq(Nat) /\ Len(x) <= Len(b)
  /\ \A i \in 1 .. Len(x) : x[i] = b[i] /\ x[i] # 0
  /\ Len(x) < Len(b) => b[Len(x) + 1] = 0

\* The text of a buffer ends before the first NUL.
LEMMA CStringIs ==
  ASSUME NEW b \in Seq(Nat)
  PROVE  IsCString(Shake!CString(b), b)
  <1> DEFINE nuls == {i \in 1 .. Len(b) : b[i] = 0}
  <1>1. Shake!CString(b) = IF nuls = {} THEN b
                           ELSE SubSeq(b, 1, Shake!Lowest(nuls) - 1)
    <2>1. DOMAIN b = 1 .. Len(b)
      OBVIOUS
    <2> QED
      BY <2>1, Zenon DEF Shake!CString, Shake!Nul
  <1>2. CASE nuls = {}
    <2>1. \A i \in 1 .. Len(b) : b[i] # 0
      BY <1>2
    <2>2. IsCString(b, b)
      BY <2>1 DEF IsCString
    <2> QED
      BY <1>1, <1>2, <2>2, Zenon
  <1>3. CASE nuls # {}
    <2> DEFINE m == Shake!Lowest(nuls)
               x == SubSeq(b, 1, m - 1)
    <2>1. nuls \in SUBSET Nat
      OBVIOUS
    <2>2. m \in nuls /\ \A k \in nuls : m <= k
      <3> HIDE DEF nuls
      <3> QED
        BY <1>3, <2>1, LowestOf, Zenon
    <2> HIDE DEF m
    <2>3. m \in 1 .. Len(b) /\ b[m] = 0
      BY <2>2
    <2>4. \A i \in 1 .. m - 1 : b[i] # 0
      <3> TAKE i \in 1 .. m - 1
      <3>1. i \in 1 .. Len(b) /\ ~(m <= i)
        BY <2>3
      <3> QED
        BY <2>2, <3>1
    <2>5. x \in Seq(Nat) /\ Len(x) = m - 1
          /\ \A i \in 1 .. m - 1 : x[i] = b[i]
      BY <2>3
    <2> HIDE DEF x
    <2>6. Len(x) <= Len(b) /\ Len(x) + 1 = m
      BY <2>3, <2>5
    <2>7. IsCString(x, b)
      BY <2>3, <2>4, <2>5, <2>6, Zenon DEF IsCString
    <2> QED
      BY <1>1, <1>3, <2>7, Zenon DEF x, m
  <1> QED
    BY <1>2, <1>3

\* So that the header is whole in it.
LEMMA CStringHeaded ==
  ASSUME NEW f, NEW at, ArePlaces(f, at), NEW b, IsHeaded(b, f, at)
  PROVE  IsHeaded(Shake!CString(b), f, at)
  <1> DEFINE x == Shake!CString(b)
             h == HeadLength(f, at)
  <1>1. b \in Seq(Nat) /\ Len(b) >= h
    BY Zenon DEF IsHeaded
  <1>2. IsCString(x, b)
    BY <1>1, CStringIs, Zenon
  <1> HIDE DEF x
  <1>3. h \in Nat /\ Len(b) \in Nat /\ Len(x) \in Nat /\ x \in Seq(Nat)
    <2>1. at[Len(f)] \in Nat
      BY PlaceIs, Zenon
    <2>2. h \in Nat
      BY <2>1 DEF HeadLength
    <2> HIDE DEF h
    <2> QED
      BY <1>1, <1>2, <2>2 DEF IsCString
  <1> HIDE DEF h
  <1>4. Len(x) >= h
    <2> SUFFICES ASSUME ~(Len(x) >= h) PROVE FALSE
      OBVIOUS
    <2>1. Len(x) + 1 \in 1 .. h /\ Len(x) < Len(b)
      BY <1>1, <1>3
    <2>2. b[Len(x) + 1] = 0
      BY <1>2, <2>1, Zenon DEF IsCString
    <2> QED
      BY <2>1, <2>2, NoNul, Zenon DEF h
  <1>5. \A i \in 1 .. h : x[i] = b[i]
    <2> TAKE i \in 1 .. h
    <2>1. i \in 1 .. Len(x)
      BY <1>3, <1>4
    <2> QED
      BY <1>2, <2>1, Zenon DEF IsCString
  <1>6. IsHeaded(x, f, at)
    BY <1>3, <1>4, <1>5, HeadedAlike, Zenon DEF h
  <1> QED
    BY <1>6, Zenon DEF x

-----------------------------------------------------------------------------
(* The lines that a header is read by.                                     *)

\* What is inside of a line.
LEMMA InsideIs ==
  ASSUME NEW x \in Seq(Nat), NEW i \in Nat
  PROVE  /\ i \in 1 .. Len(x) =>
              (Shake!Inside(x, i) <=> x[i] # 13 /\ x[i] # 10)
         /\ i \notin 1 .. Len(x) => ~Shake!Inside(x, i)
  <1>1. DOMAIN x = 1 .. Len(x)
    OBVIOUS
  <1>2. Shake!Inside(x, i) <=> i \in 1 .. Len(x) /\ x[i] \notin {13, 10}
    BY <1>1, Zenon DEF Shake!Inside, Shake!CR, Shake!LF
  <1> QED
    BY <1>2

\* Where lines start.
LEMMA StartIs ==
  ASSUME NEW x
  PROVE  /\ Shake!Starts(x) \subseteq 1 .. Len(x) + 1
         /\ \A i \in 1 .. Len(x) + 1 :
              i \in Shake!Starts(x) <=>
                /\ i = 1 \/ ~Shake!Inside(x, i - 1)
                /\ Shake!Inside(x, i) \/ i = 1 \/ i = Len(x) + 1
  BY Zenon DEF Shake!Starts

\* In a header the first one does, and each field's.
LEMMA HeaderInside ==
  ASSUME NEW f, NEW at, ArePlaces(f, at), NEW x, IsHeaded(x, f, at),
         NEW i \in 1 .. HeadLength(f, at)
  PROVE  /\ i \in 1 .. Len(x)
         /\ IsBetween(f, at, i) => ~Shake!Inside(x, i)
         /\ \A q \in 1 .. Len(f) : InField(f, at, i, q) => Shake!Inside(x, i)
  <1>1. x \in Seq(Nat) /\ Len(x) >= HeadLength(f, at)
    BY Zenon DEF IsHeaded
  <1>2. HeadLength(f, at) \in Nat
    BY PlaceIs DEF HeadLength
  <1>3. i \in 1 .. Len(x) /\ i \in Nat
    BY <1>1, <1>2
  <1>4. ASSUME IsBetween(f, at, i) PROVE ~Shake!Inside(x, i)
    <2>1. x[i] = 13 \/ x[i] = 10
      BY <1>3, <1>4, EndIsBreak
    <2> QED
      BY <1>1, <1>3, <2>1, InsideIs, Zenon
  <1>5. ASSUME NEW q \in 1 .. Len(f), InField(f, at, i, q)
        PROVE  Shake!Inside(x, i)
    <2>1. x[i] # 10 /\ x[i] # 13
      BY <1>3, <1>5, FieldUnbroken, Zenon
    <2> QED
      BY <1>1, <1>3, <2>1, InsideIs, Zenon
  <1> QED
    BY <1>3, <1>4, <1>5, Zenon

\* Where a field and the breaks around it are is in the header.
LEMMA FieldPlace ==
  ASSUME NEW f, NEW at, ArePlaces(f, at), NEW q \in 1 .. Len(f)
  PROVE  /\ at[q - 1] + 4 \in 5 - 1 .. at[q] - 1
         /\ at[q - 1] + 4 \in 2 .. HeadLength(f, at)
         /\ at[q - 1] + 3 \in 1 .. HeadLength(f, at)
         /\ at[q] + 2 \in 1 .. HeadLength(f, at)
         /\ IsBetween(f, at, at[q - 1] + 3)
         /\ IsBetween(f, at, at[q] + 2)
         /\ \A k \in Nat : at[q - 1] + 4 <= k /\ k <= at[q] + 1 =>
              k \in 1 .. HeadLength(f, at) /\ InField(f, at, k, q)
  <1> DEFINE a == at[q - 1]
             z == at[q]
             s == Len(f[q][2])
             e == at[Len(f)]
  <1>1. /\ a \in Nat /\ z \in Nat /\ s \in Nat /\ e \in Nat
        /\ z = a + s + 5 /\ z <= e
        /\ q - 1 \in 0 .. Len(f) /\ q \in 0 .. Len(f)
        /\ HeadLength(f, at) = e + 5
    BY PlaceIs, Zenon DEF HeadLength
  <1>2. IsBetween(f, at, a + 3)
    BY <1>1, Zenon DEF IsBetween, IsEnd
  <1>3. IsBetween(f, at, z + 2)
    BY <1>1, Zenon DEF IsBetween, IsEnd
  <1>4. \A k \in Nat : a + 4 <= k /\ k <= z + 1 => InField(f, at, k, q)
    BY Zenon DEF InField
  <1> HIDE DEF a, z, s, e
  <1>5. /\ a + 4 \in 5 - 1 .. z - 1
        /\ a + 4 \in 2 .. e + 5 /\ a + 3 \in 1 .. e + 5 /\ z + 2 \in 1 .. e + 5
        /\ \A k \in Nat : a + 4 <= k /\ k <= z + 1 => k \in 1 .. e + 5
    BY <1>1
  <1> QED
    BY <1>1, <1>2, <1>3, <1>4, <1>5, Zenon DEF a, z

\* The lines of a header start with the request and with its fields.
LEMMA StartInHeader ==
  ASSUME NEW f, NEW at, ArePlaces(f, at), NEW x, IsHeaded(x, f, at),
         NEW i \in 1 .. HeadLength(f, at)
  PROVE  i \in Shake!Starts(x) <=>
           i = 1 \/ \E q \in 1 .. Len(f) : i = at[q - 1] + 4
  <1> DEFINE h == HeadLength(f, at)
  <1>1. x \in Seq(Nat) /\ Len(x) >= h /\ Len(x) \in Nat /\ h \in Nat
    <2>1. x \in Seq(Nat) /\ Len(x) >= h
      BY Zenon DEF IsHeaded
    <2>2. h \in Nat
      BY PlaceIs DEF HeadLength
    <2> QED
      BY <2>1, <2>2
  <1> HIDE DEF h
  <1>2. i \in 1 .. h /\ i \in 1 .. Len(x) + 1 /\ i # Len(x) + 1
    BY <1>1 DEF h
  <1>3. i = 1 => i \in Shake!Starts(x)
    BY <1>2, StartIs, Zenon
  <1>4. ASSUME NEW q \in 1 .. Len(f), i = at[q - 1] + 4
        PROVE  i \in Shake!Starts(x)
    <2>1. /\ at[q - 1] + 3 \in 1 .. h /\ IsBetween(f, at, at[q - 1] + 3)
          /\ at[q - 1] + 4 \in 5 - 1 .. at[q] - 1
      BY FieldPlace, Zenon DEF h
    <2>2. i \in Nat /\ at[q - 1] + 4 <= i /\ i <= at[q] + 1
          /\ i - 1 = at[q - 1] + 3
      <3>1. at[q - 1] \in Nat /\ at[q] \in Nat
        BY PlaceIs, Zenon
      <3> DEFINE a == at[q - 1]  z == at[q]
      <3>2. a \in Nat /\ z \in Nat /\ a + 4 \in 5 - 1 .. z - 1 /\ i = a + 4
        BY <1>4, <2>1, <3>1, Zenon
      <3> HIDE DEF a, z
      <3>3. i \in Nat /\ a + 4 <= i /\ i <= z + 1 /\ i - 1 = a + 3
        BY <3>2
      <3> QED
        BY <3>3, Zenon DEF a, z
    <2>3. ~Shake!Inside(x, i - 1)
      BY <2>1, <2>2, HeaderInside, Zenon DEF h
    <2>4. InField(f, at, i, q)
      BY <2>2, FieldPlace, Zenon
    <2>5. Shake!Inside(x, i)
      BY <2>4, HeaderInside, Zenon
    <2> QED
      BY <1>2, <2>3, <2>5, StartIs, Zenon
  <1>5. ASSUME i \in Shake!Starts(x), i # 1
        PROVE  \E q \in 1 .. Len(f) : i = at[q - 1] + 4
    <2>1. ~Shake!Inside(x, i - 1) /\ Shake!Inside(x, i)
      BY <1>2, <1>5, StartIs, Zenon
    <2>2. ~IsBetween(f, at, i)
      BY <2>1, HeaderInside, Zenon
    <2>3. PICK q \in 1 .. Len(f) : InField(f, at, i, q)
      BY <1>5, <2>2, PlaceInHeader, Zenon
    <2>4. i = at[q - 1] + 4
      <3> SUFFICES ASSUME i # at[q - 1] + 4 PROVE FALSE
        OBVIOUS
      <3> DEFINE a == at[q - 1]  z == at[q]
      <3>1. a \in Nat /\ z \in Nat
        BY PlaceIs, Zenon
      <3>2. a + 4 <= i /\ i <= z + 1 /\ i # a + 4
        BY <2>3, Zenon DEF InField
      <3> HIDE DEF a, z
      <3>3. i - 1 \in Nat /\ a + 4 <= i - 1 /\ i - 1 <= z + 1
            /\ i - 1 \in 1 .. h
        BY <1>1, <1>2, <3>1, <3>2
      <3>4. InField(f, at, i - 1, q)
        BY <3>3, Zenon DEF InField, a, z
      <3>5. Shake!Inside(x, i - 1)
        BY <3>3, <3>4, HeaderInside, Zenon DEF h
      <3> QED
        BY <2>1, <3>5
    <2> QED
      BY <2>4
  <1> QED
    BY <1>3, <1>4, <1>5, Zenon

\* The body's line starts behind the header, and is the last.
LEMMA LastStart ==
  ASSUME NEW f, NEW at, ArePlaces(f, at), NEW x, IsHeaded(x, f, at)
  PROVE  /\ Shake!Highest(Shake!Starts(x)) \in Shake!Starts(x)
         /\ Shake!Highest(Shake!Starts(x)) > HeadLength(f, at)
         /\ \A i \in Shake!Starts(x) : i <= Shake!Highest(Shake!Starts(x))
  <1> DEFINE h == HeadLength(f, at)
             all == Shake!Starts(x)
             m == Len(x)
  <1>1. x \in Seq(Nat) /\ m >= h /\ m \in Nat /\ h \in Nat /\ h >= 5
    <2>1. x \in Seq(Nat) /\ Len(x) >= h
      BY Zenon DEF IsHeaded
    <2>2. h \in Nat /\ h >= 5
      BY PlaceIs DEF HeadLength
    <2> HIDE DEF h
    <2> QED
      BY <2>1, <2>2
  <1>2. /\ all \subseteq 1 .. m + 1
        /\ \A i \in 1 .. m + 1 :
             i \in all <=> /\ i = 1 \/ ~Shake!Inside(x, i - 1)
                           /\ Shake!Inside(x, i) \/ i = 1 \/ i = m + 1
    BY StartIs, Zenon
  <1>3. h \in 1 .. m /\ ~Shake!Inside(x, h)
    <2>1. h \in 1 .. h
      <3> HIDE DEF h
      <3> QED
        BY <1>1
    <2>2. IsBetween(f, at, h)
      BY Zenon DEF IsBetween, HeadLength
    <2> QED
      BY <2>1, <2>2, HeaderInside, Zenon
  <1> HIDE DEF h, m, all
  <1>4. \E i \in all : i > h
    <2>1. CASE ~Shake!Inside(x, m)
      <3>1. m + 1 \in 1 .. m + 1 /\ (m + 1) - 1 = m /\ m + 1 > h
        BY <1>1
      <3>2. m + 1 \in all
        BY <1>2, <2>1, <3>1, Zenon
      <3> QED
        BY <3>1, <3>2, Zenon
    <2>2. CASE Shake!Inside(x, m)
      <3> DEFINE B == {k \in 1 .. m : ~Shake!Inside(x, k)}
                 b == Shake!Highest(B)
      <3>1. h \in B /\ B \in SUBSET (0 .. m) /\ B # {}
        BY <1>1, <1>3
      <3>2. b \in B /\ \A k \in B : b >= k
        <4> HIDE DEF B
        <4> QED
          BY <1>1, <3>1, HighestOf, Zenon
      <3> HIDE DEF b
      <3>3. b \in 1 .. m /\ ~Shake!Inside(x, b) /\ b >= h
        BY <3>1, <3>2
      <3>4. b # m
        BY <2>2, <3>3
      <3>5. b + 1 \in 1 .. m /\ b + 1 \in 1 .. m + 1 /\ (b + 1) - 1 = b
            /\ b + 1 > h /\ ~(b >= b + 1)
        BY <1>1, <3>3, <3>4
      <3>6. Shake!Inside(x, b + 1)
        BY <3>2, <3>5
      <3>7. b + 1 \in all
        BY <1>2, <3>3, <3>5, <3>6
      <3> QED
        BY <3>5, <3>7, Zenon
    <2> QED
      BY <2>1, <2>2
  <1>5. PICK s \in all : s > h
    BY <1>4
  <1> DEFINE t == Shake!Highest(all)
  <1>6. t \in all /\ \A k \in all : t >= k
    <2>1. m + 1 \in Nat /\ all \in SUBSET (0 .. m + 1) /\ all # {}
      BY <1>1, <1>2, <1>5
    <2> QED
      BY <2>1, HighestOf, Zenon
  <1> HIDE DEF t
  <1>7. t >= s /\ s \in 1 .. m + 1 /\ t \in 1 .. m + 1
    BY <1>2, <1>5, <1>6
  <1>8. t > h
    BY <1>1, <1>5, <1>7
  <1>9. \A i \in all : i <= t
    BY <1>2, <1>6, <1>7
  <1> QED
    BY <1>6, <1>8, <1>9, Zenon DEF t, all, h

\* A line goes on as long as there is something inside.
LEMMA LineIs ==
  ASSUME NEW x \in Seq(Nat), NEW i \in 1 .. Len(x) + 1,
         NEW j \in i - 1 .. Len(x), ~Shake!Inside(x, j + 1),
         \A k \in i .. j : Shake!Inside(x, k)
  PROVE  Shake!LineAt(x, i) = SubSeq(x, i, j)
  <1> DEFINE IsLast(l) == ~Shake!Inside(x, l + 1)
                          /\ \A k \in i .. l : Shake!Inside(x, k)
             c == CHOOSE l \in i - 1 .. Len(x) : IsLast(l)
  <1>1. IsLast(j)
    OBVIOUS
  <1>2. c \in i - 1 .. Len(x) /\ IsLast(c)
    BY <1>1, Zenon
  <1>3. Shake!LineAt(x, i) = SubSeq(x, i, c)
    BY Zenon DEF Shake!LineAt
  <1> HIDE DEF c
  <1>4. c + 1 \in i .. j => Shake!Inside(x, c + 1)
    OBVIOUS
  <1>5. j + 1 \in i .. c => Shake!Inside(x, j + 1)
    BY <1>2
  <1>6. c + 1 \notin i .. j /\ j + 1 \notin i .. c
    BY <1>2, <1>4, <1>5
  <1>7. c = j
    BY <1>2, <1>6
  <1> QED
    BY <1>3, <1>7, Zenon

\* Every line has an end.
LEMMA SomeEnd ==
  ASSUME NEW x \in Seq(Nat), NEW i \in 1 .. Len(x) + 1
  PROVE  \E j \in i - 1 .. Len(x) :
           /\ ~Shake!Inside(x, j + 1)
           /\ \A k \in i .. j : Shake!Inside(x, k)
  <1> DEFINE m == Len(x)
             B == {j \in i - 1 .. m : ~Shake!Inside(x, j + 1)}
  <1>1. m \in Nat /\ i \in 1 .. m + 1
    BY LenProperties, Zenon
  <1>2. ~Shake!Inside(x, m + 1)
    <2>1. m + 1 \in Nat /\ m + 1 \notin 1 .. m
      BY <1>1
    <2> QED
      BY <2>1, InsideIs, Zenon
  <1> HIDE DEF m
  <1>3. B \in SUBSET Nat /\ B # {}
    <2>1. m \in i - 1 .. m /\ \A j \in i - 1 .. m : j \in Nat
      BY <1>1
    <2> QED
      BY <1>2, <2>1, Zenon
  <1>4. PICK j \in B : \A k \in B : j <= k
    BY <1>3, Least, Zenon
  <1>5. j \in i - 1 .. m /\ ~Shake!Inside(x, j + 1)
    BY <1>4
  <1>6. \A k \in i .. j : Shake!Inside(x, k)
    <2> TAKE k \in i .. j
    <2>1. k - 1 \in i - 1 .. m /\ ~(j <= k - 1) /\ (k - 1) + 1 = k
      BY <1>1, <1>5
    <2>2. k - 1 \notin B
      BY <1>4, <2>1
    <2> QED
      BY <2>1, <2>2, Zenon
  <1> QED
    BY <1>5, <1>6, Zenon DEF m

\* The line of a field.
LEMMA FieldLine ==
  ASSUME NEW f, NEW at, ArePlaces(f, at), NEW x, IsHeaded(x, f, at),
         NEW q \in 1 .. Len(f)
  PROVE  Shake!LineAt(x, at[q - 1] + 4) = SubSeq(x, at[q - 1] + 4, at[q] + 1)
  <1> DEFINE i == at[q - 1] + 4
             j == at[q] + 1
             h == HeadLength(f, at)
  <1>1. /\ i \in 5 - 1 .. at[q] - 1 /\ i \in 2 .. h /\ at[q] + 2 \in 1 .. h
        /\ IsBetween(f, at, at[q] + 2)
        /\ \A k \in Nat : i <= k /\ k <= j =>
             k \in 1 .. h /\ InField(f, at, k, q)
    BY FieldPlace, Zenon
  <1>2. x \in Seq(Nat) /\ Len(x) >= h
    BY Zenon DEF IsHeaded
  <1>3. h \in Nat /\ at[q] \in Nat /\ j = at[q] + 1
    <2>1. at[Len(f)] \in Nat /\ at[q] \in Nat
      BY PlaceIs, Zenon
    <2> QED
      BY <2>1 DEF HeadLength
  <1>4. ~Shake!Inside(x, at[q] + 2)
    <2> DEFINE k == at[q] + 2
    <2>1. k \in 1 .. HeadLength(f, at) /\ IsBetween(f, at, k)
      BY <1>1, Zenon
    <2> HIDE DEF k, i, j, h
    <2>2. ~Shake!Inside(x, k)
      BY <2>1, HeaderInside, Zenon
    <2> QED
      BY <2>2, Zenon DEF k
  <1>8. Len(x) \in Nat
    BY <1>2, LenProperties, Zenon
  <1> HIDE DEF i, j, h
  <1>5. /\ i \in 1 .. Len(x) + 1 /\ j \in i - 1 .. Len(x) /\ j + 1 = at[q] + 2
        /\ \A k \in i .. j : k \in Nat /\ i <= k /\ k <= j
    <2> DEFINE z == at[q]  m == Len(x)
    <2>1. /\ i \in 5 - 1 .. z - 1 /\ i \in 2 .. h /\ z + 2 \in 1 .. h
          /\ m >= h /\ h \in Nat /\ z \in Nat /\ j = z + 1 /\ m \in Nat
      BY <1>1, <1>2, <1>3, <1>8, Zenon
    <2> HIDE DEF z, m
    <2>2. i \in 1 .. m + 1 /\ j \in i - 1 .. m /\ j + 1 = z + 2
      BY <2>1
    <2>3. \A k \in i .. j : k \in Nat /\ i <= k /\ k <= j
      BY <2>1
    <2> QED
      BY <2>2, <2>3, Zenon DEF z, m
  <1>6. \A k \in i .. j : Shake!Inside(x, k)
    BY <1>1, <1>5, HeaderInside, Zenon DEF h
  <1>7. Shake!LineAt(x, i) = SubSeq(x, i, j)
    BY <1>2, <1>4, <1>5, <1>6, LineIs, Zenon
  <1> QED
    BY <1>7, Zenon DEF i, j

\* A field's line without its end.
IsText(l, name, value) ==
  /\ l \in Seq(Nat) /\ Len(l) = Len(value) + 3
  /\ l[1] = name /\ l[2] = 58 /\ l[3] = 32
  /\ \A i \in 1 .. Len(value) : l[3 + i] = value[i]

\* A part of a sequence has the elements at their places.
LEMMA PartOf ==
  ASSUME NEW x \in Seq(Nat), NEW i \in Nat, i >= 1, NEW j \in Nat,
         j <= Len(x), i - 1 <= j
  PROVE  /\ SubSeq(x, i, j) \in Seq(Nat) /\ Len(SubSeq(x, i, j)) = j - i + 1
         /\ \A k \in 1 .. j - i + 1 : SubSeq(x, i, j)[k] = x[i + k - 1]
  OBVIOUS

\* The line that starts where a field is, is the field's.
LEMMA FieldText ==
  ASSUME NEW f, NEW at, ArePlaces(f, at), NEW x, IsHeaded(x, f, at),
         NEW q \in 1 .. Len(f)
  PROVE  IsText(Shake!LineAt(x, at[q - 1] + 4), f[q][1], f[q][2])
  <1> DEFINE a == at[q - 1]
             z == at[q]
             v == f[q][2]
             s == Len(v)
             p == a + 3
             l == SubSeq(x, a + 4, z + 1)
  <1>1. Shake!LineAt(x, a + 4) = l
    BY FieldLine, Zenon
  <1>2. a \in Nat /\ s \in Nat /\ z \in Nat /\ z = a + s + 5
        /\ z <= at[Len(f)] /\ at[Len(f)] \in Nat
    BY PlaceIs, Zenon
  <1>3. x \in Seq(Nat) /\ Len(x) >= at[Len(f)] + 5
        /\ FieldAt(x, p, f[q][1], v)
    BY Zenon DEF IsHeaded, HeadLength
  <1>4. Len(x) \in Nat
    BY <1>3, LenProperties, Zenon
  <1> DEFINE e == at[Len(f)]
  <1> HIDE DEF a, z, s, l, v, e
  <1>5. /\ a + 4 \in Nat /\ a + 4 >= 1 /\ z + 1 \in Nat /\ z + 1 <= Len(x)
        /\ (a + 4) - 1 <= z + 1 /\ (z + 1) - (a + 4) + 1 = s + 3
        /\ \A k \in 1 .. s + 3 : (a + 4) + k - 1 = p + k
        /\ 1 \in 1 .. s + 3 /\ 2 \in 1 .. s + 3 /\ 3 \in 1 .. s + 3
        /\ \A i \in 1 .. s : 3 + i \in 1 .. s + 3 /\ p + (3 + i) = p + 3 + i
    <2>1. a \in Nat /\ s \in Nat /\ z \in Nat /\ z = a + s + 5
          /\ z <= e /\ e \in Nat /\ Len(x) >= e + 5
      BY <1>2, <1>3 DEF e
    <2> QED
      BY <1>4, <2>1
  <1>6. /\ l \in Seq(Nat) /\ Len(l) = s + 3
        /\ \A k \in 1 .. s + 3 : l[k] = x[(a + 4) + k - 1]
    <2> DEFINE b == a + 4  c == z + 1
    <2>1. b \in Nat /\ b >= 1 /\ c \in Nat /\ c <= Len(x) /\ b - 1 <= c
          /\ c - b + 1 = s + 3
      BY <1>5, Zenon
    <2> HIDE DEF b, c
    <2>2. /\ SubSeq(x, b, c) \in Seq(Nat) /\ Len(SubSeq(x, b, c)) = c - b + 1
          /\ \A k \in 1 .. c - b + 1 : SubSeq(x, b, c)[k] = x[b + k - 1]
      BY <1>3, <2>1, PartOf, Zenon
    <2>3. l = SubSeq(x, b, c)
      BY Zenon DEF l, b, c
    <2> QED
      BY <2>1, <2>2, <2>3, Zenon DEF b
  <1> HIDE DEF p
  <1>7. \A k \in 1 .. s + 3 : l[k] = x[p + k]
    BY <1>5, <1>6, Zenon
  <1>8. /\ x[p + 1] = f[q][1] /\ x[p + 2] = 58 /\ x[p + 3] = 32
        /\ \A i \in 1 .. s : x[p + 3 + i] = v[i]
    BY <1>3, Zenon DEF FieldAt, s
  <1>9. \A i \in 1 .. s : l[3 + i] = v[i]
    <2> TAKE i \in 1 .. s
    <2>1. 3 + i \in 1 .. s + 3 /\ p + (3 + i) = p + 3 + i
      BY <1>5, Zenon
    <2>2. l[3 + i] = x[p + (3 + i)]
      BY <1>7, <2>1, Zenon
    <2> QED
      BY <1>8, <2>1, <2>2, Zenon
  <1>10. l[1] = f[q][1] /\ l[2] = 58 /\ l[3] = 32
    BY <1>5, <1>7, <1>8, Zenon
  <1>11. IsText(l, f[q][1], v)
    BY <1>6, <1>9, <1>10, Zenon DEF IsText, s
  <1> QED
    BY <1>1, <1>11, Zenon DEF a, v

\* What trim takes away.
LEMMA BlanksAre == 32 \in Shake!Blanks /\ \A b \in Shake!Blanks : b < 256
  BY DEF Shake!Blanks, Shake!Space

\* trim leaves a name alone,
LEMMA TrimName ==
  ASSUME NEW name \in Nat, name \notin Shake!Blanks
  PROVE  Shake!Trim(<<name>>) = <<name>>
  <1> DEFINE t == <<name>>
             kept == {i \in DOMAIN t : t[i] \notin Shake!Blanks}
  <1>1. t \in Seq(Nat) /\ DOMAIN t = 1 .. 1 /\ t[1] = name /\ Len(t) = 1
    OBVIOUS
  <1> HIDE DEF t
  <1>2. kept = {1}
    BY <1>1
  <1> HIDE DEF kept
  <1>3. kept \in SUBSET Nat /\ 1 \in kept /\ kept # {}
        /\ \A k \in kept : 1 <= k /\ 1 >= k
    BY <1>2
  <1>4. Shake!Lowest(kept) = 1 /\ Shake!Highest(kept) = 1
    BY <1>3, LowestIs, HighestIs, Zenon
  <1>5. Shake!Trim(t) = SubSeq(t, Shake!Lowest(kept), Shake!Highest(kept))
    BY <1>3, Zenon DEF Shake!Trim, kept
  <1>6. SubSeq(t, 1, 1) = t
    BY <1>1
  <1> QED
    BY <1>4, <1>5, <1>6, Zenon DEF t

\* and takes the blank before a value away.
LEMMA TrimValue ==
  ASSUME NEW v \in Seq(Nat), Shake!IsValue(v), NEW t \in Seq(Nat),
         Len(t) = Len(v) + 1, t[1] = 32,
         \A i \in 1 .. Len(v) : t[1 + i] = v[i]
  PROVE  Shake!Trim(t) = v
  <1> DEFINE s == Len(v)
             kept == {i \in DOMAIN t : t[i] \notin Shake!Blanks}
  <1>1. s \in Nat /\ DOMAIN t = 1 .. s + 1
    OBVIOUS
  <1>2. Shake!Trim(t) = IF kept = {} THEN <<>>
                        ELSE SubSeq(t, Shake!Lowest(kept),
                                    Shake!Highest(kept))
    BY Zenon DEF Shake!Trim
  <1>3. v # <<>> => v[1] \notin Shake!Blanks /\ v[s] \notin Shake!Blanks
    BY Zenon DEF Shake!IsValue
  <1>4. CASE v = <<>>
    <2>1. s = 0
      BY <1>4
    <2>2. kept = {}
      BY <1>1, <2>1, BlanksAre
    <2> QED
      BY <1>2, <1>4, <2>2, Zenon
  <1>5. CASE v # <<>>
    <2>1. s >= 1
      BY <1>5
    <2>2. t[2] \notin Shake!Blanks /\ t[s + 1] \notin Shake!Blanks
      <3>1. 1 \in 1 .. s /\ s \in 1 .. s /\ 1 + 1 = 2 /\ 1 + s = s + 1
        BY <1>1, <2>1
      <3>2. t[1 + 1] = v[1] /\ t[1 + s] = v[s]
        BY <3>1, Zenon
      <3> QED
        BY <1>3, <1>5, <3>1, <3>2, Zenon
    <2> HIDE DEF s
    <2>3. 2 \in kept /\ s + 1 \in kept /\ kept \in SUBSET Nat /\ kept # {}
      <3>1. kept = {i \in 1 .. s + 1 : t[i] \notin Shake!Blanks}
        BY <1>1, Zenon
      <3>2. 2 \in 1 .. s + 1 /\ s + 1 \in 1 .. s + 1
            /\ \A i \in 1 .. s + 1 : i \in Nat
        BY <1>1, <2>1
      <3> QED
        BY <2>2, <3>1, <3>2, Zenon
    <2>4. \A k \in kept : 2 <= k /\ s + 1 >= k
      BY <1>1, BlanksAre
    <2> HIDE DEF kept
    <2>5. Shake!Lowest(kept) = 2 /\ Shake!Highest(kept) = s + 1
      BY <2>3, <2>4, LowestIs, HighestIs, Zenon
    <2> DEFINE u == SubSeq(t, 2, s + 1)
    <2>6. /\ u \in Seq(Nat) /\ Len(u) = s
          /\ \A k \in 1 .. s : u[k] = t[1 + k]
      <3> DEFINE m == s + 1
      <3>1. m \in Nat /\ m <= Len(t) /\ 2 - 1 <= m /\ m - 2 + 1 = s
            /\ 2 \in Nat /\ 2 >= 1 /\ \A k \in 1 .. s : 2 + k - 1 = 1 + k
        BY <1>1, <2>1 DEF s
      <3> HIDE DEF m
      <3>2. /\ SubSeq(t, 2, m) \in Seq(Nat) /\ Len(SubSeq(t, 2, m)) = m - 2 + 1
            /\ \A k \in 1 .. m - 2 + 1 : SubSeq(t, 2, m)[k] = t[2 + k - 1]
        BY <3>1, PartOf
      <3>3. u = SubSeq(t, 2, m)
        BY Zenon DEF m
      <3> QED
        BY <3>1, <3>2, <3>3, Zenon
    <2> HIDE DEF u
    <2>7. \A k \in 1 .. Len(u) : u[k] = v[k]
      BY <2>6, Zenon DEF s
    <2>8. Len(u) = Len(v)
      BY <2>6, Zenon DEF s
    <2>9. u = v
      BY <2>6, <2>7, <2>8, SameSequence, Zenon
    <2> QED
      BY <1>2, <2>3, <2>5, <2>9, Zenon DEF u
  <1> QED
    BY <1>4, <1>5

\* A line is named as its field.
LEMMA NameIs ==
  ASSUME NEW l, NEW name \in Nat, name > 256, NEW v \in Seq(Nat),
         Shake!IsValue(v), IsText(l, name, v)
  PROVE  /\ \A m : Shake!IsNamed(l, m) <=> m = name
         /\ Shake!ValueOf(l) = v
  <1> DEFINE s == Len(v)
             C == Shake!Colons(l)
             w == SubSeq(l, 3, Len(l))
  <1>1. /\ l \in Seq(Nat) /\ Len(l) = s + 3 /\ s \in Nat
        /\ l[1] = name /\ l[2] = 58 /\ l[3] = 32
        /\ \A i \in 1 .. s : l[3 + i] = v[i]
    BY LenProperties, Zenon DEF IsText
  <1> HIDE DEF s
  <1>2. C = {i \in 1 .. Len(l) : l[i] = 58}
    <2>1. DOMAIN l = 1 .. Len(l)
      BY <1>1
    <2> QED
      BY <2>1, Zenon DEF Shake!Colons, Shake!Colon
  <1> HIDE DEF C
  <1>3. 2 \in C /\ C \in SUBSET Nat /\ C # {}
    <2>1. 2 \in 1 .. Len(l) /\ \A i \in 1 .. Len(l) : i \in Nat
      BY <1>1
    <2> QED
      BY <1>1, <1>2, <2>1, Zenon
  <1>4. \A k \in C : 2 <= k
    <2> TAKE k \in C
    <2>1. k \in Nat /\ k >= 1 /\ l[k] = 58
      BY <1>1, <1>2
    <2>2. k # 1
      BY <1>1, <2>1
    <2> QED
      BY <2>1, <2>2
  <1>5. Shake!Lowest(C) = 2
    BY <1>3, <1>4, LowestIs, Zenon
  <1>6. SubSeq(l, 1, 2 - 1) = <<name>>
    <2> DEFINE u == SubSeq(l, 1, 1)
    <2>1. 1 \in Nat /\ 1 >= 1 /\ 1 <= Len(l) /\ 1 - 1 <= 1 /\ 1 - 1 + 1 = 1
          /\ 2 - 1 = 1 /\ 1 + 1 - 1 = 1 /\ 1 \in 1 .. 1
      BY <1>1
    <2>2. u \in Seq(Nat) /\ Len(u) = 1 /\ u[1] = l[1]
      <3> DEFINE b == 1
      <3>1. b \in Nat /\ b >= 1 /\ b <= Len(l) /\ b - 1 <= b
            /\ b - b + 1 = 1 /\ b + 1 - b = 1 /\ 1 \in 1 .. b - b + 1
            /\ b + 1 - 1 = 1
        BY <1>1
      <3>2. l \in Seq(Nat) /\ u = SubSeq(l, b, b)
        BY <1>1, Zenon
      <3> HIDE DEF b, u
      <3>3. /\ SubSeq(l, b, b) \in Seq(Nat) /\ Len(SubSeq(l, b, b)) = b - b + 1
            /\ \A k \in 1 .. b - b + 1 : SubSeq(l, b, b)[k] = l[b + k - 1]
        BY <3>1, <3>2, PartOf, Zenon
      <3> QED
        BY <3>1, <3>2, <3>3, Zenon
    <2> HIDE DEF u
    <2>3. u = <<name>>
      BY <1>1, <2>2
    <2> QED
      BY <2>1, <2>3, Zenon DEF u
  <1>7. Shake!Trim(<<name>>) = <<name>>
    <2>1. name \notin Shake!Blanks
      BY BlanksAre
    <2> QED
      BY <2>1, TrimName, Zenon
  <1>8. \A m : Shake!IsNamed(l, m) <=> m = name
    <2> TAKE m
    <2>1. Shake!IsNamed(l, m) <=>
            /\ C # {}
            /\ Shake!Trim(SubSeq(l, 1, Shake!Lowest(C) - 1)) = <<m>>
      BY Zenon DEF Shake!IsNamed, C
    <2>2. Shake!IsNamed(l, m) <=> <<name>> = <<m>>
      BY <1>3, <1>5, <1>6, <1>7, <2>1, Zenon
    <2>3. <<name>> = <<m>> <=> m = name
      OBVIOUS
    <2> QED
      BY <2>2, <2>3, Zenon
  <1>9. Shake!ValueOf(l) = v
    <2>1. Shake!ValueOf(l) = Shake!Trim(SubSeq(l, Shake!Lowest(C) + 1, Len(l)))
      BY Zenon DEF Shake!ValueOf, C
    <2>2. 2 + 1 = 3
      OBVIOUS
    <2>3. Shake!ValueOf(l) = Shake!Trim(w)
      BY <1>5, <2>1, <2>2, Zenon
    <2>4. 3 \in Nat /\ 3 >= 1 /\ Len(l) \in Nat /\ Len(l) <= Len(l)
          /\ 3 - 1 <= Len(l) /\ Len(l) - 3 + 1 = s + 1
          /\ 1 \in 1 .. s + 1 /\ 3 + 1 - 1 = 3
          /\ \A i \in 1 .. s : 1 + i \in 1 .. s + 1 /\ 3 + (1 + i) - 1 = 3 + i
      BY <1>1
    <2>5. /\ w \in Seq(Nat) /\ Len(w) = Len(l) - 3 + 1
          /\ \A k \in 1 .. Len(l) - 3 + 1 : w[k] = l[3 + k - 1]
      <3> DEFINE b == 3  e == Len(l)
      <3>1. b \in Nat /\ b >= 1 /\ e \in Nat /\ e <= Len(l) /\ b - 1 <= e
            /\ l \in Seq(Nat)
        BY <1>1, <2>4, Zenon
      <3>2. w = SubSeq(l, b, e)
        BY Zenon
      <3> HIDE DEF b, e, w
      <3>3. /\ SubSeq(l, b, e) \in Seq(Nat) /\ Len(SubSeq(l, b, e)) = e - b + 1
            /\ \A k \in 1 .. e - b + 1 : SubSeq(l, b, e)[k] = l[b + k - 1]
        BY <3>1, PartOf, Zenon
      <3> QED
        BY <3>2, <3>3, Zenon DEF b, e
    <2> HIDE DEF w
    <2>6. /\ Len(w) = s + 1 /\ \A k \in 1 .. s + 1 : w[k] = l[3 + k - 1]
      BY <2>4, <2>5, Zenon
    <2>7. w[1] = 32
      BY <1>1, <2>4, <2>6
    <2>8. \A i \in 1 .. s : w[1 + i] = v[i]
      <3> TAKE i \in 1 .. s
      <3>1. w[1 + i] = l[3 + (1 + i) - 1]
        BY <2>4, <2>6, Zenon
      <3> QED
        BY <1>1, <2>4, <3>1, Zenon
    <2>9. Shake!Trim(w) = v
      BY <2>5, <2>6, <2>7, <2>8, TrimValue, Zenon DEF s
    <2> QED
      BY <2>3, <2>9, Zenon
  <1> QED
    BY <1>8, <1>9, Zenon

\* A line without the symbol has not the name.
LEMMA NoNameIn ==
  ASSUME NEW l \in Seq(Nat), NEW m, \A i \in 1 .. Len(l) : l[i] # m
  PROVE  ~Shake!IsNamed(l, m)
  <1> SUFFICES ASSUME Shake!IsNamed(l, m) PROVE FALSE
    OBVIOUS
  <1> DEFINE C == Shake!Colons(l)
             c == Shake!Lowest(C)
             u == SubSeq(l, 1, c - 1)
             kept == {i \in DOMAIN u : u[i] \notin Shake!Blanks}
             lo == Shake!Lowest(kept)
             hi == Shake!Highest(kept)
  <1>1. C # {} /\ Shake!Trim(u) = <<m>>
    BY Zenon DEF Shake!IsNamed
  <1>2. C \in SUBSET (1 .. Len(l)) /\ C \in SUBSET Nat /\ Len(l) \in Nat
    <2>1. DOMAIN l = 1 .. Len(l) /\ Len(l) \in Nat
      OBVIOUS
    <2>2. C \in SUBSET (1 .. Len(l))
      BY <2>1, Zenon DEF Shake!Colons
    <2> HIDE DEF C
    <2> QED
      BY <2>1, <2>2
  <1> HIDE DEF C
  <1>3. c \in C
    BY <1>1, <1>2, LowestOf, Zenon
  <1> HIDE DEF c
  <1>4. /\ u \in Seq(Nat) /\ Len(u) = c - 1 /\ c - 1 \in Nat
        /\ \A k \in 1 .. c - 1 : u[k] = l[k] /\ k \in 1 .. Len(l)
    BY <1>2, <1>3
  <1> HIDE DEF u
  <1>5. \A k \in 1 .. Len(u) : u[k] # m
    BY <1>4, Zenon
  <1>6. DOMAIN u = 1 .. Len(u) /\ Len(u) \in Nat
    BY <1>4
  <1>7. Shake!Trim(u) = IF kept = {} THEN <<>> ELSE SubSeq(u, lo, hi)
    BY Zenon DEF Shake!Trim
  <1>8. CASE kept = {}
    <2>1. Shake!Trim(u) = <<>>
      BY <1>7, <1>8, Zenon
    <2>2. <<>> # <<m>>
      OBVIOUS
    <2> QED
      BY <1>1, <2>1, <2>2, Zenon
  <1>9. CASE kept # {}
    <2>1. kept \in SUBSET (0 .. Len(u)) /\ kept \in SUBSET Nat
      BY <1>6
    <2>2. kept \in SUBSET (1 .. Len(u))
      BY <1>6
    <2> HIDE DEF kept
    <2>3. lo \in kept /\ \A k \in kept : lo <= k
      BY <1>9, <2>1, LowestOf, Zenon
    <2>4. hi \in kept
      BY <1>6, <1>9, <2>1, HighestOf, Zenon
    <2> HIDE DEF lo, hi
    <2>5. lo \in 1 .. Len(u) /\ hi \in 1 .. Len(u) /\ lo <= hi
      BY <2>2, <2>3, <2>4
    <2>6. SubSeq(u, lo, hi)[1] = u[lo]
      <3> DEFINE y == SubSeq(u, lo, hi)
      <3>1. lo \in Nat /\ lo >= 1 /\ hi \in Nat /\ hi <= Len(u)
            /\ lo - 1 <= hi /\ 1 \in 1 .. hi - lo + 1 /\ lo + 1 - 1 = lo
        BY <1>6, <2>5
      <3>2. \A k \in 1 .. hi - lo + 1 : y[k] = u[lo + k - 1]
        BY <1>4, <3>1, PartOf, Zenon
      <3> HIDE DEF y
      <3> QED
        BY <3>1, <3>2, Zenon DEF y
    <2>7. <<m>>[1] = m
      OBVIOUS
    <2>8. SubSeq(u, lo, hi) = <<m>>
      BY <1>1, <1>7, <1>9, Zenon
    <2> QED
      BY <1>5, <2>5, <2>6, <2>7, <2>8, Zenon
  <1> QED
    BY <1>8, <1>9

\* The lines with a name: the fields that have it, and maybe others behind the
\* header.
LEMMA NamedIs ==
  ASSUME NEW f, NEW at, ArePlaces(f, at), NEW x, IsHeaded(x, f, at),
         NEW name
  PROVE  /\ Shake!Named(x, name) \in SUBSET Nat
         /\ \A q \in 1 .. Len(f) :
              f[q][1] = name => at[q - 1] + 4 \in Shake!Named(x, name)
         /\ \A i \in Shake!Named(x, name) :
              /\ i \in Shake!Starts(x) /\ i \in 1 .. Len(x) + 1
              /\ i # Shake!Highest(Shake!Starts(x))
              /\ Shake!IsNamed(Shake!LineAt(x, i), name)
              /\ i <= HeadLength(f, at) =>
                   \E q \in 1 .. Len(f) : i = at[q - 1] + 4 /\ f[q][1] = name
  <1> DEFINE h == HeadLength(f, at)
             all == Shake!Starts(x)
             named == Shake!Named(x, name)
  <1>1. \A i : i \in named <=> /\ i \in all /\ i # 1
                               /\ i # Shake!Highest(all)
                               /\ Shake!IsNamed(Shake!LineAt(x, i), name)
    BY Zenon DEF Shake!Named
  <1>2. all \subseteq 1 .. Len(x) + 1
    BY StartIs, Zenon
  <1>3. \A i \in 1 .. Len(x) + 1 : i \in Nat
    OBVIOUS
  <1>4. \A q \in 1 .. Len(f) :
          Shake!IsNamed(Shake!LineAt(x, at[q - 1] + 4), name)
            <=> name = f[q][1]
    <2> TAKE q \in 1 .. Len(f)
    <2>1. IsText(Shake!LineAt(x, at[q - 1] + 4), f[q][1], f[q][2])
      BY FieldText, Zenon
    <2>2. AreFields(f)
      BY Zenon DEF ArePlaces
    <2>3. /\ f[q][1] \in Nat /\ f[q][1] > 256 /\ f[q][2] \in Seq(Nat)
          /\ Shake!IsValue(f[q][2])
      BY <2>2, FieldIs
    <2> QED
      BY <2>1, <2>3, NameIs, Zenon
  <1>5. ASSUME NEW q \in 1 .. Len(f), f[q][1] = name
        PROVE  at[q - 1] + 4 \in named
    <2> DEFINE i == at[q - 1] + 4
    <2>1. i \in 2 .. h
      BY FieldPlace, Zenon
    <2>2. h \in Nat
      BY PlaceIs DEF HeadLength
    <2> HIDE DEF h, all, named
    <2>3. i \in 1 .. h /\ i # 1 /\ i <= h
      <3> HIDE DEF i
      <3> QED
        BY <2>1, <2>2
    <2>4. i \in all
      BY <2>3, StartInHeader, Zenon DEF h, all
    <2>5. i # Shake!Highest(all)
      <3> DEFINE t == Shake!Highest(all)
      <3>1. t > h /\ t \in all
        BY LastStart, Zenon DEF h, all
      <3>2. t \in Nat
        BY <1>2, <1>3, <3>1, Zenon
      <3> HIDE DEF t, i
      <3>3. i # t
        BY <2>2, <2>3, <3>1, <3>2
      <3> QED
        BY <3>3, Zenon DEF t
    <2> QED
      BY <1>1, <1>4, <1>5, <2>3, <2>4, <2>5, Zenon
  <1>6. ASSUME NEW i \in named, i <= h
        PROVE  \E q \in 1 .. Len(f) : i = at[q - 1] + 4 /\ f[q][1] = name
    <2>1. i \in all /\ i # 1 /\ Shake!IsNamed(Shake!LineAt(x, i), name)
      BY <1>1, Zenon
    <2>2. h \in Nat
      BY PlaceIs DEF HeadLength
    <2> HIDE DEF h, all, named
    <2>3. i \in 1 .. h
      BY <1>2, <1>6, <2>1, <2>2
    <2>4. PICK q \in 1 .. Len(f) : i = at[q - 1] + 4
      <3>1. i \in 1 .. HeadLength(f, at) /\ i \in Shake!Starts(x) /\ i # 1
        BY <2>1, <2>3, Zenon DEF h, all
      <3>2. i = 1 \/ \E q \in 1 .. Len(f) : i = at[q - 1] + 4
        BY <3>1, StartInHeader, SMT
      <3> QED
        BY <3>1, <3>2, Zenon
    <2> QED
      BY <1>4, <2>1, <2>4, Zenon
  <1> HIDE DEF all, named, h
  <1>7. named \in SUBSET Nat
    BY <1>1, <1>2, <1>3, Zenon
  <1>8. \A i \in named : /\ i \in all /\ i \in 1 .. Len(x) + 1
                         /\ i # Shake!Highest(all)
                         /\ Shake!IsNamed(Shake!LineAt(x, i), name)
    BY <1>1, <1>2, Zenon
  <1> QED
    BY <1>5, <1>6, <1>7, <1>8, Zenon DEF named, all, h

\* The value of a header that the request has is what was asked.
LEMMA FieldValue ==
  ASSUME NEW r, NEW at, ArePlaces(r.fields, at),
         NEW x, IsHeaded(x, r.fields, at), NEW name,
         \E q \in 1 .. Len(r.fields) : r.fields[q][1] = name
  PROVE  Shake!GetValue(x, name) = Shake!AskedOf(r, name)
  <1> DEFINE f == r.fields
             n == Len(f)
             having == {q \in DOMAIN f : f[q][1] = name}
             p == Shake!Lowest(having)
             named == Shake!Named(x, name)
             h == HeadLength(f, at)
             i == at[p - 1] + 4
  <1>1. n \in Nat /\ DOMAIN f = 1 .. n
    BY DEF ArePlaces, AreFields
  <1>2. having \in SUBSET Nat /\ having # {}
    <2>1. \A q \in 1 .. n : q \in Nat
      BY <1>1
    <2> QED
      BY <1>1, <2>1, Zenon
  <1>3. p \in having /\ \A q \in having : p <= q
    <2> HIDE DEF having
    <2> QED
      BY <1>2, LowestOf, Zenon
  <1> HIDE DEF p
  <1>4. p \in 1 .. n /\ f[p][1] = name
    BY <1>1, <1>3, Zenon
  <1>5. Shake!AskedOf(r, name) = f[p][2]
    BY <1>2, Zenon DEF Shake!AskedOf, p
  <1>6. /\ named \in SUBSET Nat
        /\ i \in named
        /\ \A k \in named : k <= h =>
             \E q \in 1 .. n : k = at[q - 1] + 4 /\ f[q][1] = name
    <2>1. named \in SUBSET Nat
      BY NamedIs, Zenon
    <2>2. i \in named
      BY <1>4, NamedIs, Zenon
    <2>3. ASSUME NEW k \in named, k <= h
          PROVE  \E q \in 1 .. n : k = at[q - 1] + 4 /\ f[q][1] = name
      BY <2>3, NamedIs, SMTT(30)
    <2> QED
      BY <2>1, <2>2, <2>3, Zenon
  <1>7. h \in Nat /\ i <= h
    <2>1. i \in 2 .. h
      BY <1>4, FieldPlace, Zenon
    <2>2. h \in Nat
      BY PlaceIs DEF HeadLength
    <2> HIDE DEF i, h
    <2> QED
      BY <2>1, <2>2
  <1> HIDE DEF named, h
  <1>8. \A k \in named : i <= k
    <2> TAKE k \in named
    <2>1. CASE k <= h
      <3>1. PICK q \in 1 .. n : k = at[q - 1] + 4 /\ f[q][1] = name
        BY <1>6, <2>1, Zenon
      <3>2. q \in having
        BY <1>1, <3>1, Zenon
      <3>3. p - 1 \in 0 .. n /\ q - 1 \in 0 .. n /\ p - 1 <= q - 1
        <4>1. p <= q
          BY <1>3, <3>2
        <4> HIDE DEF n
        <4> QED
          BY <1>1, <1>4, <4>1
      <3>4. at[p - 1] <= at[q - 1] /\ at[p - 1] \in Nat /\ at[q - 1] \in Nat
        BY <1>4, <3>3, PlaceIs, Zenon
      <3> DEFINE a == at[p - 1]  b == at[q - 1]
      <3>5. a <= b /\ a \in Nat /\ b \in Nat
        BY <3>4, Zenon
      <3> HIDE DEF a, b
      <3>6. a + 4 <= b + 4
        BY <3>5
      <3> QED
        BY <3>1, <3>6, Zenon DEF a, b
    <2>2. CASE ~(k <= h)
      <3> HIDE DEF i
      <3> QED
        BY <1>6, <1>7, <2>2
    <2> QED
      BY <2>1, <2>2
  <1> HIDE DEF i
  <1>9. Shake!Lowest(named) = i /\ named # {}
    BY <1>6, <1>8, LowestIs, Zenon
  <1>10. Shake!GetValue(x, name) = Shake!ValueOf(Shake!LineAt(x, i))
    BY <1>9, Zenon DEF Shake!GetValue, named
  <1>11. Shake!ValueOf(Shake!LineAt(x, i)) = f[p][2]
    <2>1. IsText(Shake!LineAt(x, i), f[p][1], f[p][2])
      BY <1>4, FieldText, Zenon DEF i
    <2>2. AreFields(f)
      BY Zenon DEF ArePlaces
    <2>3. /\ f[p][1] \in Nat /\ f[p][1] > 256 /\ f[p][2] \in Seq(Nat)
          /\ Shake!IsValue(f[p][2])
      BY <1>4, <2>2, FieldIs
    <2> QED
      BY <2>1, <2>3, NameIs, Zenon
  <1> QED
    BY <1>5, <1>10, <1>11, Zenon

\* Bytes up to m, and behind it no break: no line but the last has a name.
NoOther(x, h, m) ==
  /\ \A i \in h + 1 .. Len(x) : i <= m => x[i] < 256
  /\ \A i \in h + 1 .. Len(x) : i > m => Shake!Inside(x, i)

\* No line behind the header has a name of a field, but for the last one.
LEMMA NoneBehind ==
  ASSUME NEW f, NEW at, ArePlaces(f, at), NEW x, IsHeaded(x, f, at),
         NEW name \in Nat, name > 256, NEW m \in Nat, m >= HeadLength(f, at),
         NoOther(x, HeadLength(f, at), m),
         NEW i \in Shake!Starts(x), i > HeadLength(f, at),
         i # Shake!Highest(Shake!Starts(x))
  PROVE  ~Shake!IsNamed(Shake!LineAt(x, i), name)
  <1> DEFINE h == HeadLength(f, at)
             all == Shake!Starts(x)
             t == Shake!Highest(all)
  <1>1. x \in Seq(Nat) /\ Len(x) \in Nat /\ Len(x) >= h
    <2>1. x \in Seq(Nat) /\ Len(x) >= h
      BY Zenon DEF IsHeaded
    <2> QED
      BY <2>1, LenProperties, Zenon
  <1>2. h \in Nat
    BY PlaceIs DEF HeadLength
  <1>3. /\ all \subseteq 1 .. Len(x) + 1
        /\ \A k \in 1 .. Len(x) + 1 :
             k \in all => k = 1 \/ ~Shake!Inside(x, k - 1)
    BY StartIs, Zenon
  <1>4. t \in all /\ i <= t /\ i # t
    BY LastStart, Zenon
  <1>5. i \in all /\ i > h
    OBVIOUS
  <1> HIDE DEF h, all, t
  <1>6. i \in 1 .. Len(x) + 1 /\ t \in 1 .. Len(x) + 1 /\ i <= t - 1
        /\ t # 1
    BY <1>1, <1>3, <1>4, <1>5
  <1>7. ~Shake!Inside(x, t - 1)
    BY <1>3, <1>4, <1>6, Zenon
  <1>8. PICK j \in i - 1 .. Len(x) :
          /\ ~Shake!Inside(x, j + 1)
          /\ \A k \in i .. j : Shake!Inside(x, k)
    BY <1>1, <1>6, SomeEnd, Zenon
  <1>9. Shake!LineAt(x, i) = SubSeq(x, i, j)
    BY <1>1, <1>6, <1>8, LineIs, Zenon
  <1>10. j <= m
    <2> SUFFICES ASSUME j > m PROVE FALSE
      BY <1>1, <1>6, <1>8
    <2>1. j = Len(x)
      <3> SUFFICES ASSUME j # Len(x) PROVE FALSE
        OBVIOUS
      <3>1. j + 1 \in h + 1 .. Len(x) /\ j + 1 > m
        BY <1>1, <1>2, <1>6, <1>8 DEF h
      <3> QED
        BY <1>8, <3>1, Zenon DEF NoOther, h
    <2>2. t - 1 \in i .. j
      BY <1>1, <1>6, <2>1
    <2> QED
      BY <1>7, <1>8, <2>2
  <1>11. \A k \in i .. j : k \in h + 1 .. Len(x) /\ k <= m
    BY <1>1, <1>2, <1>5, <1>6, <1>8, <1>10
  <1>12. \A k \in i .. j : x[k] < 256
    BY <1>11, Zenon DEF NoOther, h
  <1> DEFINE l == SubSeq(x, i, j)
  <1>13. /\ l \in Seq(Nat) /\ Len(l) = j - i + 1
         /\ \A k \in 1 .. j - i + 1 : l[k] = x[i + k - 1]
    <2>1. i \in Nat /\ i >= 1 /\ j \in Nat /\ j <= Len(x) /\ i - 1 <= j
      BY <1>1, <1>6, <1>8
    <2> QED
      BY <1>1, <2>1, PartOf, Zenon
  <1> HIDE DEF l
  <1>14. \A k \in 1 .. Len(l) : l[k] # name
    <2> TAKE k \in 1 .. Len(l)
    <2>1. k \in 1 .. j - i + 1 /\ i + k - 1 \in i .. j
          /\ i + k - 1 \in 1 .. Len(x)
      BY <1>1, <1>6, <1>8, <1>13
    <2>2. l[k] = x[i + k - 1] /\ x[i + k - 1] < 256
      BY <1>12, <1>13, <2>1, Zenon
    <2>3. l[k] \in Nat
      BY <1>13, ElementOf, Zenon
    <2> QED
      BY <2>2, <2>3
  <1>15. ~Shake!IsNamed(l, name)
    BY <1>13, <1>14, NoNameIn, Zenon
  <1> QED
    BY <1>9, <1>15, Zenon DEF l

\* So that the value of a header that the request has not is none.
LEMMA NoValue ==
  ASSUME NEW r, NEW at, ArePlaces(r.fields, at),
         NEW x, IsHeaded(x, r.fields, at), NEW name \in Nat, name > 256,
         ~\E q \in 1 .. Len(r.fields) : r.fields[q][1] = name,
         NEW m \in Nat, m >= HeadLength(r.fields, at),
         NoOther(x, HeadLength(r.fields, at), m)
  PROVE  Shake!GetValue(x, name) = Shake!AskedOf(r, name)
  <1> DEFINE f == r.fields
             named == Shake!Named(x, name)
             h == HeadLength(f, at)
  <1>1. DOMAIN f = 1 .. Len(f)
    BY DEF ArePlaces, AreFields
  <1>2. Shake!AskedOf(r, name) = <<>>
    <2>1. {q \in DOMAIN f : f[q][1] = name} = {}
      BY <1>1, Zenon
    <2> QED
      BY <2>1, Zenon DEF Shake!AskedOf
  <1>3. named = {}
    <2> SUFFICES ASSUME NEW i \in named PROVE FALSE
      BY Zenon
    <2>1. /\ i \in Shake!Starts(x) /\ i \in 1 .. Len(x) + 1
          /\ i # Shake!Highest(Shake!Starts(x))
          /\ Shake!IsNamed(Shake!LineAt(x, i), name)
          /\ ~(i <= h)
      <3>1. /\ i \in Shake!Starts(x) /\ i \in 1 .. Len(x) + 1
            /\ i # Shake!Highest(Shake!Starts(x))
            /\ Shake!IsNamed(Shake!LineAt(x, i), name)
        BY NamedIs, SMT
      <3>2. i <= h => \E q \in 1 .. Len(f) : f[q][1] = name
        BY NamedIs, SMT
      <3> QED
        BY <3>1, <3>2, Zenon
    <2>2. i > h
      <3>1. h \in Nat
        BY PlaceIs DEF HeadLength
      <3> HIDE DEF h
      <3> QED
        BY <2>1, <3>1
    <2> QED
      BY <2>1, <2>2, NoneBehind, Zenon
  <1> QED
    BY <1>2, <1>3, Zenon DEF Shake!GetValue

-----------------------------------------------------------------------------
(* A request in a buffer.                                                  *)

\* What begins with a request, and what a buffer's text says of one: where its
\* fields and its body are, and that a body without a NUL is whole.
Holds(b, r) ==
  /\ b \in Seq(Nat) /\ Len(b) >= Len(Shake!RequestText(r))
  /\ \A i \in 1 .. Len(Shake!RequestText(r)) :
       b[i] = Shake!RequestText(r)[i]

\* A text has the body behind its header, all of it if there is no NUL in the
\* body.
BodyAt(r, x, h) ==
  /\ \A i \in 1 .. Len(r.body) : h + i <= Len(x) => x[h + i] = r.body[i]
  /\ Shake!Unbroken(r.body) => Len(x) >= h + Len(r.body)

\* A text is that of a buffer with a request.
IsInput(r, x, at) ==
  /\ ArePlaces(r.fields, at) /\ IsHeaded(x, r.fields, at)
  /\ Len(Shake!RequestText(r)) = HeadLength(r.fields, at) + Len(r.body)
  /\ BodyAt(r, x, HeadLength(r.fields, at))

\* A body is bytes.
LEMMA BodyBytes ==
  ASSUME NEW r, Shake!IsRequest(r)
  PROVE  /\ AreFields(r.fields)
         /\ r.body \in Seq(0 .. 255) /\ r.body \in Seq(Nat)
         /\ Len(r.body) \in Nat
         /\ \A i \in 1 .. Len(r.body) : r.body[i] \in Nat /\ r.body[i] < 256
  <1> DEFINE f == r.fields
             v == r.body
  <1>1. /\ f \in Seq(Nat \X Seq(0 .. 255)) /\ v \in Seq(0 .. 255)
        /\ \A i \in DOMAIN f : f[i][1] > 256 /\ Shake!IsValue(f[i][2])
    BY Zenon DEF Shake!IsRequest, Shake!FirstLine
  <1> HIDE DEF f, v
  <1>2. DOMAIN f = 1 .. Len(f)
    BY <1>1
  <1>3. AreFields(f)
    BY <1>1, <1>2, Zenon DEF AreFields
  <1>4. /\ v \in Seq(Nat) /\ Len(v) \in Nat
        /\ \A i \in 1 .. Len(v) : v[i] \in Nat /\ v[i] < 256
    BY <1>1, BytesAreNumbers, Zenon
  <1> QED
    BY <1>1, <1>3, <1>4, Zenon DEF f, v

\* The text of a request: its header and its body.
LEMMA RequestIs ==
  ASSUME NEW r, Shake!IsRequest(r)
  PROVE  \E at :
           LET h == HeadLength(r.fields, at)
               t == Shake!RequestText(r)
           IN  /\ ArePlaces(r.fields, at) /\ IsHeaded(t, r.fields, at)
               /\ h \in Nat /\ t \in Seq(Nat) /\ Len(t) = h + Len(r.body)
               /\ \A i \in 1 .. Len(r.body) : t[h + i] = r.body[i]
  <1>1. AreFields(r.fields) /\ r.body \in Seq(Nat) /\ Len(r.body) \in Nat
    BY BodyBytes
  <1>2. PICK at : AreAt(r.fields, at) /\ Offsets(Shake!Lines(r.fields), at)
    BY <1>1, LinesOffsets, Zenon
  <1> DEFINE h == HeadLength(r.fields, at)
             t == Shake!RequestText(r)
             a == Shake!HeaderText(r)
             v == r.body
  <1>3. ArePlaces(r.fields, at)
    BY <1>1, <1>2, Zenon DEF ArePlaces
  <1>4. IsHeaded(a, r.fields, at) /\ Len(a) = h
    BY <1>1, <1>2, HeaderIs, Zenon
  <1>5. a \in Seq(Nat)
    BY <1>4, Zenon DEF IsHeaded
  <1>6. h \in Nat
    BY <1>3, PlaceIs DEF HeadLength
  <1>7. t = a \o v
    BY Zenon DEF Shake!RequestText
  <1> HIDE DEF h, a, v, t
  <1>8. IsJoin(Nat, t, a, v)
    BY <1>1, <1>5, <1>7, JoinIs, Zenon DEF v
  <1>9. /\ t \in Seq(Nat) /\ Len(t) = h + Len(v)
        /\ \A i \in 1 .. h : t[i] = a[i]
        /\ \A i \in 1 .. Len(v) : t[h + i] = v[i]
    BY <1>4, <1>8, Zenon DEF IsJoin
  <1>10. Len(t) >= h
    BY <1>1, <1>6, <1>9 DEF v
  <1>11. IsHeaded(t, r.fields, at)
    BY <1>3, <1>4, <1>9, <1>10, HeadedAlike, Zenon DEF h
  <1> QED
    BY <1>3, <1>6, <1>9, <1>11, Zenon DEF h, t, v

\* So it is in a buffer that holds it, as far as a NUL.
LEMMA InputIs ==
  ASSUME NEW r, Shake!IsRequest(r), NEW b, Holds(b, r)
  PROVE  \E at : IsInput(r, Shake!CString(b), at)
  <1> DEFINE t == Shake!RequestText(r)
             v == r.body
             x == Shake!CString(b)
  <1>1. v \in Seq(Nat) /\ Len(v) \in Nat
    BY BodyBytes
  <1>2. PICK at : /\ ArePlaces(r.fields, at) /\ IsHeaded(t, r.fields, at)
                  /\ HeadLength(r.fields, at) \in Nat
                  /\ t \in Seq(Nat)
                  /\ Len(t) = HeadLength(r.fields, at) + Len(v)
                  /\ \A i \in 1 .. Len(v) :
                       t[HeadLength(r.fields, at) + i] = v[i]
    BY RequestIs, Zenon
  <1> DEFINE h == HeadLength(r.fields, at)
  <1>3. /\ b \in Seq(Nat) /\ Len(b) >= Len(t)
        /\ \A i \in 1 .. Len(t) : b[i] = t[i]
    BY Zenon DEF Holds
  <1>4. IsCString(x, b)
    BY <1>3, CStringIs, Zenon
  <1>5. h \in Nat /\ Len(t) = h + Len(v)
        /\ \A i \in 1 .. Len(v) : t[h + i] = v[i]
    BY <1>2, Zenon
  <1> HIDE DEF t, x, h, v
  <1>6. Len(b) \in Nat /\ Len(x) \in Nat
    <2>1. x \in Seq(Nat)
      BY <1>4, Zenon DEF IsCString
    <2> QED
      BY <1>3, <2>1, LenProperties, Zenon
  <1>7. IsHeaded(b, r.fields, at)
    <2>1. Len(b) >= h
      BY <1>1, <1>3, <1>5, <1>6
    <2>2. \A i \in 1 .. h : b[i] = t[i]
      BY <1>1, <1>3, <1>5
    <2> QED
      BY <1>2, <1>3, <2>1, <2>2, HeadedAlike, Zenon DEF h, t
  <1>8. IsHeaded(x, r.fields, at)
    BY <1>2, <1>7, CStringHeaded, Zenon DEF x
  <1>9. \A i \in 1 .. Len(x) : x[i] = b[i]
    BY <1>4, Zenon DEF IsCString
  <1>10. ASSUME NEW i \in 1 .. Len(v), h + i <= Len(x)
         PROVE  x[h + i] = v[i]
    <2>1. h + i \in 1 .. Len(x) /\ h + i \in 1 .. Len(t)
      BY <1>1, <1>5, <1>6, <1>10
    <2> QED
      BY <1>3, <1>5, <1>9, <2>1, Zenon
  <1>11. ASSUME Shake!Unbroken(v), ~(Len(x) >= h + Len(v)) PROVE FALSE
    <2> DEFINE i == Len(x) + 1 - h
    <2>1. Len(x) >= h
      BY <1>8, Zenon DEF IsHeaded, h
    <2>2. i \in 1 .. Len(v) /\ h + i = Len(x) + 1
          /\ Len(x) + 1 \in 1 .. Len(t) /\ Len(x) < Len(b)
      BY <1>1, <1>3, <1>5, <1>6, <1>11, <2>1
    <2> HIDE DEF i
    <2>3. b[Len(x) + 1] = 0
      BY <1>4, <2>2, Zenon DEF IsCString
    <2>4. v[i] = 0
      BY <1>3, <1>5, <2>2, <2>3, Zenon
    <2>5. i \in DOMAIN v
      BY <1>1, <2>2
    <2>6. v[i] \notin {0, 13, 10}
      BY <1>11, <2>5, Zenon DEF Shake!Unbroken, Shake!Nul, Shake!CR, Shake!LF
    <2> QED
      BY <2>4, <2>6
  <1>12. BodyAt(r, x, h)
    BY <1>10, <1>11, Zenon DEF BodyAt, v
  <1> QED
    BY <1>2, <1>5, <1>8, <1>12, Zenon DEF IsInput, x, h, t, v

\* What is behind a request in the text of the buffer: no break, and so no
\* line, if it is unbroken.
LEMMA BehindIs ==
  ASSUME NEW r, Shake!IsRequest(r), NEW x, NEW at, IsInput(r, x, at)
  PROVE  LET h == HeadLength(r.fields, at)
             m == h + Len(r.body)
         IN  /\ h \in Nat /\ m \in Nat /\ m >= h /\ Len(x) \in Nat
             /\ x \in Seq(Nat)
             /\ Shake!Unbroken(SubSeq(x, m + 1, Len(x))) => NoOther(x, h, m)
  <1> DEFINE h == HeadLength(r.fields, at)
             v == r.body
             m == h + Len(v)
             s == SubSeq(x, m + 1, Len(x))
  <1>1. h \in Nat
    BY PlaceIs DEF HeadLength, IsInput
  <1>2. v \in Seq(Nat) /\ Len(v) \in Nat
        /\ \A i \in 1 .. Len(v) : v[i] \in Nat /\ v[i] < 256
    BY BodyBytes
  <1>3. x \in Seq(Nat) /\ Len(x) >= h
    BY Zenon DEF IsInput, IsHeaded
  <1>4. Len(x) \in Nat
    BY <1>3, LenProperties, Zenon
  <1>5. \A i \in 1 .. Len(v) : h + i <= Len(x) => x[h + i] = v[i]
    BY Zenon DEF IsInput, BodyAt
  <1> HIDE DEF h, v
  <1>6. m \in Nat /\ m >= h
    BY <1>1, <1>2
  <1>7. ASSUME NEW i \in h + 1 .. Len(x), i <= m PROVE x[i] < 256
    <2> DEFINE k == i - h
    <2>1. k \in 1 .. Len(v) /\ h + k = i /\ h + k <= Len(x)
      BY <1>1, <1>2, <1>4, <1>7
    <2> HIDE DEF k
    <2> QED
      BY <1>2, <1>5, <2>1, Zenon
  <1>8. ASSUME Shake!Unbroken(s), NEW i \in h + 1 .. Len(x), i > m
        PROVE  Shake!Inside(x, i)
    <2> HIDE DEF m
    <2> DEFINE k == i - m
    <2>1. k \in 1 .. Len(x) - m /\ i \in 1 .. Len(x) /\ i \in Nat
          /\ (m + 1) + k - 1 = i
      BY <1>1, <1>4, <1>6, <1>8
    <2>2. m + 1 \in Nat /\ m + 1 >= 1 /\ (m + 1) - 1 <= Len(x)
          /\ Len(x) - (m + 1) + 1 = Len(x) - m
      BY <1>1, <1>4, <1>6, <1>8
    <2>3. s \in Seq(Nat) /\ Len(s) = Len(x) - m /\ s[k] = x[i]
      <3> DEFINE p == m + 1
                 l == Len(x)
      <3>1. p \in Nat /\ p >= 1 /\ l \in Nat /\ l <= Len(x) /\ p - 1 <= l
        BY <1>4, <2>2
      <3> HIDE DEF p, l
      <3>2. /\ SubSeq(x, p, l) \in Seq(Nat)
            /\ Len(SubSeq(x, p, l)) = l - p + 1
            /\ \A q \in 1 .. l - p + 1 : SubSeq(x, p, l)[q] = x[p + q - 1]
        BY <1>3, <3>1, PartOf, Zenon
      <3>3. l - p + 1 = Len(x) - m /\ p + k - 1 = i /\ s = SubSeq(x, p, l)
        BY <2>1, <2>2 DEF p, l
      <3> HIDE DEF k, s
      <3> QED
        BY <2>1, <3>2, <3>3, Zenon
    <2> HIDE DEF s, k
    <2>4. k \in DOMAIN s
      BY <2>1, <2>3
    <2>5. s[k] \notin {0, 13, 10}
      BY <1>8, <2>4, Zenon DEF Shake!Unbroken, Shake!Nul, Shake!CR, Shake!LF
    <2>6. x[i] # 13 /\ x[i] # 10
      BY <2>3, <2>5
    <2> QED
      BY <1>3, <2>1, <2>6, InsideIs, Zenon
  <1>9. Shake!Unbroken(s) => NoOther(x, h, m)
    <2> HIDE DEF m, s
    <2> QED
      BY <1>7, <1>8, Zenon DEF NoOther
  <1> QED
    BY <1>1, <1>3, <1>4, <1>6, <1>9, Zenon DEF h, m, s, v

\* What is behind the request in the text of the buffer.
StaleOf(r, x) ==
  SubSeq(x, Len(Shake!RequestText(r)) + 1, Len(x))

\* The value of a header is what was asked, unless what is behind the request
\* makes it another.
LEMMA ValueIs ==
  ASSUME NEW r, Shake!IsRequest(r), NEW x, NEW at, IsInput(r, x, at),
         NEW name \in Nat, name > 256,
         Shake!AskedOf(r, name) # <<>> \/ Shake!Unbroken(StaleOf(r, x))
  PROVE  Shake!GetValue(x, name) = Shake!AskedOf(r, name)
  <1> DEFINE f == r.fields
             h == HeadLength(f, at)
             m == h + Len(r.body)
  <1>1. ArePlaces(f, at) /\ IsHeaded(x, f, at)
    BY Zenon DEF IsInput
  <1>2. CASE \E q \in 1 .. Len(f) : f[q][1] = name
    BY <1>1, <1>2, FieldValue, Zenon
  <1>3. CASE ~\E q \in 1 .. Len(f) : f[q][1] = name
    <2>1. DOMAIN f = 1 .. Len(f)
      BY <1>1 DEF ArePlaces, AreFields
    <2>2. {q \in DOMAIN f : f[q][1] = name} = {}
      BY <1>3, <2>1, Zenon
    <2>3. Shake!AskedOf(r, name) = <<>>
      BY <2>2, Zenon DEF Shake!AskedOf
    <2>4. StaleOf(r, x) = SubSeq(x, m + 1, Len(x))
      BY Zenon DEF IsInput, StaleOf
    <2>5. m \in Nat /\ m >= h
          /\ (Shake!Unbroken(SubSeq(x, m + 1, Len(x))) => NoOther(x, h, m))
      BY BehindIs, Zenon
    <2>6. NoOther(x, h, m)
      BY <2>3, <2>4, <2>5, Zenon
    <2> HIDE DEF m
    <2> QED
      BY <1>1, <1>3, <2>5, <2>6, NoValue, Zenon
  <1> QED
    BY <1>2, <1>3, Zenon

\* The last line is the body of a request of draft 76 and what is behind it.
LEMMA BodyIs ==
  ASSUME NEW r, Shake!IsRequest(r), NEW x, NEW at, IsInput(r, x, at),
         Shake!Unbroken(r.body), Shake!Unbroken(StaleOf(r, x)),
         Len(r.body) = 8, NEW stray
  PROVE  Shake!Body(x, stray) = r.body
  <1> DEFINE h == HeadLength(r.fields, at)
             v == r.body
             m == h + Len(v)
             l == Len(x)
             all == Shake!Starts(x)
             t == Shake!Highest(all)
             line == Shake!LineAt(x, t)
  <1>1. ArePlaces(r.fields, at) /\ IsHeaded(x, r.fields, at)
    BY Zenon DEF IsInput
  <1>2. /\ h \in Nat /\ m \in Nat /\ l \in Nat /\ x \in Seq(Nat)
        /\ NoOther(x, h, m)
    <2>1. StaleOf(r, x) = SubSeq(x, m + 1, l)
      BY Zenon DEF IsInput, StaleOf
    <2> QED
      BY <2>1, BehindIs, Zenon
  <1>3. v \in Seq(Nat) /\ Len(v) = 8
        /\ \A i \in 1 .. Len(v) : v[i] \in Nat /\ v[i] < 256
    BY BodyBytes, Zenon
  <1>4. /\ \A i \in 1 .. Len(v) : h + i <= l => x[h + i] = v[i]
        /\ l >= h + Len(v)
    BY Zenon DEF IsInput, BodyAt
  <1>5. Shake!Unbroken(v)
    OBVIOUS
  <1>6. t \in all /\ t > h
    BY <1>1, LastStart, Zenon
  <1>7. /\ all \subseteq 1 .. l + 1
        /\ \A k \in 1 .. l + 1 :
             k \in all => k = 1 \/ ~Shake!Inside(x, k - 1)
    BY StartIs, Zenon
  <1>8. Shake!Body(x, stray) =
          [i \in 1 .. 8 |-> CASE i <= Len(line) -> line[i] % 256
                              [] i = Len(line) + 1 -> 0
                              [] OTHER -> stray]
    BY Zenon DEF Shake!Body, Shake!Nul
  <1> HIDE DEF line
  <1>9. line = Shake!LineAt(x, t)
    BY Zenon DEF line
  <1> HIDE DEF h, v, l, all, t
  <1>10. m = h + 8 /\ l >= m /\ \A i \in 1 .. 8 : x[h + i] = v[i]
    BY <1>2, <1>3, <1>4
  <1>11. ASSUME NEW i \in h + 1 .. l PROVE Shake!Inside(x, i)
    <2>1. CASE i <= m
      <3> DEFINE k == i - h
      <3>1. k \in 1 .. 8 /\ h + k = i /\ i \in 1 .. l /\ i \in Nat
        BY <1>2, <1>10, <2>1, SMTT(30)
      <3>2. k \in DOMAIN v
        BY <1>3, <3>1
      <3> HIDE DEF k
      <3>3. v[k] \notin {0, 13, 10}
        BY <1>5, <3>2, Zenon DEF Shake!Unbroken, Shake!Nul, Shake!CR,
           Shake!LF
      <3>4. x[i] = v[k]
        BY <1>10, <3>1, Zenon
      <3>5. x[i] # 13 /\ x[i] # 10
        BY <3>3, <3>4
      <3> QED
        BY <1>2, <3>1, <3>5, InsideIs, Zenon DEF l
    <2>2. CASE ~(i <= m)
      <3>1. i > m
        <4> HIDE DEF m
        <4> QED
          BY <1>2, <2>2
      <3> QED
        BY <1>2, <3>1, Zenon DEF NoOther, l
    <2> QED
      BY <2>1, <2>2
  <1> HIDE DEF m
  <1>12. t = h + 1
    <2>1. t \in 1 .. l + 1
      BY <1>6, <1>7, Zenon
    <2> SUFFICES ASSUME t # h + 1 PROVE FALSE
      OBVIOUS
    <2>2. t - 1 \in h + 1 .. l /\ t # 1
      BY <1>2, <1>6, <2>1
    <2> QED
      BY <1>6, <1>7, <1>11, <2>1, <2>2, Zenon
  <1>13. line = SubSeq(x, h + 1, l)
    <2> DEFINE p == h + 1
    <2> h \in Nat /\ l \in Nat /\ l >= h
      BY <1>2, <1>10
    <2>1. p \in 1 .. l + 1 /\ l \in p - 1 .. l /\ l + 1 \notin 1 .. l
          /\ l + 1 \in Nat
      BY SMTT(30)
    <2>2. \A k \in p .. l : Shake!Inside(x, k)
      BY <1>11, Zenon
    <2>3. ~Shake!Inside(x, l + 1)
      BY <1>2, <2>1, InsideIs, Zenon DEF l
    <2> HIDE DEF p
    <2>4. Shake!LineAt(x, p) = SubSeq(x, p, l)
      BY <1>2, <2>1, <2>2, <2>3, LineIs, Zenon DEF l
    <2> QED
      BY <1>9, <1>12, <2>4, Zenon DEF p
  <1>14. Len(line) = l - h /\ \A i \in 1 .. l - h : line[i] = x[h + i]
    <2> DEFINE p == h + 1
    <2>1. p \in Nat /\ p >= 1 /\ l <= l /\ p - 1 <= l /\ l - p + 1 = l - h
          /\ \A i \in 1 .. l - h : p + i - 1 = h + i
      BY <1>2, <1>10, SMTT(30)
    <2> HIDE DEF p
    <2>2. /\ Len(SubSeq(x, p, l)) = l - p + 1
          /\ \A k \in 1 .. l - p + 1 : SubSeq(x, p, l)[k] = x[p + k - 1]
      BY <1>2, <2>1, PartOf, Zenon DEF l
    <2>3. line = SubSeq(x, p, l)
      BY <1>13, Zenon DEF p
    <2> QED
      BY <2>1, <2>2, <2>3, Zenon
  <1>15. \A i \in 1 .. 8 : i <= Len(line) /\ line[i] = v[i]
    <2>1. \A i \in 1 .. 8 : i \in 1 .. l - h /\ i <= l - h
      BY <1>2, <1>10, SMTT(30)
    <2> QED
      BY <1>10, <1>14, <2>1, Zenon
  <1>16. \A i \in 1 .. 8 : line[i] % 256 = v[i]
    <2> TAKE i \in 1 .. 8
    <2> DEFINE w == v[i]
    <2>1. w \in Nat /\ w < 256
      BY <1>3, Zenon
    <2> HIDE DEF w
    <2>2. w % 256 = w
      BY <2>1
    <2> QED
      BY <1>15, <2>2, Zenon DEF w
  <1>17. \A i \in 1 .. 8 : (CASE i <= Len(line) -> line[i] % 256
                              [] i = Len(line) + 1 -> 0
                              [] OTHER -> stray) = v[i]
    <2> TAKE i \in 1 .. 8
    <2> DEFINE d == line[i] % 256
               e == Len(line)
               w == v[i]
    <2>1. i <= e /\ d = w
      BY <1>15, <1>16, Zenon
    <2>2. e \in Nat /\ i \in Nat
      BY <1>2, <1>10, <1>14
    <2> HIDE DEF d, e, w
    <2>3. i # e + 1
      BY <2>1, <2>2
    <2>4. (CASE i <= e -> d [] i = e + 1 -> 0 [] OTHER -> stray) = w
      BY <2>1, <2>3
    <2> QED
      BY <2>4, Zenon DEF d, e, w
  <1>18. v = [i \in 1 .. 8 |-> v[i]]
    BY <1>3
  <1> QED
    BY <1>8, <1>17, <1>18, Zenon DEF v

-----------------------------------------------------------------------------
(* The answers.                                                            *)

\* The digest of SHA-1 is 20 bytes.
LEMMA Sha1Length ==
  ASSUME NEW all \in Seq(Byte)
  PROVE  /\ Standard("sha1", all) \in Seq(Byte)
         /\ Len(Standard("sha1", all)) = 20
  <1> DEFINE W == WithLength("sha1", all)
             m == Len(W) \div 64
             state == Through("sha1", W, m)
             seqs == [i \in 1 .. 5 |-> PutBE(state[i])]
             at == [q \in 0 .. 5 |-> 4 * q]
  <1>1. /\ W \in Seq(Byte) /\ Standard("sha1", all) = Output("sha1", state)
        /\ Standard("sha1", all) \in Seq(Byte)
    BY StandardIs, Zenon
  <1> HIDE DEF W
  <1>2. m \in Nat /\ 64 * m <= Len(W)
    <2>1. Len(W) \in Nat
      BY <1>1
    <2> QED
      BY <2>1
  <1> HIDE DEF m
  <1>3. state \in States("sha1")
    BY <1>1, <1>2, ThroughIsState, Zenon
  <1> HIDE DEF state
  <1>4. state \in [1 .. 5 -> Word]
    BY <1>3, Zenon DEF States
  <1>5. Output("sha1", state) = FlattenSeq(seqs)
    BY <1>4, Zenon DEF Output
  <1>6. \A i \in 1 .. 5 : PutBE(state[i]) \in Seq(Byte)
                          /\ Len(PutBE(state[i])) = 4
    <2>1. \A i \in 1 .. 5 : state[i] \in Word
      BY <1>4, Zenon
    <2> QED
      BY <2>1, PutIs, Zenon
  <1>7. seqs \in Seq(Seq(Byte)) /\ Len(seqs) = 5
        /\ \A i \in 1 .. 5 : Len(seqs[i]) = 4
    BY <1>6
  <1> HIDE DEF seqs
  <1>8. /\ \A q \in 0 .. 5 : at[q] \in Nat
        /\ at[0] = 0 /\ at[5] = 20
        /\ \A q \in 1 .. 5 : at[q] = at[q - 1] + 4
    OBVIOUS
  <1> HIDE DEF at
  <1>9. Offsets(seqs, at)
    BY <1>7, <1>8, Zenon DEF Offsets
  <1>10. StandAt(Byte, FlattenSeq(seqs), seqs, at)
    BY <1>7, <1>9, FlattenedAt, Zenon
  <1>11. Len(FlattenSeq(seqs)) = 20
    BY <1>7, <1>8, <1>10, Zenon DEF StandAt
  <1> QED
    BY <1>1, <1>5, <1>11, Zenon

\* A text on one line is decoded where there is room for it.
LEMMA DecodedWhole ==
  ASSUME NEW src, IsData(src), src # <<>>, NEW room \in Nat,
         \A n \in 0 .. Len(Encoded(src)) : DecodedSize(n) <= room
  PROVE  Decode(Encoded(src), room)
           = [rc |-> "ok", dlen |-> Len(src), written |-> src]
  <1> DEFINE s == Encoded(src)
             n == Cardinality({i \in DOMAIN s : ~IsBreak(s, i)})
             size == DecodedSize(n)
             m == Quartets(Len(src))
  <1>1. Closed(s, Missing(Len(src))) /\ \A i \in 1 .. Len(s) : NoEnd(s[i])
    BY EncodedIsPadded, Zenon
  <1>2. s \in Seq(Nat) /\ Len(s) = 4 * m /\ m \in Nat /\ m # 0
    <2>1. Len(src) \in Nat /\ Len(src) # 0
      BY DEF IsData
    <2>2. m \in Nat /\ Len(src) <= 3 * m
      BY <2>1, QuartetCount, Zenon
    <2>3. s \in Seq(Nat) /\ Len(s) = 4 * m
      BY EncodedParts, Zenon
    <2> HIDE DEF m, s
    <2>4. m # 0
      BY <2>1, <2>2
    <2> QED
      BY <2>2, <2>3, <2>4
  <1>3. Len(s) # 0 /\ Len(s) \in Nat /\ 1 \in 1 .. Len(s)
    <2> HIDE DEF m, s
    <2> QED
      BY <1>2
  <1>4. Broken(s, s, Len(s), 0)
    <2> HIDE DEF s
    <2>1. s # <<>>
      BY <1>2, <1>3
    <2> QED
      BY <1>2, <2>1, Unbroken, Zenon
  <1>5. Kept(s) = s
    BY <1>1, <1>4, KeptWhole, Zenon
  <1>6. Decoded(Kept(s)) = src
    BY <1>5, DecodedBack, Zenon
  <1>7. ~Invalid(s)
    BY <1>1, <1>4, BrokenIsValid, Zenon
  <1>8. n \in Nat /\ n # 0
    <2>1. NoEnd(s[1])
      BY <1>1, <1>3, Zenon
    <2> QED
      BY <1>4, <2>1, BrokenIsCounted, Zenon
  <1>9. n <= Len(s)
    BY <1>2, CountedIs, Zenon
  <1>10. Decode(s, room) =
           CASE Invalid(s) ->
                  [rc |-> "invalid", dlen |-> room, written |-> <<>>]
             [] ~Invalid(s) /\ n = 0 ->
                  [rc |-> "ok", dlen |-> room, written |-> <<>>]
             [] ~Invalid(s) /\ n > 0 /\ room < size ->
                  [rc |-> "too_small", dlen |-> size, written |-> <<>>]
             [] OTHER -> [rc |-> "ok", dlen |-> Len(Decoded(Kept(s))),
                          written |-> Decoded(Kept(s))]
    BY Zenon DEF Decode
  <1> HIDE DEF n
  <1>11. size <= room
    <2>1. n \in 0 .. Len(s)
      BY <1>3, <1>8, <1>9
    <2> QED
      BY <2>1, Zenon DEF s
  <1>12. size \in Nat
    BY <1>8 DEF DecodedSize
  <1> HIDE DEF s, size
  <1>13. ~(room < size)
    BY <1>11, <1>12
  <1>14. Decode(s, room) = [rc |-> "ok", dlen |-> Len(src), written |-> src]
    BY <1>6, <1>7, <1>8, <1>10, <1>13
  <1> QED
    BY <1>14, Zenon DEF s

\* What is encoded into room enough is the characters and a 0, which the two
\* who ask for it leave out.
LEMMA EncodedWithRoom ==
  ASSUME NEW src, IsData(src), src # <<>>, NEW room \in Nat,
         EncodedSize(Len(src)) + 1 <= room
  PROVE  LET w == Encode(src, room).written
         IN  w # <<>> /\ SubSeq(w, 1, Len(w) - 1) = Encoded(src)
  <1> DEFINE n == Len(src)
             out == Encoded(src)
             size == EncodedSize(n)
             r == Encode(src, room)
             w == out \o <<0>>
             v == SubSeq(w, 1, Len(w) - 1)
  <1>1. n \in Nat /\ n # 0
    BY DEF IsData
  <1>2. size \in Nat
    <2>1. Quartets(n) \in Nat /\ size = 4 * Quartets(n)
      BY <1>1, QuartetCount, Zenon
    <2> HIDE DEF size
    <2> QED
      BY <2>1
  <1>3. out \in Seq(Nat)
    BY EncodedParts, Zenon
  <1>4. r = IF n = 0 THEN [rc |-> "ok", dlen |-> room, written |-> <<>>]
            ELSE IF room < size + 1
                   THEN [rc |-> "too_small", dlen |-> size + 1,
                         written |-> <<>>]
                   ELSE [rc |-> "ok", dlen |-> Len(out), written |-> w]
    BY Zenon DEF Encode
  <1>5. ~(room < size + 1)
    <2> HIDE DEF size
    <2> QED
      BY <1>2 DEF size
  <1> HIDE DEF n, out, size, r
  <1>6. w \in Seq(Nat) /\ Len(w) = Len(out) + 1 /\ Len(out) \in Nat
        /\ \A i \in 1 .. Len(out) : w[i] = out[i]
    BY <1>3
  <1> HIDE DEF w
  <1>7. r.written = w
    BY <1>1, <1>4, <1>5
  <1>8. w # <<>>
    BY <1>6
  <1>9. v = out
    <2>1. v \in Seq(Nat) /\ Len(v) = Len(out)
          /\ \A i \in 1 .. Len(out) : v[i] = w[i]
      BY <1>6
    <2>2. \A i \in 1 .. Len(v) : v[i] = out[i]
      BY <1>6, <2>1
    <2> HIDE DEF v
    <2> QED
      BY <1>3, <2>1, <2>2, SameSequence, Zenon
  <1> QED
    BY <1>7, <1>8, <1>9, Zenon DEF r, out

\* A header's value is bytes.
LEMMA AskedBytes ==
  ASSUME NEW r, Shake!IsRequest(r), NEW name
  PROVE  Shake!AskedOf(r, name) \in Seq(Byte)
  <1> DEFINE f == r.fields
             having == {q \in DOMAIN f : f[q][1] = name}
             p == Shake!Lowest(having)
  <1>1. AreFields(f)
    BY BodyBytes, Zenon
  <1>2. DOMAIN f = 1 .. Len(f) /\ Len(f) \in Nat
    BY <1>1 DEF AreFields
  <1>3. Byte = 0 .. 255
    BY Zenon DEF Byte
  <1>4. CASE having = {}
    <2>1. Shake!AskedOf(r, name) = <<>>
      BY <1>4, Zenon DEF Shake!AskedOf
    <2>2. <<>> \in Seq(Byte)
      OBVIOUS
    <2> QED
      BY <2>1, <2>2, Zenon
  <1>5. CASE having # {}
    <2>1. having \in SUBSET Nat
      <3>1. \A q \in 1 .. Len(f) : q \in Nat
        BY <1>2
      <3> QED
        BY <1>2, <3>1, Zenon
    <2>2. p \in having
      <3> HIDE DEF having
      <3> QED
        BY <1>5, <2>1, LowestOf, Zenon
    <2>3. Shake!AskedOf(r, name) = f[p][2]
      BY <1>5, Zenon DEF Shake!AskedOf
    <2> HIDE DEF p
    <2>4. p \in 1 .. Len(f)
      BY <1>2, <2>2, Zenon
    <2>5. f[p][2] \in Seq(0 .. 255)
      BY <1>1, <2>4, FieldIs, Zenon
    <2> QED
      BY <1>3, <2>3, <2>5, Zenon
  <1> QED
    BY <1>4, <1>5, Zenon

\* Bytes are data to encode.
LEMMA BytesAreData ==
  ASSUME NEW s \in Seq(Byte)
  PROVE  IsData(s)
  <1>1. s \in Seq(0 .. 255)
    BY Zenon DEF Byte
  <1>2. s \in Seq(Nat) /\ \A i \in 1 .. Len(s) : s[i] \in Nat /\ s[i] < 256
    BY <1>1, BytesAreNumbers
  <1> QED
    BY <1>2, Zenon DEF IsData, IsByte

\* The headers' names.
LEMMA NamesAre ==
  /\ Shake!Key \in Nat /\ Shake!Key > 256
  /\ Shake!Key1 \in Nat /\ Shake!Key1 > 256
  /\ Shake!Key2 \in Nat /\ Shake!Key2 > 256
  BY DEF Shake!Key, Shake!Key1, Shake!Key2

\* The digest of a key and the accept key of RFC 6455, and what a client reads
\* in it.
KeyDigest(k) == Standard("sha1", k \o Shake!GUID)

\* It is 20 bytes, and what the server computes.
LEMMA KeyDigestIs ==
  ASSUME NEW k \in Seq(Byte)
  PROVE  /\ Digest("sha1", k \o Shake!GUID) = KeyDigest(k)
         /\ KeyDigest(k) \in Seq(Byte) /\ Len(KeyDigest(k)) = 20
  <1> DEFINE g == Shake!GUID
             all == k \o g
  <1>1. g \in Seq(Byte)
    BY DEF Shake!GUID, Byte
  <1> HIDE DEF g
  <1>2. all \in Seq(Byte)
    BY <1>1
  <1>3. KeyDigest(k) = Standard("sha1", all)
    BY Zenon DEF g, KeyDigest
  <1> HIDE DEF all
  <1>4. KeyDigest(k) = Digest("sha1", all)
    BY <1>2, <1>3, DigestIs, Zenon
  <1>5. KeyDigest(k) \in Seq(Byte) /\ Len(KeyDigest(k)) = 20
    BY <1>2, <1>3, Sha1Length, Zenon
  <1> QED
    BY <1>4, <1>5, Zenon DEF all, g

\* The accept key is the Base64 of the digest, and is read as the digest.
LEMMA AcceptIs ==
  ASSUME NEW k \in Seq(Byte), NEW room \in Nat, room > 28
  PROVE  LET w == Encode(KeyDigest(k), room).written
         IN  /\ w # <<>>
             /\ SubSeq(w, 1, Len(w) - 1) = Encoded(KeyDigest(k))
             /\ Decode(Encoded(KeyDigest(k)), 21)
                  = [rc |-> "ok", dlen |-> 20, written |-> KeyDigest(k)]
  <1> DEFINE s == KeyDigest(k)
  <1>1. s \in Seq(Byte) /\ Len(s) = 20
    BY KeyDigestIs, Zenon
  <1>2. IsData(s)
    BY <1>1, BytesAreData, Zenon
  <1> HIDE DEF s
  <1>3. s # <<>>
    <2>1. Len(<<>>) = 0 /\ 20 # 0
      OBVIOUS
    <2> QED
      BY <1>1, <2>1, Zenon
  <1>4. EncodedSize(20) = 28 /\ Quartets(20) = 7
    BY DEF EncodedSize, Quartets
  <1>5. EncodedSize(Len(s)) + 1 <= room
    BY <1>1, <1>4
  <1> DEFINE w == Encode(s, room).written
  <1>6. w # <<>> /\ SubSeq(w, 1, Len(w) - 1) = Encoded(s)
    BY <1>2, <1>3, <1>5, EncodedWithRoom, Zenon
  <1>7. Len(Encoded(s)) = 28
    <2>1. Len(Encoded(s)) = 4 * 7
      BY <1>1, <1>2, <1>4, EncodedParts, ZenonT(30)
    <2> QED
      BY <2>1
  <1>8. \A n \in 0 .. Len(Encoded(s)) : DecodedSize(n) <= 21
    <2>1. \A n \in 0 .. 28 : ((n * 6) + 7) \div 8 <= 21
      OBVIOUS
    <2> QED
      BY <1>7, <2>1, Zenon DEF DecodedSize
  <1>9. 21 \in Nat
    OBVIOUS
  <1>10. Decode(Encoded(s), 21)
           = [rc |-> "ok", dlen |-> Len(s), written |-> s]
    BY <1>2, <1>3, <1>8, <1>9, DecodedWhole, Zenon
  <1> QED
    BY <1>1, <1>6, <1>10, Zenon DEF s

\* Connection_ver10: the reply to a request that has a key.
LEMMA Ver10Right ==
  ASSUME NEW r, Shake!IsRequest(r), NEW x, NEW at, IsInput(r, x, at),
         Shake!AskedOf(r, Shake!Key) # <<>>, NEW room \in Nat,
         NEW a, a = Shake!Ver10Reply(x, room)
  PROVE  /\ a.as = "ver10"
         /\ a.room > 28 =>
              /\ Decode(a.accept, 21) =
                   [rc |-> "ok", dlen |-> 20,
                    written |-> KeyDigest(Shake!AskedOf(r, Shake!Key))]
              /\ r.known \in {<<>>, a.accept}
  <1> DEFINE k == Shake!AskedOf(r, Shake!Key)
             s == KeyDigest(k)
             w == Encode(s, room).written
             accept == IF w = <<>> THEN <<>> ELSE SubSeq(w, 1, Len(w) - 1)
  <1>1. k \in Seq(Byte)
    BY AskedBytes, Zenon
  <1>2. Shake!GetValue(x, Shake!Key) = k
    BY NamesAre, ValueIs, Zenon
  <1>3. Shake!IsRequest(r) /\ k # <<>>
    OBVIOUS
  <1>4. r.known # <<>> => r.known = Shake!AcceptKey(k)
    BY <1>3, Zenon DEF Shake!IsRequest
  <1>5. a = [as |-> "ver10", room |-> room,
             accept |->
               LET v == Encode(Digest("sha1", k \o Shake!GUID), room).written
               IN  IF v = <<>> THEN <<>> ELSE SubSeq(v, 1, Len(v) - 1)]
    BY <1>2, Zenon DEF Shake!Ver10Reply
  <1> HIDE DEF k
  <1>6. a = [as |-> "ver10", room |-> room, accept |-> accept]
    BY <1>1, <1>5, KeyDigestIs, Zenon
  <1> HIDE DEF accept
  <1>7. a.as = "ver10" /\ a.room = room /\ a.accept = accept
    BY <1>6
  <1>8. ASSUME room > 28
        PROVE  /\ Decode(accept, 21)
                    = [rc |-> "ok", dlen |-> 20, written |-> s]
               /\ r.known \in {<<>>, accept}
    <2>1. /\ w # <<>> /\ SubSeq(w, 1, Len(w) - 1) = Encoded(s)
          /\ Decode(Encoded(s), 21)
               = [rc |-> "ok", dlen |-> 20, written |-> s]
      BY <1>1, <1>8, AcceptIs, Zenon
    <2>2. accept = Encoded(s)
      BY <2>1, Zenon DEF accept
    <2>3. Shake!AcceptKey(k) = Encoded(s)
      <3> DEFINE e == 29
      <3>1. e \in Nat /\ e > 28
        OBVIOUS
      <3>2. Shake!AcceptKey(k)
              = SubSeq(Encode(s, e).written, 1,
                       Len(Encode(s, e).written) - 1)
        BY Zenon DEF Shake!AcceptKey, KeyDigest
      <3> HIDE DEF e
      <3>3. SubSeq(Encode(s, e).written, 1, Len(Encode(s, e).written) - 1)
              = Encoded(s)
        BY <1>1, <3>1, AcceptIs, Zenon
      <3> QED
        BY <3>2, <3>3, Zenon
    <2>4. r.known \in {<<>>, accept}
      BY <1>4, <2>2, <2>3, Zenon
    <2> QED
      BY <2>1, <2>2, <2>4, Zenon
  <1> QED
    BY <1>7, <1>8, Zenon DEF k

\* The number of a key is a word.
LEMMA ReadsIs ==
  ASSUME NEW k, NEW n, Shake!Reads(k, n)
  PROVE  n \in Word /\ Shake!DecodeKey(k) = [as |-> "value", value |-> n]
  <1>1. /\ n \in Shake!Halves \X Shake!Halves
        /\ Shake!DecodeKey(k) = [as |-> "value", value |-> n]
    BY Zenon DEF Shake!Reads
  <1>2. Shake!Halves \subseteq Half
    BY SMT DEF Half, Top, Shake!Halves
  <1>3. n \in Half \X Half
    BY <1>1, <1>2
  <1> QED
    BY <1>1, <1>3, Zenon DEF Word

\* Connection_draft76: the reply to a request with two keys, and no other key,
\* whatever its body.
LEMMA Draft76Right ==
  ASSUME NEW r, Shake!IsRequest(r), NEW x, NEW at, IsInput(r, x, at),
         Shake!AskedOf(r, Shake!Key) = <<>>, r.numbers # <<>>,
         Shake!Unbroken(StaleOf(r, x)), NEW stray,
         NEW a, a = Shake!Draft76Reply(x, stray)
  PROVE  /\ a.as = "draft76"
         /\ Shake!Unbroken(r.body) =>
              /\ a.hash = Standard("md5", Shake!Challenge(r))
              /\ r.known \in {<<>>, a.hash}
  <1> DEFINE n1 == r.numbers[1]
             n2 == r.numbers[2]
             k1 == Shake!DecodeKey(Shake!GetValue(x, Shake!Key1))
             k2 == Shake!DecodeKey(Shake!GetValue(x, Shake!Key2))
             p1 == PutBE(n1)
             p2 == PutBE(n2)
             v == r.body
             all == p1 \o p2 \o v
             read == PutBE(k1.value) \o PutBE(k2.value) \o Shake!Body(x, stray)
             s == Standard("md5", all)
  <1>1. /\ Len(v) = 8
        /\ Shake!Reads(Shake!AskedOf(r, Shake!Key1), n1)
        /\ Shake!Reads(Shake!AskedOf(r, Shake!Key2), n2)
    BY Zenon DEF Shake!IsRequest
  <1>2. s = Standard("md5", Shake!Challenge(r))
    BY Zenon DEF Shake!Challenge
  <1>2a. r.known # <<>> => r.known = s
    BY Zenon DEF Shake!IsRequest
  <1>2b. /\ Shake!GetValue(x, Shake!Key1) = Shake!AskedOf(r, Shake!Key1)
         /\ Shake!GetValue(x, Shake!Key2) = Shake!AskedOf(r, Shake!Key2)
    <2>1. \A name : name \in Nat /\ name > 256 =>
            Shake!GetValue(x, name) = Shake!AskedOf(r, name)
      BY ValueIs, Zenon
    <2> QED
      BY <2>1, NamesAre, Zenon
  <1>3. /\ k1 = [as |-> "value", value |-> n1] /\ n1 \in Word
        /\ k2 = [as |-> "value", value |-> n2] /\ n2 \in Word
    BY <1>1, <1>2b, ReadsIs, Zenon
  <1>4. p1 \in Seq(Byte) /\ p2 \in Seq(Byte) /\ v \in Seq(Byte)
    <2>1. v \in Seq(0 .. 255)
      BY BodyBytes, Zenon
    <2> QED
      BY <1>3, <2>1, PutIs DEF Byte
  <1>5. a = IF \E k \in {k1, k2} : k.as # "value"
              THEN IF k1.as # "value" THEN k1 ELSE k2
              ELSE [as |-> "draft76", hash |-> Digest("md5", read)]
    BY Zenon DEF Shake!Draft76Reply
  <1>6. Shake!Unbroken(v) => Shake!Body(x, stray) = v
    BY <1>1, BodyIs, Zenon
  <1> HIDE DEF n1, n2, k1, k2
  <1>7. k1.as = "value" /\ k2.as = "value" /\ k1.value = n1 /\ k2.value = n2
    BY <1>3
  <1>8. Shake!Unbroken(v) => read = all
    BY <1>6, <1>7, Zenon
  <1> HIDE DEF read, p1, p2, v
  <1>9. a = [as |-> "draft76", hash |-> Digest("md5", read)]
    BY <1>5, <1>7, Zenon
  <1>10. a.as = "draft76" /\ a.hash = Digest("md5", read)
    BY <1>9
  <1>11. all \in Seq(Byte)
    BY <1>4
  <1> HIDE DEF all
  <1>12. Digest("md5", all) = s
    BY <1>11, DigestIs, Zenon
  <1> HIDE DEF s
  <1>13. ASSUME Shake!Unbroken(v)
         PROVE  a.hash = s /\ r.known \in {<<>>, a.hash}
    BY <1>2a, <1>8, <1>10, <1>12, <1>13, Zenon
  <1> QED
    BY <1>2, <1>10, <1>13, Zenon DEF v

\* What Shake!HandshakeRight says of the answer a to the request r, found in
\* the text x.
Ver10Answer(r, a) ==
  /\ a.as = "ver10"
  /\ a.room > 28 =>
       /\ Decode(a.accept, 21) =
            [rc |-> "ok", dlen |-> 20,
             written |-> KeyDigest(Shake!AskedOf(r, Shake!Key))]
       /\ r.known \in {<<>>, a.accept}
Draft76Answer(r, x, a) ==
  r.numbers # <<>> /\ Shake!Unbroken(StaleOf(r, x)) =>
    /\ a.as = "draft76"
    /\ Shake!Unbroken(r.body) =>
         /\ a.hash = Standard("md5", Shake!Challenge(r))
         /\ r.known \in {<<>>, a.hash}
NoAnswer(r, x, a) == Shake!Unbroken(StaleOf(r, x)) => a.as = "null"

HasKey(r) == Shake!AskedOf(r, Shake!Key) # <<>>
HasKey2(r) == Shake!AskedOf(r, Shake!Key) = <<>>
              /\ Shake!AskedOf(r, Shake!Key2) # <<>>
Answered(r, x, a) ==
  CASE HasKey(r) -> Ver10Answer(r, a)
    [] HasKey2(r) -> Draft76Answer(r, x, a)
    [] OTHER -> NoAnswer(r, x, a)

\* createConnection answers a request in its buffer so.
LEMMA AnswerIs ==
  ASSUME NEW r, Shake!IsRequest(r), NEW x, NEW at, IsInput(r, x, at),
         NEW room \in Nat, NEW stray,
         NEW a, a = CASE Shake!GetValue(x, Shake!Key) # <<>> ->
                           Shake!Ver10Reply(x, room)
                      [] Shake!GetValue(x, Shake!Key) = <<>>
                         /\ Shake!GetValue(x, Shake!Key2) # <<>> ->
                           Shake!Draft76Reply(x, stray)
                      [] OTHER -> [as |-> "null"]
  PROVE  Answered(r, x, a)
  <1> DEFINE k == Shake!AskedOf(r, Shake!Key)
             k2 == Shake!AskedOf(r, Shake!Key2)
             g == Shake!GetValue(x, Shake!Key)
             g2 == Shake!GetValue(x, Shake!Key2)
             clean == Shake!Unbroken(StaleOf(r, x))
             v == Shake!Ver10Reply(x, room)
             d == Shake!Draft76Reply(x, stray)
  <1>1. (k # <<>> \/ clean => g = k) /\ (k2 # <<>> \/ clean => g2 = k2)
    <2>1. \A name : name \in Nat /\ name > 256
                    /\ (Shake!AskedOf(r, name) # <<>> \/ clean) =>
            Shake!GetValue(x, name) = Shake!AskedOf(r, name)
      BY ValueIs, Zenon
    <2> QED
      BY <2>1, NamesAre, Zenon
  <1>2. k # <<>> => Ver10Answer(r, v)
    BY Ver10Right, Zenon DEF Ver10Answer
  <1>3. k = <<>> => Draft76Answer(r, x, d)
    BY Draft76Right, Zenon DEF Draft76Answer
  <1>4. a = CASE g # <<>> -> v [] g = <<>> /\ g2 # <<>> -> d
              [] OTHER -> [as |-> "null"]
    BY Zenon
  <1>5. HasKey(r) <=> k # <<>>
    BY Zenon DEF HasKey
  <1>6. HasKey2(r) <=> k = <<>> /\ k2 # <<>>
    BY Zenon DEF HasKey2
  <1>7. Answered(r, x, a) = CASE HasKey(r) -> Ver10Answer(r, a)
                              [] HasKey2(r) -> Draft76Answer(r, x, a)
                              [] OTHER -> NoAnswer(r, x, a)
    BY Zenon DEF Answered
  <1> HIDE DEF k, k2, g, g2, clean, v, d
  <1>8. CASE k # <<>>
    <2>1. a = v
      BY <1>1, <1>4, <1>8
    <2>2. Ver10Answer(r, a)
      BY <1>2, <1>8, <2>1, Zenon
    <2> QED
      BY <1>5, <1>6, <1>7, <1>8, <2>2, Zenon
  <1>9. CASE k = <<>> /\ k2 # <<>>
    <2>1. Draft76Answer(r, x, a)
      <3>1. CASE clean
        <4>1. a = d
          BY <1>1, <1>4, <1>9, <3>1
        <4> QED
          BY <1>3, <1>9, <4>1, Zenon
      <3>2. CASE ~clean
        BY <3>2, Zenon DEF Draft76Answer, clean
      <3> QED
        BY <3>1, <3>2, Zenon
    <2> QED
      BY <1>5, <1>6, <1>7, <1>9, <2>1, Zenon
  <1>10. CASE k = <<>> /\ k2 = <<>>
    <2>1. NoAnswer(r, x, a)
      <3>1. CASE clean
        <4>1. a = [as |-> "null"]
          BY <1>1, <1>4, <1>10, <3>1
        <4>2. a.as = "null"
          BY <4>1
        <4> QED
          BY <4>2, Zenon DEF NoAnswer
      <3>2. CASE ~clean
        BY <3>2, Zenon DEF NoAnswer, clean
      <3> QED
        BY <3>1, <3>2, Zenon
    <2> QED
      BY <1>5, <1>6, <1>7, <1>10, <2>1, Zenon
  <1> QED
    BY <1>8, <1>9, <1>10, Zenon

\* The buffer holds the request that is at work, and its answer is right.
ShakeInv ==
  /\ buffer \in Seq(Nat)
  /\ request # Shake!None => request \in Requests /\ Holds(buffer, request)
  /\ reply # Shake!None => request # Shake!None
  /\ Shake!HandshakeRight

\* The requests are such as a client sends.
LEMMA RequestsAre ==
  /\ \A r \in Requests : Shake!IsRequest(r)
  /\ \A old \in Leftovers : old \in Seq(Nat)
  BY RequestsAssumption, Zenon DEF RequestsAssumption

\* There is no request at the start.
LEMMA ShakeStart == Shake!Init => ShakeInv
  <1> SUFFICES ASSUME Shake!Init PROVE ShakeInv
    OBVIOUS
  <1>1. /\ buffer \in Leftovers
        /\ request = Shake!None /\ reply = Shake!None
    BY Zenon DEF Shake!Init
  <1>2. buffer \in Seq(Nat)
    BY <1>1, RequestsAre, Zenon
  <1>3. Shake!HandshakeRight
    BY <1>1, Zenon DEF Shake!HandshakeRight
  <1> QED
    BY <1>1, <1>2, <1>3, Zenon DEF ShakeInv

\* What is read stands at the front of the buffer.
LEMMA OverHolds ==
  ASSUME NEW r, Shake!IsRequest(r), NEW old \in Seq(Nat)
  PROVE  Holds(Shake!Over(Shake!RequestText(r), old), r)
  <1> DEFINE t == Shake!RequestText(r)
             u == SubSeq(old, Len(t) + 1, Len(old))
             b == t \o u
  <1>1. t \in Seq(Nat)
    BY RequestIs, Zenon
  <1> HIDE DEF t
  <1>2. u \in Seq(Nat)
    BY <1>1
  <1> HIDE DEF u
  <1>3. IsJoin(Nat, b, t, u)
    BY <1>1, <1>2, JoinIs, Zenon
  <1> HIDE DEF b
  <1>4. Len(t) \in Nat /\ Len(u) \in Nat
    BY <1>1, <1>2
  <1>5. b \in Seq(Nat) /\ Len(b) = Len(t) + Len(u)
        /\ \A i \in 1 .. Len(t) : b[i] = t[i]
    BY <1>3, Zenon DEF IsJoin
  <1>6. Len(b) >= Len(t)
    BY <1>4, <1>5
  <1>7. Shake!Over(Shake!RequestText(r), old) = b
    BY Zenon DEF Shake!Over, b, u, t
  <1> QED
    BY <1>5, <1>6, <1>7, Zenon DEF Holds, t

\* The rooms of a reply are numbers.
LEMMA RoomsAreNumbers == \A room \in OutputSizes : room \in Nat
  BY FormatsAssumption DEF FormatsAssumption

\* Reading, answering and closing keep the invariant.
LEMMA ShakeKept == ShakeInv /\ [Shake!Next]_shakeVars => ShakeInv'
  <1> SUFFICES ASSUME ShakeInv, [Shake!Next]_shakeVars PROVE ShakeInv'
    OBVIOUS
  <1>1. /\ buffer \in Seq(Nat)
        /\ request # Shake!None =>
             request \in Requests /\ Holds(buffer, request)
        /\ reply # Shake!None => request # Shake!None
        /\ Shake!HandshakeRight
    BY Zenon DEF ShakeInv
  <1>2. ASSUME NEW r \in Requests, Shake!ReadSome(r) PROVE ShakeInv'
    <2>1. /\ request' = r /\ reply' = Shake!None
          /\ buffer' = Shake!Over(Shake!RequestText(r), buffer)
      BY <1>2, Zenon DEF Shake!ReadSome
    <2>2. Holds(buffer', r)
      BY <1>1, <2>1, RequestsAre, OverHolds, Zenon
    <2>3. buffer' \in Seq(Nat)
      BY <2>2, Zenon DEF Holds
    <2>4. Holds(buffer, request)'
      BY <2>1, <2>2, Zenon DEF Holds, Shake!RequestText, Shake!HeaderText
    <2>5. Shake!HandshakeRight'
      BY <2>1, Zenon DEF Shake!HandshakeRight
    <2> QED
      BY <2>1, <2>3, <2>4, <2>5, Zenon DEF ShakeInv
  <1>3. ASSUME NEW room \in OutputSizes, NEW stray \in Strays,
               Shake!CreateConnection(room, stray)
        PROVE  ShakeInv'
    <2> DEFINE x == Shake!CString(buffer)
    <2>1. /\ request # Shake!None
          /\ reply' = CASE Shake!GetValue(x, Shake!Key) # <<>> ->
                             Shake!Ver10Reply(x, room)
                        [] Shake!GetValue(x, Shake!Key) = <<>>
                           /\ Shake!GetValue(x, Shake!Key2) # <<>> ->
                             Shake!Draft76Reply(x, stray)
                        [] OTHER -> [as |-> "null"]
          /\ buffer' = buffer /\ request' = request
      BY <1>3, Zenon DEF Shake!CreateConnection, Shake!Input
    <2>2. request \in Requests /\ Holds(buffer, request)
      BY <1>1, <2>1, Zenon
    <2>3. Shake!IsRequest(request)
      BY <2>2, RequestsAre, Zenon
    <2>4. PICK at : IsInput(request, x, at)
      BY <2>2, <2>3, InputIs, Zenon
    <2>5. room \in Nat
      BY RoomsAreNumbers, Zenon
    <2>6. Answered(request, x, reply')
      BY <2>1, <2>3, <2>4, <2>5, AnswerIs, ZenonT(30)
    <2>7. Answered(request', Shake!CString(buffer'), reply')
      BY <2>1, <2>6, Zenon
    <2>8. Shake!HandshakeRight'
      BY <2>7, Zenon DEF Answered, HasKey, HasKey2, Ver10Answer,
         Draft76Answer, NoAnswer, KeyDigest, StaleOf, Shake!HandshakeRight,
         Shake!Asked, Shake!Stale, Shake!Input
    <2>9. Holds(buffer, request)'
      BY <2>1, <2>2, Zenon
    <2> QED
      BY <1>1, <2>1, <2>2, <2>8, <2>9, Zenon DEF ShakeInv
  <1>4. ASSUME Shake!Close PROVE ShakeInv'
    <2>1. request' = Shake!None /\ reply' = Shake!None /\ buffer' = buffer
      BY <1>4, Zenon DEF Shake!Close
    <2>2. Shake!HandshakeRight'
      BY <2>1, Zenon DEF Shake!HandshakeRight
    <2> QED
      BY <1>1, <2>1, <2>2, Zenon DEF ShakeInv
  <1>5. ASSUME UNCHANGED shakeVars PROVE ShakeInv'
    <2>1. buffer' = buffer /\ request' = request /\ reply' = reply
      BY <1>5, Zenon DEF shakeVars
    <2>2. Shake!HandshakeRight'
      BY <1>1, <2>1, Zenon DEF Shake!HandshakeRight, Shake!Asked,
         Shake!Stale, Shake!Input
    <2>3. request # Shake!None => Holds(buffer, request)'
      BY <1>1, <2>1, Zenon
    <2> QED
      BY <1>1, <2>1, <2>2, <2>3, Zenon DEF ShakeInv
  <1> QED
    BY <1>2, <1>3, <1>4, <1>5, Zenon DEF Shake!Next

-----------------------------------------------------------------------------
(* All of them.                                                            *)

\* The invariant of the part that a behaviour is about.
FormatsInv ==
  /\ part = "stream" => StreamInv /\ Stream!ClientUnderstood
  /\ part = "images" => ImagesInv
  /\ part = "buffers" => BuffersInv
  /\ part = "hashes" => HashInv
  /\ part = "handshake" => ShakeInv

\* It holds of what each part starts with.
LEMMA FormatsStart == Init => FormatsInv
  <1>1. Init => (part = "stream" => Stream!Init)
                /\ (part = "images" => Images!Init)
                /\ (part = "buffers" => Buffers!Init)
                /\ (part = "hashes" => Hashes!Init)
                /\ (part = "handshake" => Shake!Init)
    BY Zenon DEF Init
  <1> QED
    BY <1>1, StreamStart, ClientUnderstoodInitially, FrameStart, BuffersStart,
       HashStart, ShakeStart, Zenon DEF FormatsInv

\* Every step keeps it, and no step leaves its part.
LEMMA FormatsStep == FormatsInv /\ [Next]_vars => FormatsInv'
  <1> SUFFICES ASSUME FormatsInv, [Next]_vars PROVE FormatsInv'
    OBVIOUS
  <1>1. part' = part
    BY Zenon DEF Next, HashesStep, BuffersStep, StreamStep, ShakeStep,
       ImagesStep, vars
  <1>2. ASSUME part = "stream" PROVE [Stream!Next]_streamVars
    <2>1. "stream" # "images"
      OBVIOUS
    <2> QED
      BY <1>2, <2>1, Zenon DEF Next, HashesStep, BuffersStep, StreamStep,
         ShakeStep, ImagesStep, vars
  <1>3. ASSUME part = "images" PROVE [Images!Next]_imageVars
    <2>1. "stream" # "images"
      OBVIOUS
    <2> QED
      BY <1>3, <2>1, Zenon DEF Next, HashesStep, BuffersStep, StreamStep,
         ShakeStep, ImagesStep, vars
  <1>4. ASSUME part = "buffers" PROVE [Buffers!Next]_bufferVars
    <2>1. "buffers" # "images" /\ "buffers" # "stream"
      OBVIOUS
    <2> QED
      BY <1>4, <2>1, Zenon DEF Next, HashesStep, BuffersStep, StreamStep,
         ShakeStep, ImagesStep, vars
  <1>5. ASSUME part = "hashes" PROVE [Hashes!Next]_hashVars
    <2>1. "hashes" # "images" /\ "hashes" # "stream" /\ "hashes" # "buffers"
          /\ "hashes" # "handshake"
      OBVIOUS
    <2> QED
      BY <1>5, <2>1, Zenon DEF Next, HashesStep, BuffersStep, StreamStep,
         ShakeStep, ImagesStep, vars
  <1>6. ASSUME part = "handshake" PROVE [Shake!Next]_shakeVars
    <2>1. "handshake" # "images" /\ "handshake" # "stream"
          /\ "handshake" # "buffers" /\ "handshake" # "hashes"
      OBVIOUS
    <2> QED
      BY <1>6, <2>1, Zenon DEF Next, HashesStep, BuffersStep, StreamStep,
         ShakeStep, ImagesStep, vars
  <1> QED
    BY <1>1, <1>2, <1>3, <1>4, <1>5, <1>6, StreamKept, ClientUnderstoodKept,
       FramePreserved, BuffersKept, HashKept, ShakeKept, Zenon DEF FormatsInv

\* Of every state the server can make of the bytes no other thread sees.
THEOREM FormatsInvariant == Spec => []FormatsInv
  <1>1. FormatsInv /\ UNCHANGED vars => FormatsInv'
    BY FormatsStep
  <1> QED
    BY FormatsStart, FormatsStep, PTL DEF Spec

\* sendText of both connections: while every frame goes out complete the client
\* has the texts the server was given, in order and unchanged, and all of them
\* once there is no frame left to read.
THEOREM StreamStaysIntact == Spec => []StreamIntact
  <1>1. FormatsInv => StreamIntact
    BY StreamIsIntact, Zenon DEF FormatsInv, StreamIntact
  <1> QED
    BY <1>1, FormatsInvariant, PTL

\* ParseFrame: for texts of any length below 65536, masked with any of the
\* keys, and whatever the buffer held: a text that is read whole into the
\* buffer, with no byte of 128 or more in its length, is what is printed.
THEOREM ClientIsUnderstood == Spec => []ClientUnderstood
  <1>1. FormatsInv => ClientUnderstood
    BY Zenon DEF FormatsInv, ClientUnderstood
  <1> QED
    BY <1>1, FormatsInvariant, PTL

\* getDepthHistgram and getDepthImage: what is nearer is brighter.
THEOREM NearerStaysBrighter == Spec => []NearerBrighter
  <1>1. FormatsInv => NearerBrighter
    BY NearerIsBrighter, Zenon DEF FormatsInv, NearerBrighter
  <1> QED
    BY <1>1, FormatsInvariant, PTL

\* base64_encode and base64_decode: for data of any length, a text with a
\* line's end in it or garbled, and buffers of any size nothing is written
\* behind a buffer, the size that a caller is told is enough, and the data
\* comes back.
THEOREM WhatWasEncodedComesBack == Spec => []Base64Inverse
  <1>1. FormatsInv => Base64Inverse
    BY Zenon DEF FormatsInv, BuffersInv, Base64Inverse
  <1> QED
    BY <1>1, FormatsInvariant, PTL

\* The getters of the images: each pixel of a frame of any size reaches the
\* client at its place, with its depth or its colours.
THEOREM PixelsAlwaysArrive == Spec => []PixelsArrive
  <1>1. FormatsInv => PixelsArrive
    BY PixelsDoArrive, Zenon DEF FormatsInv, PixelsArrive
  <1> QED
    BY <1>1, FormatsInvariant, PTL

\* sha1_update, md5_update and the finishes: whatever the parts that a message
\* of any length comes in, and whatever the key of an HMAC, the digest is the
\* one the standard says of the whole.
THEOREM DigestsAreStandard == Spec => []DigestStandard
  <1>1. FormatsInv => DigestStandard
    BY Zenon DEF FormatsInv, HashInv, DigestStandard
  <1> QED
    BY <1>1, FormatsInvariant, PTL

\* createConnection and both connections, for any requests and whatever earlier
\* ones have left in the buffer.  A request with a Sec-WebSocket-Key gets the
\* accept key of RFC 6455, if output_size happens to hold 29 or more.  One with
\* the two keys of draft 76 gets an answer of draft 76, and the MD5 of its
\* challenge if its body has no NUL, CR or LF; one with none of the keys is
\* refused: both if what is behind them in the buffer, up to a NUL, has no line
\* break.  Where an "if" fails the code may answer wrongly, and nothing is
\* claimed.
THEOREM HandshakesAreRight == Spec => []HandshakeRight
  <1>1. FormatsInv => HandshakeRight
    BY Zenon DEF FormatsInv, ShakeInv, HandshakeRight
  <1> QED
    BY <1>1, FormatsInvariant, PTL
=============================================================================
