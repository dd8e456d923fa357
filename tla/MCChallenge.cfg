SPECIFICATION BytesSpec
CONSTANTS
  PartLengths <- MCPartLengths
  KeyLengths <- MCKeyLengths
  MaxParts = 2
  SourceBytes <- MCSourceBytes
  MaxBytes = 3
  Rooms <- MCRooms
  TextLengths <- MCTextLengths
  HeardLengths <- MCHeardLengths
  MaxTexts = 2
  BufferSize = 300
  Strays <- MCStrays
  Requests <- MCRequests
  Leftovers <- MCLeftovers
  OutputSizes <- MCOutputSizes
  MaxClients = 2
  Wid = 3
  Hei = 2
  CloudWid = 3
  CloudHei = 2
  Depths <- MCDepths
  Bytes <- MCBytes
  MaxDepth = 300
  MaxInt = 7
  MaxLargestInt = 127
  RightMargin = 16
  Leaves <- MCLeaves
  Paths <- MCPaths
  Names <- MCNames
  Indices <- MCIndices
  MaxChanges = 2
INVARIANTS
  ChallengeAnswered
CHECK_DEADLOCK FALSE
