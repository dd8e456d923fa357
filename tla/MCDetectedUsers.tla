--------------------------- MODULE MCDetectedUsers ---------------------------
(***************************************************************************)
(* DetectedUsers for TLC: three users that may all be in view, one more    *)
(* than the arrays hold, so that GetUsers truncates, and two frame tags.   *)
(***************************************************************************)
EXTENDS DetectedUsers

MCUserIds == 1 .. 3
=============================================================================
