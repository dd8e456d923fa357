--------------------------- MODULE MCEventReports ---------------------------
(***************************************************************************)
(* EventReports for TLC: two users, so that one is calibrated or leaves    *)
(* while another is tracked, two hands, and the DT of the code.            *)
(* UserDetector treats one user as any other: one is enough.               *)
(***************************************************************************)
EXTENDS EventReports

MCUserIds == 1 .. 2
MCWatchedIds == {1}
MCHandIds == 1 .. 2
=============================================================================
