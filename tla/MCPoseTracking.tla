--------------------------- MODULE MCPoseTracking ---------------------------
(***************************************************************************)
(* PoseTracking for TLC: three users, so that one is calibrated and one    *)
(* leaves while another is tracked, and the DT of the code.                *)
(***************************************************************************)
EXTENDS PoseTracking

MCUserIds == 1 .. 3
=============================================================================
