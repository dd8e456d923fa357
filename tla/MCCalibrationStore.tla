------------------------- MODULE MCCalibrationStore -------------------------
(***************************************************************************)
(* CalibrationStore for TLC: four users, so that one comes while others    *)
(* have a skeleton, are calibrated or still wait for the pose.             *)
(***************************************************************************)
EXTENDS CalibrationStore

MCUserIds == 1 .. 4
=============================================================================
