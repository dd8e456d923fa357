-------------------------- MODULE MCCalibratedUsers --------------------------
(***************************************************************************)
(* CalibratedUsers for TLC: two users, any of them in view and any of      *)
(* those tracked; two joints, so that a skeleton can be half-written.      *)
(***************************************************************************)
EXTENDS CalibratedUsers

MCUserIds == 1 .. 2
=============================================================================
