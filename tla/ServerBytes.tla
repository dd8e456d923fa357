---------------------------- MODULE ServerBytes ----------------------------
(***************************************************************************)
(* WireFormats with the JSON documents beside it, as one more part that    *)
(* may be at work.  They are apart from it because the operators on a tree *)
(* are RECURSIVE, and the theorems are about WireFormats.                  *)
(***************************************************************************)
EXTENDS WireFormats, JsonDocuments

ASSUME JsonAssumption ==
  /\ {MaxInt, MaxLargestInt, RightMargin, MaxChanges} \subseteq Nat
  /\ MaxInt < MaxLargestInt

\* Nothing of WireFormats is at work.
AllIdle ==
  /\ part = "documents"
  /\ ctx = Idle /\ key = Idle /\ fed = Idle /\ parts = Idle /\ digest = Idle
  /\ data = Idle /\ text = Idle /\ call = Idle
  /\ protocol = Idle /\ texts = Idle /\ wire = Idle /\ received = Idle
  /\ whole = Idle /\ heard = Idle
  /\ buffer = Idle /\ request = Idle /\ reply = Idle /\ clients = Idle
  /\ depthMD = Idle /\ rgb24 = Idle /\ answer = Idle

\* Documents that are not at work are as they were built.
BytesInit == (Init \/ AllIdle) /\ DocumentInit

DocumentsStep == part = "documents" /\ DocumentNext /\ UNCHANGED vars

BytesNext == (Next /\ UNCHANGED docVars) \/ DocumentsStep

BytesSpec == BytesInit /\ [][BytesNext]_<<vars, docVars>>
=============================================================================
