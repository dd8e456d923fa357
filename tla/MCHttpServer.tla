---------------------------- MODULE MCHttpServer ----------------------------
(***************************************************************************)
(* HttpServer for TLC: one user, who may be in view or not and tracked or  *)
(* not; one joint; a request for every getter, one of those that can       *)
(* refuse for each cache, and of those that take arguments also without.   *)
(***************************************************************************)
EXTENDS HttpServer

MCUserIds == {1}
MCOps ==
  (CU!Ops \ {"getSkeletonJointPosition"})
    \cup {"getUserIds", "getNumberOfDetectedUsers", "getDepthById"}
    \cup {"getRgbData", "getDepthImage", "getDepth", "badRequest"}
MCHttpRequests ==
  {r \in Requests :
     /\ r.op \in MCOps /\ (r.args \/ r.op \in {"getDepthById", "getDepth"})
     /\ r.id = (IF r.op \in CU!LookupOps \cup DU!ByIdOps THEN 1 ELSE 0)
     /\ r.joint = 0}
=============================================================================
