----------------------------- MODULE MCWritePath -----------------------------
(***************************************************************************)
(* Instances of WritePath for TLC: which failures a run admits, and the    *)
(* symmetry of the requests.                                               *)
(***************************************************************************)
EXTENDS WritePath, TLC

AnyFault == {"begin", "rollback", "lostAck", "beforeApply", "afterApply"}
AnyFaultOrReject == AnyFault \cup {"reject"}

RequestSymmetry == Permutations(Request)
==============================================================================
