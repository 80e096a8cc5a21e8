---------------------------- MODULE MCApprovalQueue ----------------------------
(* TLC instances of ApprovalQueue.                                          *)
EXTENDS ApprovalQueue

\* One image name for all requests, or one for each.
SameImage      == [h \in Handlers |-> "image"]
DistinctImages == [h \in Handlers |-> h]
=============================================================================
