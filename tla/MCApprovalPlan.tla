--------------------------- MODULE MCApprovalPlan ---------------------------
(* Approval plans with small bounds. *)
EXTENDS ApprovalPlan
=============================================================================
