------------------------ MODULE MCApprovalService ------------------------
(* Instances of ApprovalService for TLC.                                    *)
EXTENDS ApprovalService, TLC

CONSTANTS a1, a2, t1, t2, d1, d2

(* Approval ids, tenants and drafts are only ever compared for equality.   *)
Symmetry ==
    Permutations(ApprovalId) \cup Permutations(Tenant)
        \cup Permutations(Resource)
=============================================================================
