----------------------- MODULE MCApprovalStoreFile -----------------------
(* Instances of ApprovalStoreFile for TLC: requests of every tenant, made  *)
(* at one time.                                                            *)
EXTENDS ApprovalStoreFile

MCSaved ==
    {NewRequest(t, r, pl, 0) : t \in Tenant, r \in Resource, pl \in Payload}
=============================================================================
