-------------------------- MODULE MCTenantRecords --------------------------
(* Instances of TenantRecords for TLC.                                     *)
EXTENDS TenantRecords, TLC

MCSymmetry == Permutations(Thread)
=============================================================================
