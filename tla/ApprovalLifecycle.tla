------------------------- MODULE ApprovalLifecycle -------------------------
(***************************************************************************)
(* What the approval gate promises, with no store, no lock and no clock:   *)
(* the life of each request for approval.  A request is decided at most    *)
(* once, lapses at any time before it is used, and lets one send through   *)
(* at most.  A crash of the store may lose every request made so far, and  *)
(* a lost request lets nothing through any more.                           *)
(***************************************************************************)
EXTENDS Naturals, TLAPS

CONSTANT ApprovalId

VARIABLES
    phase,        \* where each request is in its life
    uses          \* how many sends each request has let through

lifecycleVars == <<phase, uses>>

Phase == {"none", "pending", "approved", "rejected", "expired", "consumed",
          "lost"}

Init ==
    /\ phase = [id \in ApprovalId |-> "none"]
    /\ uses = [id \in ApprovalId |-> 0]

Move(id, from, to) ==
    /\ phase[id] \in from
    /\ phase' = [phase EXCEPT ![id] = to]

Request(id) == Move(id, {"none"}, "pending") /\ UNCHANGED uses

Approve(id) == Move(id, {"pending"}, "approved") /\ UNCHANGED uses

Reject(id) == Move(id, {"pending"}, "rejected") /\ UNCHANGED uses

Expire(id) == Move(id, {"pending", "approved"}, "expired") /\ UNCHANGED uses

Consume(id) ==
    /\ Move(id, {"approved"}, "consumed")
    /\ uses' = [uses EXCEPT ![id] = @ + 1]

LoseAll ==
    /\ phase' = [id \in ApprovalId |->
                   IF phase[id] = "none" THEN "none" ELSE "lost"]
    /\ UNCHANGED uses

Next ==
    \/ \E id \in ApprovalId :
          Request(id) \/ Approve(id) \/ Reject(id) \/ Expire(id) \/ Consume(id)
    \/ LoseAll

Spec == Init /\ [][Next]_lifecycleVars

----------------------------------------------------------------------------
(* The lifecycle's own invariant: a request that has not been consumed or  *)
(* lost has let nothing through, and none ever lets two sends through.     *)
OneUse ==
    \A id \in ApprovalId :
        /\ uses[id] <= 1
        /\ phase[id] \notin {"consumed", "lost"} => uses[id] = 0

TypeOK ==
    /\ phase \in [ApprovalId -> Phase]
    /\ uses \in [ApprovalId -> Nat]

(* One request lets one send through at most, however many there are.      *)
THEOREM UsedOnce == Spec => [](TypeOK /\ OneUse)
  <1>1. Init => TypeOK /\ OneUse
    BY DEF Init, TypeOK, OneUse, Phase
  <1>2. TypeOK /\ OneUse /\ [Next]_lifecycleVars => TypeOK' /\ OneUse'
    <2> SUFFICES ASSUME TypeOK, OneUse, [Next]_lifecycleVars
                 PROVE  TypeOK' /\ OneUse'
      OBVIOUS
    <2> USE DEF TypeOK, OneUse, Phase
    <2>1. ASSUME NEW id \in ApprovalId,
                 Request(id) \/ Approve(id) \/ Reject(id) \/ Expire(id)
          PROVE  TypeOK' /\ OneUse'
      BY <2>1 DEF Request, Approve, Reject, Expire, Move
    <2>2. ASSUME NEW id \in ApprovalId, Consume(id)
          PROVE  TypeOK' /\ OneUse'
      BY <2>2 DEF Consume, Move
    <2>3. CASE LoseAll
      BY <2>3 DEF LoseAll
    <2>4. CASE UNCHANGED lifecycleVars
      BY <2>4 DEF lifecycleVars
    <2> QED
      BY <2>1, <2>2, <2>3, <2>4 DEF Next
  <1> QED
    BY <1>1, <1>2, PTL DEF Spec
=============================================================================
