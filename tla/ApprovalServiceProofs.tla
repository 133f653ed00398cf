----------------------- MODULE ApprovalServiceProofs -----------------------
(***************************************************************************)
(* Theorems of ApprovalService, for every set of command-line processes,   *)
(* tenants, drafts and approval ids.                                       *)
(*                                                                         *)
(* The inductive invariant is the conjunction IInv: a method that is about *)
(* to write holds a copy that justified the write (CallOK), every copy     *)
(* agrees with the request as it was made (TermsKept), and the approvals   *)
(* still to be spent are counted (GateWithinGrants).                       *)
(***************************************************************************)
EXTENDS ApprovalService, TLAPS

IInv ==
    /\ TypeOK
    /\ CallOK
    /\ TermsKept
    /\ GateWithinGrants
    /\ GateOpensForItsOwn

----------------------------------------------------------------------------
(* update_status keeps the store a store, and changes one status.          *)
LEMMA UpdateStatusChangesOneStatus ==
    ASSUME NEW s \in Stores, NEW id \in ApprovalId, NEW st \in Status,
           s[id] # NoRecord
    PROVE  /\ UpdateStatus(s, id, st) \in Stores
           /\ UpdateStatus(s, id, st)[id] = [s[id] EXCEPT !.status = st]
           /\ UpdateStatus(s, id, st)[id] \in ApprovalRequest
           /\ \A j \in ApprovalId \ {id} : UpdateStatus(s, id, st)[j] = s[j]
  <1>1. s[id] \in ApprovalRequest
    BY DEF Stores
  <1>2. [s[id] EXCEPT !.status = st] \in ApprovalRequest
    BY <1>1 DEF ApprovalRequest
  <1>3. UpdateStatus(s, id, st) = [s EXCEPT ![id] = [s[id] EXCEPT !.status = st]]
    BY DEF UpdateStatus, Stores
  <1> QED
    BY <1>2, <1>3 DEF Stores

(* A record that differs from another in its status only still does after  *)
(* its status is replaced.                                                 *)
LEMMA OtherTermsUntouched ==
    ASSUME NEW a \in ApprovalRequest, NEW r \in ApprovalRequest,
           NEW st \in Status, r = [a EXCEPT !.status = r.status]
    PROVE  LET new == [r EXCEPT !.status = st]
           IN  new = [a EXCEPT !.status = new.status]
  BY DEF ApprovalRequest

(* request_approval stores a well-formed, pending request.                 *)
LEMMA NewRequestType ==
    ASSUME NEW t \in Tenant, NEW r \in Resource, NEW pl \in Payload,
           NEW time \in Nat
    PROVE  /\ NewRequest(t, r, pl, time) \in ApprovalRequest
           /\ NewRequest(t, r, pl, time) # NoRecord
           /\ NewRequest(t, r, pl, time).status = "pending"
  BY TtlAssumption, NoRecordAssumption
     DEF NewRequest, ApprovalRequest, Status

(* What a method ends with is a status, an error, or "proceed".            *)
LEMMA VerdictType ==
    ASSUME NEW c \in Call, NEW request \in ApprovalRequest
    PROVE  /\ Verdict(c, request) \in Result
           /\ Verdict(c, request) = "proceed" => NewStatus(c.op) \in Status
           /\ Verdict(c, request) = "proceed" => c.op # "get_status"
           /\ Verdict(c, request) # "ok"
  <1>1. c.op \in {"get_status", "approve", "reject", "consume"}
    BY DEF Call, Op
  <1>2. request.status \in Status
    BY DEF ApprovalRequest
  <1> QED
    BY <1>1, <1>2 DEF Verdict, DecideVerdict, ConsumeVerdict, Result, Status,
                      Error, NewStatus

LEMMA InitIInv == Init => IInv
  <1> SUFFICES ASSUME Init PROVE IInv
    OBVIOUS
  <1>1. EmptyStore \in Stores
    BY DEF EmptyStore, Stores
  <1>2. TypeOK
    BY <1>1 DEF Init, TypeOK
  <1>3. CallOK
    BY DEF Init, CallOK
  <1>4. TermsKept
    BY DEF Init, TermsKept, EmptyStore, InProgress
  <1>5. GateWithinGrants
    <2>1. ASSUME NEW id \in ApprovalId PROVE ~Spendable(id)
      BY DEF Init, Spendable, EmptyStore, InProgress, Proc
    <2>2. ASSUME NEW id \in ApprovalId
          PROVE  openings[id] = 0 /\ grants[id] = 0
      BY DEF Init
    <2>3. SUFFICES ASSUME NEW id \in ApprovalId
                   PROVE  /\ openings[id] <= grants[id]
                          /\ Spendable(id) => openings[id] < grants[id]
      BY DEF GateWithinGrants
    <2>4. openings[id] <= grants[id]
      BY <2>2
    <2> QED
      BY <2>1, <2>4
  <1>6. GateOpensForItsOwn
    BY DEF Init, GateOpensForItsOwn
  <1> QED
    BY <1>2, <1>3, <1>4, <1>5, <1>6 DEF IInv

(* The history of requests only grows.                                     *)
LEMMA AskedIsStable ==
    ASSUME TypeOK, Next
    PROVE  \A id \in ApprovalId : asked[id] # NoRecord => asked'[id] = asked[id]
  <1>1. ASSUME NEW id \in ApprovalId, NEW t \in Tenant, NEW r \in Resource,
               NEW pl \in Payload, RequestApproval(id, t, r, pl)
        PROVE  \A j \in ApprovalId : asked[j] # NoRecord => asked'[j] = asked[j]
    BY <1>1 DEF RequestApproval, Save, TypeOK, Stores
  <1>2. ASSUME NEW p \in Proc,
               \/ Begin(p) \/ ResolveFresh(p) \/ ResolveExpired(p) \/ Write(p)
               \/ Return(p) \/ Crash(p) \/ CrashInUpdate(p)
        PROVE  asked' = asked
    BY <1>2 DEF Begin, Get, GetFails, ResolveFresh, ResolveExpired, Write,
                Return, Crash, CrashInUpdate
  <1>3. CrashInSave \/ Tick => asked' = asked
    BY DEF CrashInSave, Tick
  <1> QED
    BY <1>1, <1>2, <1>3 DEF Next

----------------------------------------------------------------------------
(* An update_status call ends its method: with the record it wrote, or     *)
(* with the store's refusal.                                               *)
LEMMA UpdateEnds ==
    ASSUME TypeOK, CallOK, TermsKept,
           NEW p \in Proc, ResolveExpired(p) \/ Write(p)
    PROVE  /\ InProgress(p) /\ call[p] \in Call /\ call[p].id \in ApprovalId
           /\ store' \in Stores
           /\ call' \in [Proc -> Call \cup {NoCall}] /\ call'[p] \in Call
           /\ call'[p].pc = "return" /\ call'[p].op = call[p].op
           /\ call'[p].id = call[p].id /\ call'[p].tenant = call[p].tenant
           /\ call'[p].resource = call[p].resource
           /\ \A q \in Proc : q # p => call'[q] = call[q]
           /\ \/ /\ ~(intact /\ Visible(store, call[p].id, call[p].tenant))
                 /\ UNCHANGED <<store, grants, openings>>
                 /\ call'[p].req = call[p].req
                 /\ call'[p].result = Unavailable
              \/ /\ intact /\ Visible(store, call[p].id, call[p].tenant)
                 /\ \E st \in Status :
                       store' = UpdateStatus(store, call[p].id, st)
                 /\ store'[call[p].id] \in ApprovalRequest
                 /\ call'[p].req = store'[call[p].id]
                 /\ Write(p) => call'[p].result = "ok"
                 /\ ResolveExpired(p) =>
                       call'[p].result = Verdict(call[p], store'[call[p].id])
  <1> USE DEF TypeOK
  <1> DEFINE c == call[p]
  <1>1. /\ InProgress(p) /\ c \in Call /\ c.id \in ApprovalId
        /\ Write(p) => ~ResolveExpired(p)
    BY DEF ResolveExpired, Write, InProgress, Call
  <1>2. "ok" \in Result /\ Unavailable \in Result /\ "expired" \in Status
    BY DEF Unavailable, Result, Error, Status
  <1>3. CASE /\ ~(intact /\ Visible(store, c.id, c.tenant))
             /\ UNCHANGED <<store, grants, openings>>
             /\ call' = [call EXCEPT ![p] =
                            [@ EXCEPT !.pc = "return",
                                      !.result = Unavailable]]
    <2>1. [c EXCEPT !.pc = "return", !.result = Unavailable] \in Call
      BY <1>1, <1>2 DEF Call
    <2> QED
      BY <1>1, <1>3, <2>1 DEF Call
  <1>4. ASSUME intact, Visible(store, c.id, c.tenant),
               NEW st \in Status, store' = UpdateStatus(store, c.id, st)
        PROVE  /\ store' \in Stores /\ store'[c.id] \in ApprovalRequest
               /\ \A result \in Result :
                     [c EXCEPT !.pc = "return", !.req = store'[c.id],
                               !.result = result] \in Call
    <2>1. store' \in Stores /\ store'[c.id] \in ApprovalRequest
      BY <1>1, <1>4, UpdateStatusChangesOneStatus DEF Visible
    <2> QED
      BY <1>1, <2>1 DEF Call
  <1>5. CASE Write(p)
    <2>1. NewStatus(c.op) \in Status
      <3>1. c.req \in ApprovalRequest /\ Verdict(c, c.req) = "proceed"
        BY <1>1, <1>5 DEF Write, Call, TermsKept, CallOK
      <3> QED
        BY <1>1, <3>1, VerdictType
    <2>2. CASE /\ intact /\ Visible(store, c.id, c.tenant)
               /\ store' = UpdateStatus(store, c.id, NewStatus(c.op))
               /\ call' = [call EXCEPT ![p] =
                              [@ EXCEPT !.pc = "return", !.req = store'[c.id],
                                        !.result = "ok"]]
      <3>1. /\ store' \in Stores /\ store'[c.id] \in ApprovalRequest
            /\ [c EXCEPT !.pc = "return", !.req = store'[c.id],
                         !.result = "ok"] \in Call
        BY <1>2, <1>4, <2>1, <2>2
      <3> QED
        BY <1>1, <1>5, <2>1, <2>2, <3>1 DEF Call
    <2> QED
      BY <1>3, <1>5, <2>2 DEF Write
  <1>6. CASE ResolveExpired(p)
    <2>1. CASE /\ intact /\ Visible(store, c.id, c.tenant)
               /\ store' = UpdateStatus(store, c.id, "expired")
               /\ call' = [call EXCEPT ![p] =
                              [@ EXCEPT !.pc = "return", !.req = store'[c.id],
                                        !.result = Verdict(c, store'[c.id])]]
      <3>1. store' \in Stores /\ store'[c.id] \in ApprovalRequest
        BY <1>2, <1>4, <2>1
      <3>2. Verdict(c, store'[c.id]) \in Result
        BY <1>1, <3>1, VerdictType
      <3>3. [c EXCEPT !.pc = "return", !.req = store'[c.id],
                      !.result = Verdict(c, store'[c.id])] \in Call
        BY <1>2, <1>4, <2>1, <3>2
      <3> QED
        BY <1>1, <1>2, <1>6, <2>1, <3>1, <3>3 DEF Call
    <2> QED
      BY <1>3, <1>6, <2>1 DEF ResolveExpired
  <1> QED
    BY <1>5, <1>6

(* A request found fresh leaves its method with the verdict on the copy.   *)
LEMMA FreshGoesOn ==
    ASSUME TypeOK, TermsKept, NEW p \in Proc, ResolveFresh(p)
    PROVE  /\ InProgress(p) /\ call[p] \in Call
           /\ call[p].req \in ApprovalRequest /\ call[p].pc = "resolve"
           /\ call'[p] \in Call /\ call'[p].req = call[p].req
           /\ call'[p].pc \in {"write", "return"}
           /\ call'[p].op = call[p].op /\ call'[p].id = call[p].id
           /\ call'[p].tenant = call[p].tenant
           /\ call'[p].resource = call[p].resource
           /\ call'[p].result = Verdict(call[p], call[p].req)
           /\ \A q \in Proc : q # p => call'[q] = call[q]
  <1> DEFINE c == call[p]
  <1>1. /\ InProgress(p) /\ c \in Call /\ c.req \in ApprovalRequest
        /\ c.pc = "resolve"
    BY DEF ResolveFresh, TermsKept, InProgress, Call, TypeOK
  <1>2. PICK pc \in {"write", "return"} :
           call' = [call EXCEPT ![p] =
                       [@ EXCEPT !.pc = pc, !.result = Verdict(c, c.req)]]
    BY DEF ResolveFresh
  <1>3. [c EXCEPT !.pc = pc, !.result = Verdict(c, c.req)] \in Call
    BY <1>1, VerdictType DEF Call
  <1> QED
    BY <1>1, <1>2, <1>3 DEF Call, TypeOK

(* Each action keeps the types of the variables.                           *)
LEMMA TypePreserved ==
    ASSUME TypeOK, CallOK, TermsKept, [Next]_serviceVars
    PROVE  TypeOK'
  <1> USE DEF TypeOK
  <1>1. ASSUME NEW id \in ApprovalId, NEW t \in Tenant, NEW r \in Resource,
               NEW pl \in Payload, RequestApproval(id, t, r, pl)
        PROVE  TypeOK'
    <2>1. NewRequest(t, r, pl, now) \in ApprovalRequest
      BY NewRequestType
    <2> QED
      BY <1>1, <2>1 DEF RequestApproval, Save, Stores
  <1>2. ASSUME NEW p \in Proc, NEW op \in Op, NEW id \in ApprovalId,
               NEW t \in Tenant, NEW r \in Resource, Get(p, op, id, t, r)
        PROVE  TypeOK'
    <2>1. [op |-> op, id |-> id, tenant |-> t, resource |-> r,
           req |-> store[id], pc |-> "resolve", result |-> "none"] \in Call
      BY DEF Call, Stores, Result
    <2> QED
      BY <1>2, <2>1 DEF Get
  <1>3. ASSUME NEW p \in Proc, NEW op \in Op, NEW id \in ApprovalId,
               NEW t \in Tenant, NEW r \in Resource, GetFails(p, op, id, t, r)
        PROVE  TypeOK'
    <2>1. [op |-> op, id |-> id, tenant |-> t, resource |-> r,
           req |-> NoRecord, pc |-> "return", result |-> Unavailable] \in Call
      BY DEF Call, Result, Error, Unavailable
    <2> QED
      BY <1>3, <2>1 DEF GetFails
  <1>4. ASSUME NEW p \in Proc, ResolveFresh(p)
        PROVE  TypeOK'
    <2>1. call' \in [Proc -> Call \cup {NoCall}]
      BY <1>4, FreshGoesOn DEF ResolveFresh
    <2> QED
      BY <1>4, <2>1 DEF ResolveFresh
  <1>5. ASSUME NEW p \in Proc, ResolveExpired(p)
        PROVE  TypeOK'
    BY <1>5, UpdateEnds DEF ResolveExpired
  <1>6. ASSUME NEW p \in Proc, Write(p)
        PROVE  TypeOK'
    <2>1. call[p].id \in ApprovalId
      BY <1>6, UpdateEnds
    <2>2. /\ grants' \in [ApprovalId -> Nat] /\ openings' \in [ApprovalId -> Nat]
          /\ UNCHANGED <<intact, now, asked>>
      BY <1>6, <2>1 DEF Write
    <2> QED
      BY <1>6, <2>2, UpdateEnds
  <1>7. ASSUME NEW p \in Proc, Return(p) \/ Crash(p) \/ CrashInUpdate(p)
        PROVE  TypeOK'
    BY <1>7 DEF Return, Crash, CrashInUpdate, Truncated, EmptyStore, Stores
  <1>8. CASE CrashInSave
    BY <1>8 DEF CrashInSave, Truncated, EmptyStore, Stores
  <1>9. CASE Tick
    BY <1>9 DEF Tick
  <1>10. CASE UNCHANGED serviceVars
    BY <1>10 DEF serviceVars
  <1> QED
    BY <1>1, <1>2, <1>3, <1>4, <1>5, <1>6, <1>7, <1>8, <1>9, <1>10
       DEF Next, Begin

(* A method gets to its write only through the verdict that justifies it.  *)
LEMMA CallOKPreserved ==
    ASSUME TypeOK, CallOK, [Next]_serviceVars
    PROVE  CallOK'
  <1> USE DEF TypeOK
  <1>1. ASSUME NEW p \in Proc, Begin(p)
        PROVE  CallOK'
    BY <1>1 DEF Begin, Get, GetFails, CallOK, MayCall
  <1>2. ASSUME NEW p \in Proc, ResolveFresh(p)
        PROVE  CallOK'
    <2>1. call[p] \in Call
      BY <1>2 DEF ResolveFresh
    <2>2. /\ call'[p].op = call[p].op /\ call'[p].resource = call[p].resource
          /\ call'[p].req = call[p].req
          /\ call'[p].pc = "write" => Verdict(call[p], call[p].req) = "proceed"
      BY <1>2, <2>1 DEF ResolveFresh, Call
    <2>3. Verdict(call'[p], call'[p].req) = Verdict(call[p], call[p].req)
      BY <2>2 DEF Verdict, DecideVerdict, ConsumeVerdict
    <2>4. \A q \in Proc \ {p} : call'[q] = call[q]
      BY <1>2 DEF ResolveFresh
    <2>5. call[p] # NoCall
      BY <1>2 DEF ResolveFresh
    <2>6. ASSUME NEW q \in Proc, call'[q] # NoCall
          PROVE  /\ MayCall(q, call'[q].op)
                 /\ call'[q].pc = "write" =>
                       Verdict(call'[q], call'[q].req) = "proceed"
      <3>1. CASE q = p
        BY <3>1, <2>2, <2>3, <2>5 DEF CallOK, MayCall
      <3>2. CASE q # p
        BY <3>2, <2>4, <2>6 DEF CallOK
      <3> QED
        BY <3>1, <3>2
    <2> QED
      BY <2>6 DEF CallOK
  <1>3. ASSUME NEW p \in Proc, ResolveExpired(p) \/ Write(p)
        PROVE  CallOK'
    <2>1. /\ call[p] \in Call
          /\ call'[p].op = call[p].op /\ call'[p].pc = "return"
          /\ \A q \in Proc \ {p} : call'[q] = call[q]
      BY <1>3 DEF ResolveExpired, Write, Call
    <2>2. call[p] # NoCall
      BY <1>3 DEF ResolveExpired, Write
    <2> QED
      BY <2>1, <2>2 DEF CallOK, MayCall
  <1>4. ASSUME NEW p \in Proc, Return(p) \/ Crash(p) \/ CrashInUpdate(p)
        PROVE  CallOK'
    BY <1>4 DEF Return, Crash, CrashInUpdate, CallOK
  <1>5. ASSUME call' = call
        PROVE  CallOK'
    BY <1>5 DEF CallOK
  <1> QED
    BY <1>1, <1>2, <1>3, <1>4, <1>5
       DEF Next, RequestApproval, CrashInSave, Tick, serviceVars

----------------------------------------------------------------------------
(* The terms of a request survive every write of its status.               *)
LEMMA TermsPreserved ==
    ASSUME TypeOK, CallOK, TermsKept, [Next]_serviceVars
    PROVE  TermsKept'
  <1> USE DEF TypeOK
  <1> DEFINE StoreOK(id) == store[id] # NoRecord => SameTerms(store[id], id)
             CopyOK(p) ==
               InProgress(p) =>
                 /\ call[p].req # NoRecord
                 /\ SameTerms(call[p].req, call[p].id)
                 /\ call[p].req.tenant = call[p].tenant
  <1>1. ASSUME NEW id \in ApprovalId, NEW t \in Tenant, NEW r \in Resource,
               NEW pl \in Payload, RequestApproval(id, t, r, pl)
        PROVE  TermsKept'
    <2>1. /\ NewRequest(t, r, pl, now) \in ApprovalRequest
          /\ NewRequest(t, r, pl, now) # NoRecord
      BY NewRequestType
    <2>2. ASSUME NEW j \in ApprovalId PROVE StoreOK(j)'
      BY <1>1, <2>1
         DEF RequestApproval, Save, TermsKept, SameTerms, Stores, ApprovalRequest
    <2>3. ASSUME NEW q \in Proc PROVE CopyOK(q)'
      <3> SUFFICES ASSUME InProgress(q)' PROVE CopyOK(q)'
        OBVIOUS
      <3>1. call' = call /\ InProgress(q) /\ call[q] \in Call
        BY <1>1 DEF RequestApproval, InProgress
      <3>2. asked[call[q].id] # NoRecord /\ call[q].id \in ApprovalId
        BY <3>1 DEF TermsKept, SameTerms, Call
      <3>3. asked'[call[q].id] = asked[call[q].id]
        BY <1>1, <3>2 DEF RequestApproval, Save, Stores
      <3> QED
        BY <3>1, <3>3 DEF TermsKept, SameTerms
    <2> QED
      BY <2>2, <2>3 DEF TermsKept
  <1>2. ASSUME NEW p \in Proc, NEW op \in Op, NEW id \in ApprovalId,
               NEW t \in Tenant, NEW r \in Resource,
               Get(p, op, id, t, r) \/ GetFails(p, op, id, t, r)
        PROVE  TermsKept'
    <2>1. store' = store /\ asked' = asked
      BY <1>2 DEF Get, GetFails
    <2>2. ASSUME NEW q \in Proc PROVE CopyOK(q)'
      <3>1. CASE q # p
        BY <1>2, <2>1, <3>1 DEF Get, GetFails, TermsKept, InProgress, SameTerms
      <3>2. CASE q = p /\ Get(p, op, id, t, r)
        BY <2>1, <3>2 DEF Get, Visible, TermsKept, SameTerms
      <3>3. CASE q = p /\ GetFails(p, op, id, t, r)
        BY <3>3 DEF GetFails, InProgress
      <3> QED
        BY <1>2, <3>1, <3>2, <3>3
    <2> QED
      BY <2>1, <2>2 DEF TermsKept, SameTerms
  <1>3. ASSUME NEW p \in Proc, ResolveFresh(p)
        PROVE  TermsKept'
    <2>1. /\ store' = store /\ asked' = asked /\ call[p] \in Call
          /\ InProgress(p)
      BY <1>3 DEF ResolveFresh, InProgress
    <2>2. ASSUME NEW q \in Proc PROVE CopyOK(q)'
      BY <1>3, <2>1 DEF ResolveFresh, TermsKept, InProgress, SameTerms, Call
    <2> QED
      BY <2>1, <2>2 DEF TermsKept, SameTerms
  <1>4. ASSUME NEW p \in Proc, ResolveExpired(p) \/ Write(p)
        PROVE  TermsKept'
    <2>1. /\ asked' = asked /\ call[p] \in Call
          /\ ~InProgress(p)'
          /\ \A q \in Proc \ {p} : call'[q] = call[q]
      BY <1>4 DEF ResolveExpired, Write, InProgress, Call
    <2>2. call[p].id \in ApprovalId
      BY <2>1 DEF Call
    <2>3. \/ store' = store
          \/ \E st \in Status :
                /\ store[call[p].id] # NoRecord
                /\ store' = UpdateStatus(store, call[p].id, st)
      <3>1. CASE ResolveExpired(p)
        BY <3>1 DEF ResolveExpired, Visible, Status
      <3>2. CASE Write(p)
        <4>1. call[p].req \in ApprovalRequest
          BY <3>2, <2>1 DEF Write, Call, TermsKept, InProgress
        <4>2. NewStatus(call[p].op) \in Status
          BY <3>2, <2>1, <4>1, VerdictType DEF Write, CallOK
        <4> QED
          BY <3>2, <4>2 DEF Write, Visible
      <3> QED
        BY <1>4, <3>1, <3>2
    <2>4. ASSUME NEW j \in ApprovalId PROVE StoreOK(j)'
      <3>1. CASE store' = store
        BY <3>1, <2>1 DEF TermsKept, SameTerms
      <3>2. ASSUME NEW st \in Status, store[call[p].id] # NoRecord,
                   store' = UpdateStatus(store, call[p].id, st)
            PROVE  StoreOK(j)'
        <4>1. /\ store'[call[p].id] = [store[call[p].id] EXCEPT !.status = st]
              /\ j # call[p].id => store'[j] = store[j]
          BY <2>2, <3>2, UpdateStatusChangesOneStatus
        <4>2. store[call[p].id] \in ApprovalRequest
          BY <2>2, <3>2 DEF Stores
        <4>3. asked[call[p].id] \in ApprovalRequest
          BY <2>2, <3>2 DEF Stores, TermsKept, SameTerms
        <4>4. SameTerms(store[call[p].id], call[p].id)
          BY <2>2, <3>2 DEF TermsKept
        <4>5. SameTerms([store[call[p].id] EXCEPT !.status = st], call[p].id)
          BY <4>2, <4>3, <4>4, OtherTermsUntouched DEF SameTerms
        <4>6. CASE j = call[p].id
          BY <4>1, <4>5, <4>6, <2>1 DEF SameTerms
        <4>7. CASE j # call[p].id
          BY <4>1, <4>7, <2>1 DEF TermsKept, SameTerms
        <4> QED
          BY <4>6, <4>7
      <3> QED
        BY <2>3, <3>1, <3>2
    <2>5. ASSUME NEW q \in Proc PROVE CopyOK(q)'
      BY <2>1 DEF TermsKept, InProgress, SameTerms
    <2> QED
      BY <2>4, <2>5 DEF TermsKept
  <1>5. ASSUME NEW p \in Proc, Return(p) \/ Crash(p) \/ CrashInUpdate(p)
        PROVE  TermsKept'
    BY <1>5 DEF Return, Crash, CrashInUpdate, Truncated, EmptyStore,
                TermsKept, InProgress, SameTerms
  <1>6. CASE CrashInSave
    BY <1>6 DEF CrashInSave, Truncated, EmptyStore, TermsKept, InProgress,
                SameTerms
  <1>7. CASE Tick \/ UNCHANGED serviceVars
    BY <1>7 DEF Tick, serviceVars, TermsKept, InProgress, SameTerms
  <1> QED
    BY <1>1, <1>2, <1>3, <1>4, <1>5, <1>6, <1>7 DEF Next, Begin

----------------------------------------------------------------------------
(* Reading, lapsing, losing and returning create no go-ahead.              *)
LEMMA NoNewGoAhead ==
    ASSUME TypeOK, CallOK, TermsKept, [Next]_serviceVars,
           ~ \E p \in Proc : Write(p),
           NEW j \in ApprovalId, Spendable(j)'
    PROVE  Spendable(j) /\ openings' = openings /\ grants' = grants
  <1> USE DEF TypeOK
  <1>1. ASSUME NEW id \in ApprovalId, NEW t \in Tenant, NEW r \in Resource,
               NEW pl \in Payload, RequestApproval(id, t, r, pl)
        PROVE  Spendable(j) /\ openings' = openings /\ grants' = grants
    <2>1. NewRequest(t, r, pl, now).status = "pending"
      BY NewRequestType
    <2>2. call' = call /\ call[Server] = NoCall
      BY <1>1 DEF RequestApproval
    <2>3. store'[j] # NoRecord /\ store'[j].status = "approved"
      BY <2>2 DEF Spendable, InProgress
    <2>4. store'[j] = store[j]
      BY <1>1, <2>1, <2>3 DEF RequestApproval, Save, Stores
    <2> QED
      BY <1>1, <2>3, <2>4 DEF RequestApproval, Spendable
  <1>2. ASSUME NEW p \in Proc, NEW op \in Op, NEW id \in ApprovalId,
               NEW t \in Tenant, NEW r \in Resource, Get(p, op, id, t, r)
        PROVE  Spendable(j) /\ openings' = openings /\ grants' = grants
    BY <1>2 DEF Get, Visible, Spendable, InProgress, Proc
  <1>3. ASSUME NEW p \in Proc, NEW op \in Op, NEW id \in ApprovalId,
               NEW t \in Tenant, NEW r \in Resource, GetFails(p, op, id, t, r)
        PROVE  Spendable(j) /\ openings' = openings /\ grants' = grants
    BY <1>3 DEF GetFails, Spendable, InProgress, Proc
  <1>4. ASSUME NEW p \in Proc, ResolveFresh(p)
        PROVE  Spendable(j) /\ openings' = openings /\ grants' = grants
    <2>1. call[p] \in Call /\ InProgress(p)
      BY <1>4 DEF ResolveFresh, InProgress
    <2> QED
      BY <1>4, <2>1 DEF ResolveFresh, Spendable, InProgress, Proc, Call
  <1>5. ASSUME NEW p \in Proc, ResolveExpired(p)
        PROVE  Spendable(j) /\ openings' = openings /\ grants' = grants
    <2>1. call[p] \in Call /\ call[p].id \in ApprovalId
      BY <1>5 DEF ResolveExpired, Call
    <2>2. InProgress(Server)' => InProgress(Server) /\ call'[Server] = call[Server]
      BY <1>5, UpdateEnds DEF InProgress, Proc
    <2>3. CASE store' = store
      BY <1>5, <2>2, <2>3 DEF ResolveExpired, Spendable
    <2>4. CASE /\ Visible(store, call[p].id, call[p].tenant)
               /\ store' = UpdateStatus(store, call[p].id, "expired")
      <3>1. /\ store'[call[p].id] = [store[call[p].id] EXCEPT !.status = "expired"]
            /\ store[call[p].id] \in ApprovalRequest
            /\ j # call[p].id => store'[j] = store[j]
        <4>1. "expired" \in Status
          BY DEF Status
        <4>2. store[call[p].id] # NoRecord
          BY <2>4 DEF Visible
        <4>3. store[call[p].id] \in ApprovalRequest
          BY <2>1, <4>2 DEF Stores
        <4> QED
          BY <2>1, <2>4, <4>1, <4>2, <4>3, UpdateStatusChangesOneStatus
      <3>2. store'[call[p].id].status = "expired"
        BY <3>1 DEF ApprovalRequest
      <3> QED
        BY <1>5, <2>2, <3>1, <3>2 DEF ResolveExpired, Spendable
    <2> QED
      BY <1>5, <2>3, <2>4 DEF ResolveExpired
  <1>6. ASSUME NEW p \in Proc, Return(p) \/ Crash(p) \/ CrashInUpdate(p)
        PROVE  Spendable(j) /\ openings' = openings /\ grants' = grants
    BY <1>6 DEF Return, Crash, CrashInUpdate, Truncated, EmptyStore,
                Spendable, InProgress, Proc
  <1>7. CASE CrashInSave
    BY <1>7 DEF CrashInSave, Truncated, EmptyStore, Spendable, InProgress
  <1>8. CASE Tick \/ UNCHANGED serviceVars
    BY <1>8 DEF Tick, serviceVars, Spendable, InProgress
  <1> QED
    BY <1>1, <1>2, <1>3, <1>4, <1>5, <1>6, <1>7, <1>8 DEF Next, Begin

LEMMA OnlyWritesCount ==
    ASSUME [Next]_serviceVars, ~ \E p \in Proc : Write(p)
    PROVE  openings' = openings /\ grants' = grants
  <1>1. ASSUME NEW p \in Proc,
               \/ Begin(p) \/ ResolveFresh(p) \/ ResolveExpired(p)
               \/ Return(p) \/ Crash(p) \/ CrashInUpdate(p)
        PROVE  openings' = openings /\ grants' = grants
    BY <1>1 DEF Begin, Get, GetFails, ResolveFresh, ResolveExpired,
                Return, Crash, CrashInUpdate
  <1>2. CASE CrashInSave \/ Tick \/ UNCHANGED serviceVars
    BY <1>2 DEF CrashInSave, Tick, serviceVars
  <1> QED
    BY <1>1, <1>2 DEF Next, RequestApproval

(* Only a human's approve adds a go-ahead, and a consume spends one.       *)
LEMMA GatePreserved ==
    ASSUME TypeOK, CallOK, TermsKept, GateWithinGrants, [Next]_serviceVars
    PROVE  GateWithinGrants'
  <1> USE DEF TypeOK
  <1> SUFFICES ASSUME NEW j \in ApprovalId
               PROVE  /\ openings'[j] <= grants'[j]
                      /\ Spendable(j)' => openings'[j] < grants'[j]
    BY DEF GateWithinGrants
  <1>0. /\ openings[j] <= grants[j]
        /\ Spendable(j) => openings[j] < grants[j]
        /\ openings[j] \in Nat /\ grants[j] \in Nat
    BY DEF GateWithinGrants
  <1>1. CASE ~ \E p \in Proc : Write(p)
    <2>1. openings' = openings /\ grants' = grants
      BY <1>1, OnlyWritesCount
    <2>2. Spendable(j)' => Spendable(j)
      BY <1>1, NoNewGoAhead
    <2> QED
      BY <1>0, <2>1, <2>2
  <1>2. ASSUME NEW p \in Proc, Write(p)
        PROVE  /\ openings'[j] <= grants'[j]
               /\ Spendable(j)' => openings'[j] < grants'[j]
    <2> DEFINE c == call[p]
    <2>1. /\ c \in Call /\ c.id \in ApprovalId /\ c.req \in ApprovalRequest
          /\ c.pc = "write" /\ InProgress(p)
          /\ Verdict(c, c.req) = "proceed"
          /\ MayCall(p, c.op)
      BY <1>2 DEF Write, Call, TermsKept, InProgress, CallOK
    <2>2. c.op \in {"approve", "reject", "consume"}
      BY <2>1, VerdictType DEF Call, Op
    <2>3. InProgress(Server)' => p # Server /\ call'[Server] = call[Server]
      BY <1>2, UpdateEnds DEF InProgress, Proc
    <2>4. CASE store' = store /\ openings' = openings /\ grants' = grants
      BY <1>0, <2>3, <2>4 DEF Spendable, InProgress
    <2>5. CASE /\ Visible(store, c.id, c.tenant)
               /\ store' = UpdateStatus(store, c.id, NewStatus(c.op))
               /\ grants' = IF c.op = "approve"
                            THEN [grants EXCEPT ![c.id] = @ + 1] ELSE grants
               /\ openings' = IF c.op = "consume"
                              THEN [openings EXCEPT ![c.id] = @ + 1] ELSE openings
      <3>1. NewStatus(c.op) \in Status
        BY <2>1, VerdictType
      <3>2. /\ store'[c.id] = [store[c.id] EXCEPT !.status = NewStatus(c.op)]
            /\ store[c.id] \in ApprovalRequest
            /\ j # c.id => store'[j] = store[j]
        <4>1. store[c.id] # NoRecord
          BY <2>5 DEF Visible
        <4>2. store[c.id] \in ApprovalRequest
          BY <2>1, <4>1 DEF Stores
        <4> QED
          BY <2>1, <2>5, <3>1, <4>1, <4>2, UpdateStatusChangesOneStatus
      <3>3. store'[c.id].status = NewStatus(c.op)
        BY <3>2 DEF ApprovalRequest
      <3>4. CASE j # c.id
        <4>1. openings'[j] = openings[j] /\ grants'[j] = grants[j]
          BY <2>5, <3>4
        <4>2. Spendable(j)' => Spendable(j)
          BY <2>3, <3>2, <3>4 DEF Spendable, InProgress
        <4> QED
          BY <1>0, <4>1, <4>2
      <3>5. CASE j = c.id /\ c.op = "approve"
        <4>1. openings'[j] = openings[j] /\ grants'[j] = grants[j] + 1
          BY <2>1, <2>5, <3>5
        <4> QED
          BY <1>0, <4>1
      <3>6. CASE j = c.id /\ c.op = "reject"
        <4>1. openings'[j] = openings[j] /\ grants'[j] = grants[j]
          BY <2>5, <3>6
        <4>2. store'[j].status = "rejected"
          BY <3>3, <3>6 DEF NewStatus
        <4>3. Spendable(j)' => Spendable(j)
          BY <2>3, <4>2 DEF Spendable, InProgress
        <4> QED
          BY <1>0, <4>1, <4>3
      <3>7. CASE j = c.id /\ c.op = "consume"
        <4>1. p = Server
          BY <2>1, <3>7 DEF MayCall
        <4>2. c.req.status = "approved"
          BY <2>1, <3>7 DEF Verdict, DecideVerdict, ConsumeVerdict
        <4>3. Spendable(j)
          BY <2>1, <3>7, <4>1, <4>2 DEF Spendable
        <4>4. openings'[j] = openings[j] + 1 /\ grants'[j] = grants[j]
          BY <2>1, <2>5, <3>7
        <4>5. store'[j].status = "consumed"
          BY <3>3, <3>7 DEF NewStatus
        <4>6. ~Spendable(j)'
          BY <2>3, <4>1, <4>5 DEF Spendable
        <4> QED
          BY <1>0, <4>3, <4>4, <4>6
      <3> QED
        BY <2>2, <3>4, <3>5, <3>6, <3>7
    <2> QED
      BY <1>2, <2>4, <2>5 DEF Write
  <1> QED
    BY <1>1, <1>2

----------------------------------------------------------------------------
(* Approvals are counted up, never down.                                   *)
LEMMA GrantsGrow ==
    ASSUME TypeOK, [Next]_serviceVars, NEW id \in ApprovalId
    PROVE  grants'[id] >= grants[id]
  <1>1. CASE ~ \E p \in Proc : Write(p)
    BY <1>1, OnlyWritesCount DEF TypeOK
  <1>2. ASSUME NEW p \in Proc, Write(p)
        PROVE  grants'[id] >= grants[id]
    BY <1>2 DEF Write, TypeOK
  <1> QED
    BY <1>1, <1>2

(* A method's result becomes "ok" in one place, after its write.           *)
LEMMA OkMeansWritten ==
    ASSUME IInv, [Next]_serviceVars, NEW q \in Proc,
           call'[q] # NoCall, call'[q] # call[q], call'[q].result = "ok"
    PROVE  Write(q)
  <1> USE DEF IInv, TypeOK
  <1>1. ASSUME NEW p \in Proc, Begin(p)
        PROVE  FALSE
    BY <1>1 DEF Begin, Get, GetFails, Unavailable
  <1>2. ASSUME NEW p \in Proc, ResolveFresh(p)
        PROVE  FALSE
    <2>1. q = p /\ call[p] \in Call /\ call[p].req \in ApprovalRequest
      BY <1>2 DEF ResolveFresh, TermsKept, InProgress, Call
    <2>2. call'[p].result = Verdict(call[p], call[p].req)
      BY <1>2, <2>1 DEF ResolveFresh, Call
    <2> QED
      BY <2>1, <2>2, VerdictType
  <1>3. ASSUME NEW p \in Proc, ResolveExpired(p)
        PROVE  FALSE
    <2>1. q = p /\ call[p] \in Call /\ call[p].id \in ApprovalId
      BY <1>3 DEF ResolveExpired, Call
    <2>2. CASE call'[p].result = Unavailable
      BY <2>1, <2>2 DEF Unavailable
    <2>3. CASE /\ call'[p].result = Verdict(call[p], store'[call[p].id])
               /\ Visible(store, call[p].id, call[p].tenant)
               /\ store' = UpdateStatus(store, call[p].id, "expired")
      <3>1. store'[call[p].id] \in ApprovalRequest
        BY <2>1, <2>3, UpdateStatusChangesOneStatus DEF Visible, Status
      <3> QED
        BY <2>1, <2>3, <3>1, VerdictType
    <2> QED
      BY <1>3, <2>1, <2>2, <2>3 DEF ResolveExpired, Call
  <1>4. ASSUME NEW p \in Proc, Write(p)
        PROVE  Write(q)
    BY <1>4, UpdateEnds
  <1>5. ASSUME NEW p \in Proc, Return(p) \/ Crash(p) \/ CrashInUpdate(p)
        PROVE  FALSE
    BY <1>5 DEF Return, Crash, CrashInUpdate
  <1> QED
    BY <1>1, <1>2, <1>3, <1>4, <1>5
       DEF Next, RequestApproval, CrashInSave, Tick, serviceVars

(* The gate opens for a request's own tenant and draft: a consume writes   *)
(* only after its copy matched both, and the copy agrees with the request. *)
LEMMA OwnPreserved ==
    ASSUME IInv, [Next]_serviceVars, GateWithinGrants'
    PROVE  GateOpensForItsOwn'
  <1> USE DEF IInv, TypeOK
  <1> SUFFICES ASSUME NEW q \in Proc,
                      call'[q] # NoCall, call'[q].op = "consume",
                      call'[q].result = "ok"
               PROVE  /\ asked'[call'[q].id] # NoRecord
                      /\ asked'[call'[q].id].tenant = call'[q].tenant
                      /\ asked'[call'[q].id].resource = call'[q].resource
                      /\ grants'[call'[q].id] >= 1
    BY DEF GateOpensForItsOwn
  <1>1. CASE call'[q] = call[q]
    <2>1. call[q] \in Call /\ call[q].id \in ApprovalId
      BY <1>1 DEF Call
    <2>2. /\ asked[call[q].id] # NoRecord
          /\ asked[call[q].id].tenant = call[q].tenant
          /\ asked[call[q].id].resource = call[q].resource
          /\ grants[call[q].id] >= 1
      BY <1>1 DEF GateOpensForItsOwn
    <2>3. asked'[call[q].id] = asked[call[q].id]
      <3>1. CASE Next
        BY <2>1, <2>2, <3>1, AskedIsStable
      <3>2. CASE UNCHANGED serviceVars
        BY <3>2 DEF serviceVars
      <3> QED
        BY <3>1, <3>2
    <2>4. grants'[call[q].id] >= grants[call[q].id]
      BY <2>1, GrantsGrow
    <2>5. grants'[call[q].id] \in Nat
      BY <2>1, TypePreserved
    <2> QED
      BY <1>1, <2>1, <2>2, <2>3, <2>4, <2>5
  <1>2. CASE call'[q] # call[q]
    <2>1. Write(q)
      BY <1>2, OkMeansWritten
    <2> DEFINE c == call[q]
    <2>2. /\ c \in Call /\ c.id \in ApprovalId /\ c.pc = "write"
          /\ InProgress(q) /\ c # NoCall
      BY <2>1 DEF Write, Call, InProgress
    <2>3. /\ call'[q].op = c.op /\ call'[q].id = c.id
          /\ call'[q].tenant = c.tenant /\ call'[q].resource = c.resource
      BY <2>1, UpdateEnds
    <2>4. c.op = "consume"
      BY <2>3
    <2>5. c.req.resource = c.resource /\ c.req.status = "approved"
      BY <2>2, <2>4 DEF CallOK, Verdict, DecideVerdict, ConsumeVerdict
    <2>6. /\ asked[c.id] \in ApprovalRequest /\ asked[c.id] # NoRecord
          /\ c.req = [asked[c.id] EXCEPT !.status = c.req.status]
          /\ c.req.tenant = c.tenant
      BY <2>2 DEF TermsKept, SameTerms, Stores
    <2>7. asked[c.id].tenant = c.tenant /\ asked[c.id].resource = c.resource
      BY <2>5, <2>6 DEF ApprovalRequest
    <2>8. q = Server
      BY <2>2, <2>4 DEF CallOK, MayCall
    <2>9. Spendable(c.id)
      BY <2>2, <2>4, <2>5, <2>8 DEF Spendable
    <2>10. openings[c.id] < grants[c.id]
      BY <2>2, <2>9 DEF GateWithinGrants
    <2>11. asked' = asked /\ grants' = grants
      BY <2>1, <2>4 DEF Write
    <2>12. grants[c.id] >= 1
      BY <2>2, <2>10
    <2> QED
      BY <2>3, <2>6, <2>7, <2>11, <2>12
  <1> QED
    BY <1>1, <1>2

(* What update_status hands back is a record of that request.              *)
LEMMA HandedBack ==
    ASSUME IInv, NEW p \in Proc, ResolveExpired(p) \/ Write(p)
    PROVE  \/ call'[p].req = call[p].req
           \/ /\ call'[p].req = store'[call[p].id]
              /\ call'[p].req \in ApprovalRequest
              /\ SameTerms(call'[p].req, call[p].id)
              /\ call'[p].req.tenant = call[p].tenant
  <1> USE DEF IInv, TypeOK
  <1> DEFINE id == call[p].id
  <1>1. CASE /\ Visible(store, id, call[p].tenant)
             /\ \E st \in Status : store' = UpdateStatus(store, id, st)
             /\ call'[p].req = store'[id]
    <2>1. PICK st \in Status : store' = UpdateStatus(store, id, st)
      BY <1>1
    <2>2. /\ id \in ApprovalId /\ store[id] # NoRecord
          /\ store[id].tenant = call[p].tenant
      BY <1>1, UpdateEnds DEF Visible
    <2>3. /\ store[id] \in ApprovalRequest
          /\ store'[id] = [store[id] EXCEPT !.status = st]
          /\ store'[id] \in ApprovalRequest
      BY <2>1, <2>2, UpdateStatusChangesOneStatus DEF Stores
    <2>4. /\ asked[id] \in ApprovalRequest /\ asked[id] # NoRecord
          /\ store[id] = [asked[id] EXCEPT !.status = store[id].status]
      BY <2>2 DEF TermsKept, SameTerms, Stores
    <2>5. /\ store'[id] = [asked[id] EXCEPT !.status = store'[id].status]
          /\ store'[id].tenant = store[id].tenant
      BY <2>3, <2>4 DEF ApprovalRequest
    <2> QED
      BY <1>1, <2>2, <2>3, <2>4, <2>5 DEF SameTerms
  <1> QED
    BY <1>1, UpdateEnds

----------------------------------------------------------------------------
(* IInv is inductive.                                                      *)
LEMMA IInvPreserved ==
    ASSUME IInv, [Next]_serviceVars
    PROVE  IInv'
  <1>1. TypeOK'
    BY TypePreserved DEF IInv
  <1>2. CallOK'
    BY CallOKPreserved DEF IInv
  <1>3. TermsKept'
    BY TermsPreserved DEF IInv
  <1>4. GateWithinGrants'
    BY GatePreserved DEF IInv
  <1>5. GateOpensForItsOwn'
    BY <1>4, OwnPreserved
  <1> QED
    BY <1>1, <1>2, <1>3, <1>4, <1>5 DEF IInv

(* IInv holds in every reachable state of the service.                     *)
THEOREM Invariance == Spec => []IInv
  <1>1. IInv /\ [Next]_serviceVars => IInv'
    BY IInvPreserved
  <1> QED
    BY <1>1, InitIInv, PTL DEF Spec

(* The variables keep their types.                                         *)
THEOREM TypeCorrect == Spec => []TypeOK
  BY Invariance, PTL DEF IInv

(* However many command lines decide beside the server, the gate opens at  *)
(* most once for each approval a human wrote.                              *)
THEOREM WithinGrants == Spec => []GateWithinGrants
  BY Invariance, PTL DEF IInv

(* What a request is for never changes, in the file or in a method's copy. *)
THEOREM TermsAreKept == Spec => []TermsKept
  BY Invariance, PTL DEF IInv

(* The gate opens for the request's own tenant and draft, after a human's  *)
(* approval.                                                               *)
THEOREM OpensForItsOwn == Spec => []GateOpensForItsOwn
  BY Invariance, PTL DEF IInv

(* A verdict to write is given by _resolve_expiry and the test after it,   *)
(* on a copy whose deadline is the request's own.                          *)
THEOREM NoLateVerdicts == Spec => NoLateVerdict
  <1>1. IInv /\ [Next]_serviceVars => [NoLateStep]_serviceVars
    <2> SUFFICES ASSUME IInv, Next, NEW q \in Proc, Writing(q)', ~Writing(q)
                 PROVE  now <= asked[call'[q].id].expires
      BY DEF NoLateStep
    <2> USE DEF IInv, TypeOK
    <2>1. ASSUME NEW p \in Proc, ResolveFresh(p)
          PROVE  now <= asked[call'[q].id].expires
      <3> DEFINE c == call[p]
      <3>1. /\ q = p /\ c \in Call /\ InProgress(p)
            /\ Verdict(c, c.req) = "proceed"
        BY <2>1 DEF ResolveFresh, Writing, InProgress, Call
      <3>2. c.req.status \in {"pending", "approved"}
        <4>1. c.req \in ApprovalRequest
          BY <3>1 DEF TermsKept, Call
        <4>2. c.op # "get_status"
          BY <3>1, <4>1, VerdictType
        <4> QED
          BY <3>1, <4>2 DEF Verdict, DecideVerdict, ConsumeVerdict, Call, Op
      <3>3. ~(now > c.req.expires)
        BY <2>1, <3>2 DEF ResolveFresh, Expired
      <3>4. /\ c.id \in ApprovalId /\ asked[c.id] \in ApprovalRequest
            /\ c.req = [asked[c.id] EXCEPT !.status = c.req.status]
        BY <3>1 DEF TermsKept, SameTerms, Call, Stores
      <3>5. c.req.expires = asked[c.id].expires /\ asked[c.id].expires \in Nat
        BY <3>4 DEF ApprovalRequest
      <3>6. call'[p].id = c.id
        BY <2>1, <3>1 DEF ResolveFresh, Call
      <3> QED
        BY <3>1, <3>3, <3>5, <3>6
    <2>2. ASSUME NEW p \in Proc,
                 \/ Begin(p) \/ ResolveExpired(p) \/ Write(p)
                 \/ Return(p) \/ Crash(p) \/ CrashInUpdate(p)
          PROVE  FALSE
      <3>1. CASE ResolveExpired(p) \/ Write(p)
        BY <3>1, UpdateEnds DEF Writing
      <3> QED
        BY <2>2, <3>1 DEF Begin, Get, GetFails, Return, Crash, CrashInUpdate,
                          Writing, Call
    <2>3. call' = call => FALSE
      BY DEF Writing
    <2> QED
      BY <2>1, <2>2, <2>3 DEF Next, RequestApproval, CrashInSave, Tick
  <1> QED
    BY <1>1, Invariance, PTL DEF Spec, NoLateVerdict

----------------------------------------------------------------------------
(* What the lifecycle asks of the processes that decide: no two method     *)
(* calls on one request overlap, whether a second process runs or not.     *)
NoOverlap ==
    \A p, q \in Proc :
        InProgress(p) /\ InProgress(q) /\ call[p].id = call[q].id => p = q

(* Then a method in progress holds what the file holds, unless a crash has *)
(* taken the record away meanwhile.                                        *)
CopiesCurrent ==
    \A p \in Proc :
        InProgress(p) /\ intact /\ store[call[p].id] # NoRecord =>
            store[call[p].id] = call[p].req

LEMMA CopiesStayCurrent ==
    ASSUME IInv, NoOverlap, CopiesCurrent, [Next]_serviceVars
    PROVE  CopiesCurrent'
  <1> USE DEF IInv, TypeOK
  <1> SUFFICES ASSUME NEW p \in Proc, InProgress(p)', intact',
                      store'[call'[p].id] # NoRecord
               PROVE  store'[call'[p].id] = call'[p].req
    BY DEF CopiesCurrent
  <1>1. ASSUME NEW id \in ApprovalId, NEW t \in Tenant, NEW r \in Resource,
               NEW pl \in Payload, RequestApproval(id, t, r, pl)
        PROVE  store'[call'[p].id] = call'[p].req
    <2>1. InProgress(p) /\ call'[p] = call[p] /\ intact
      BY <1>1 DEF RequestApproval, InProgress
    <2>2. call[p] \in Call /\ call[p].id \in ApprovalId
      BY <2>1 DEF InProgress, Call
    <2>3. call[p].id # id
      BY <1>1, <2>1, <2>2 DEF RequestApproval, TermsKept, SameTerms
    <2>4. store'[call[p].id] = store[call[p].id]
      BY <1>1, <2>2, <2>3 DEF RequestApproval, Save, Stores
    <2> QED
      BY <2>1, <2>4 DEF CopiesCurrent
  <1>2. ASSUME NEW q \in Proc, Begin(q) \/ ResolveFresh(q) \/ Return(q) \/ Crash(q)
        PROVE  store'[call'[p].id] = call'[p].req
    <2>1. store' = store /\ intact
      BY <1>2 DEF Begin, Get, GetFails, ResolveFresh, Return, Crash
    <2>2. CASE call'[p] = call[p]
      BY <2>1, <2>2 DEF CopiesCurrent, InProgress
    <2>3. CASE call'[p] # call[p]
      <3>1. p = q
        BY <1>2, <2>3 DEF Begin, Get, GetFails, ResolveFresh, Return, Crash
      <3>2. CASE Begin(p)
        BY <2>1, <3>2 DEF Begin, Get, GetFails, InProgress
      <3>3. CASE ResolveFresh(p)
        <4>1. /\ InProgress(p) /\ call[p] \in Call
              /\ call'[p].id = call[p].id /\ call'[p].req = call[p].req
          BY <3>3 DEF ResolveFresh, InProgress, Call
        <4> QED
          BY <2>1, <4>1 DEF CopiesCurrent
      <3>4. CASE Return(p) \/ Crash(p)
        BY <3>4 DEF Return, Crash, InProgress
      <3> QED
        BY <1>2, <3>1, <3>2, <3>3, <3>4
    <2> QED
      BY <2>2, <2>3
  <1>3. ASSUME NEW q \in Proc, ResolveExpired(q) \/ Write(q)
        PROVE  store'[call'[p].id] = call'[p].req
    <2>1. /\ InProgress(q) /\ call[q] \in Call /\ call[q].id \in ApprovalId
          /\ intact
      BY <1>3 DEF ResolveExpired, Write, InProgress, Call
    <2>2. p # q
      BY <1>3, UpdateEnds DEF InProgress
    <2>3. call'[p] = call[p] /\ InProgress(p)
      BY <1>3, <2>2 DEF ResolveExpired, Write, InProgress
    <2>4. call[p].id # call[q].id /\ call[p].id \in ApprovalId
      BY <2>1, <2>2, <2>3 DEF NoOverlap, InProgress, Call
    <2>5. store'[call[p].id] = store[call[p].id]
      <3>1. \/ store' = store
            \/ \E st \in Status : store' = UpdateStatus(store, call[q].id, st)
        <4>1. "expired" \in Status
          BY DEF Status
        <4>2. CASE ResolveExpired(q)
          BY <4>1, <4>2 DEF ResolveExpired
        <4>3. CASE Write(q)
          <5>1. /\ call[q].req \in ApprovalRequest
                /\ Verdict(call[q], call[q].req) = "proceed"
            BY <2>1, <4>3 DEF Write, TermsKept, CallOK, Call
          <5>2. NewStatus(call[q].op) \in Status
            BY <2>1, <5>1, VerdictType
          <5> QED
            BY <4>3, <5>2 DEF Write
        <4> QED
          BY <1>3, <4>2, <4>3
      <3> QED
        BY <2>1, <2>4, <3>1 DEF UpdateStatus, Stores
    <2> QED
      BY <2>1, <2>3, <2>5 DEF CopiesCurrent
  <1>4. ASSUME NEW q \in Proc, CrashInUpdate(q)
        PROVE  store'[call'[p].id] = call'[p].req
    <2>1. Truncated /\ \/ call'[p] = NoCall
                       \/ call'[p] = call[p]
      BY <1>4 DEF CrashInUpdate
    <2>2. call[p].id \in ApprovalId /\ call'[p] = call[p]
      BY <2>1 DEF InProgress, Call
    <2> QED
      BY <2>1, <2>2 DEF Truncated, EmptyStore
  <1>5. CASE CrashInSave
    <2>1. call' = call /\ call[p].id \in ApprovalId
      BY <1>5 DEF CrashInSave, InProgress, Call
    <2> QED
      BY <1>5, <2>1 DEF CrashInSave, Truncated, EmptyStore
  <1>6. CASE Tick \/ UNCHANGED serviceVars
    BY <1>6 DEF Tick, serviceVars, CopiesCurrent, InProgress
  <1> QED
    BY <1>1, <1>2, <1>3, <1>4, <1>5, <1>6 DEF Next

(* A step that leaves the records and the gate alone is a stutter.         *)
LEMMA SamePhase ==
    ASSUME store' = store, intact' = intact, asked' = asked,
           openings' = openings
    PROVE  UNCHANGED <<Phase, openings>>
  BY DEF Phase

(* Losing the file, wholly or partly, loses every request made so far.     *)
LEMMA TruncatedLosesAll ==
    ASSUME IInv, Truncated, asked' = asked, openings' = openings
    PROVE  Lifecycle!LoseAll
  <1> USE DEF IInv, TypeOK
  <1>1. ASSUME NEW id \in ApprovalId
        PROVE  Phase'[id] = IF Phase[id] = "none" THEN "none" ELSE "lost"
    <2>1. store[id] # NoRecord => store[id].status # "none"
      BY DEF Stores, ApprovalRequest, Status
    <2> QED
      BY <2>1 DEF Truncated, EmptyStore, Phase
  <1>2. Phase' = [id \in ApprovalId |->
                    IF Phase[id] = "none" THEN "none" ELSE "lost"]
    BY <1>1 DEF Phase
  <1> QED
    BY <1>2 DEF Lifecycle!LoseAll

(* A write on a record that is there moves one request along its life.     *)
LEMMA WriteMoves ==
    ASSUME IInv, asked' = asked, intact' = intact, intact,
           NEW id \in ApprovalId, NEW st \in Status, store[id] # NoRecord,
           store' = UpdateStatus(store, id, st)
    PROVE  /\ Phase[id] = store[id].status
           /\ Phase' = [Phase EXCEPT ![id] = st]
  <1> USE DEF IInv, TypeOK
  <1>1. asked[id] # NoRecord
    BY DEF TermsKept, SameTerms
  <1>2. /\ store'[id] = [store[id] EXCEPT !.status = st]
        /\ store'[id] \in ApprovalRequest
        /\ store[id] \in ApprovalRequest
        /\ \A j \in ApprovalId \ {id} : store'[j] = store[j]
    BY UpdateStatusChangesOneStatus DEF Stores
  <1>3. store'[id].status = st /\ store'[id] # NoRecord
    BY <1>2, NoRecordAssumption DEF ApprovalRequest
  <1>4. Phase'[id] = st /\ \A j \in ApprovalId \ {id} : Phase'[j] = Phase[j]
    BY <1>1, <1>2, <1>3 DEF Phase
  <1> QED
    BY <1>1, <1>4 DEF Phase

(* While no two calls on one request overlap, every step of the service,   *)
(* of any number of processes, is a step of the lifecycle or leaves it     *)
(* alone.                                                                  *)
LEMMA LifecycleSteps ==
    ASSUME IInv, NoOverlap, CopiesCurrent, [Next]_serviceVars
    PROVE  [Lifecycle!Next]_(<<Phase, openings>>)
  <1> SUFFICES ASSUME Next
               PROVE  Lifecycle!Next \/ UNCHANGED <<Phase, openings>>
    BY SamePhase DEF serviceVars
  <1> USE DEF IInv, TypeOK
  <1>1. ASSUME NEW id \in ApprovalId, NEW t \in Tenant, NEW r \in Resource,
               NEW pl \in Payload, RequestApproval(id, t, r, pl)
        PROVE  Lifecycle!Request(id)
    <2>1. /\ NewRequest(t, r, pl, now) # NoRecord
          /\ NewRequest(t, r, pl, now).status = "pending"
      BY NewRequestType
    <2>2. /\ store'[id] = NewRequest(t, r, pl, now)
          /\ asked'[id] = NewRequest(t, r, pl, now)
          /\ \A j \in ApprovalId \ {id} :
                store'[j] = store[j] /\ asked'[j] = asked[j]
      BY <1>1 DEF RequestApproval, Save, Stores
    <2>3. /\ Phase[id] = "none" /\ Phase'[id] = "pending"
          /\ \A j \in ApprovalId \ {id} : Phase'[j] = Phase[j]
      BY <1>1, <2>1, <2>2 DEF RequestApproval, Phase
    <2>4. Phase' = [Phase EXCEPT ![id] = "pending"]
      BY <2>3 DEF Phase
    <2> QED
      BY <1>1, <2>3, <2>4
         DEF RequestApproval, Lifecycle!Request, Lifecycle!Move
  <1>2. ASSUME NEW p \in Proc,
               \/ Begin(p) \/ ResolveFresh(p) \/ Return(p) \/ Crash(p)
        PROVE  UNCHANGED <<Phase, openings>>
    BY <1>2, SamePhase DEF Begin, Get, GetFails, ResolveFresh, Return, Crash
  <1>3. ASSUME NEW p \in Proc, ResolveExpired(p)
        PROVE  Lifecycle!Next \/ UNCHANGED <<Phase, openings>>
    <2> DEFINE c == call[p]
    <2>1. /\ c \in Call /\ c.id \in ApprovalId /\ InProgress(p)
      BY <1>3 DEF ResolveExpired, InProgress, Call
    <2>2. CASE intact /\ Visible(store, c.id, c.tenant)
      <3>1. store[c.id] = c.req /\ store[c.id] # NoRecord
        BY <2>1, <2>2 DEF CopiesCurrent, Visible
      <3>2. /\ store' = UpdateStatus(store, c.id, "expired")
            /\ intact' = intact /\ asked' = asked /\ openings' = openings
        BY <1>3, <2>2 DEF ResolveExpired
      <3>3. "expired" \in Status
        BY DEF Status
      <3>4. /\ Phase[c.id] = store[c.id].status
            /\ Phase' = [Phase EXCEPT ![c.id] = "expired"]
        BY <2>1, <2>2, <3>1, <3>2, <3>3, WriteMoves
      <3>5. Lifecycle!Expire(c.id)
        BY <1>3, <3>1, <3>2, <3>4
           DEF ResolveExpired, Expired, Lifecycle!Expire, Lifecycle!Move
      <3> QED
        BY <2>1, <3>5 DEF Lifecycle!Next
    <2>3. CASE ~(intact /\ Visible(store, c.id, c.tenant))
      BY <1>3, <2>3, SamePhase DEF ResolveExpired
    <2> QED
      BY <2>2, <2>3
  <1>4. ASSUME NEW p \in Proc, Write(p)
        PROVE  Lifecycle!Next \/ UNCHANGED <<Phase, openings>>
    <2> DEFINE c == call[p]
    <2>1. /\ c \in Call /\ c.id \in ApprovalId /\ InProgress(p)
          /\ c.req \in ApprovalRequest /\ Verdict(c, c.req) = "proceed"
      BY <1>4 DEF Write, InProgress, Call, TermsKept, CallOK
    <2>2. CASE intact /\ Visible(store, c.id, c.tenant)
      <3>1. store[c.id] = c.req /\ store[c.id] # NoRecord
        BY <2>1, <2>2 DEF CopiesCurrent, Visible
      <3>2. /\ store' = UpdateStatus(store, c.id, NewStatus(c.op))
            /\ intact' = intact /\ asked' = asked
            /\ openings' = IF c.op = "consume"
                           THEN [openings EXCEPT ![c.id] = @ + 1] ELSE openings
        BY <1>4, <2>2 DEF Write
      <3>3. NewStatus(c.op) \in Status /\ c.op \in {"approve", "reject", "consume"}
        BY <2>1, VerdictType DEF Call, Op
      <3>4. /\ Phase[c.id] = c.req.status
            /\ Phase' = [Phase EXCEPT ![c.id] = NewStatus(c.op)]
        BY <2>1, <2>2, <3>1, <3>2, <3>3, WriteMoves
      <3>5. CASE c.op = "approve"
        BY <2>1, <3>2, <3>4, <3>5
           DEF Verdict, DecideVerdict, ConsumeVerdict, NewStatus,
               Lifecycle!Next, Lifecycle!Approve, Lifecycle!Move
      <3>6. CASE c.op = "reject"
        BY <2>1, <3>2, <3>4, <3>6
           DEF Verdict, DecideVerdict, ConsumeVerdict, NewStatus,
               Lifecycle!Next, Lifecycle!Reject, Lifecycle!Move
      <3>7. CASE c.op = "consume"
        BY <2>1, <3>2, <3>4, <3>7
           DEF Verdict, DecideVerdict, ConsumeVerdict, NewStatus,
               Lifecycle!Next, Lifecycle!Consume, Lifecycle!Move
      <3> QED
        BY <3>3, <3>5, <3>6, <3>7
    <2>3. CASE ~(intact /\ Visible(store, c.id, c.tenant))
      BY <1>4, <2>3, SamePhase DEF Write
    <2> QED
      BY <2>2, <2>3
  <1>5. ASSUME NEW p \in Proc, CrashInUpdate(p)
        PROVE  Lifecycle!LoseAll
    BY <1>5, TruncatedLosesAll DEF CrashInUpdate
  <1>6. CASE CrashInSave
    BY <1>6, TruncatedLosesAll DEF CrashInSave, Lifecycle!Next
  <1>7. CASE Tick
    BY <1>7, SamePhase DEF Tick
  <1> QED
    BY <1>1, <1>2, <1>3, <1>4, <1>5, <1>6, <1>7 DEF Next, Lifecycle!Next

(* However many command lines decide beside the server, the service is the *)
(* lifecycle as long as no two calls on one request overlap: it takes a    *)
(* call between the two store calls of another to replay an approval.      *)
THEOREM SerialImplementsLifecycle == Spec /\ []NoOverlap => ImplementsLifecycle
  <1>1. Init => Lifecycle!Init /\ CopiesCurrent
    BY DEF Init, Lifecycle!Init, Phase, EmptyStore, CopiesCurrent, InProgress
  <1>2. IInv /\ NoOverlap /\ CopiesCurrent /\ [Next]_serviceVars
          => CopiesCurrent' /\ [Lifecycle!Next]_(<<Phase, openings>>)
    BY CopiesStayCurrent, LifecycleSteps
  <1> QED
    BY <1>1, <1>2, Invariance, PTL
       DEF Spec, ImplementsLifecycle, Lifecycle!Spec, Lifecycle!lifecycleVars

(* So, with no overlap, an approval is used at most once, as the           *)
(* documentation says.                                                     *)
THEOREM SerialUsedOnce == Spec /\ []NoOverlap => []AtMostOnceUse
  <1>1. Lifecycle!OneUse => AtMostOnceUse
    BY DEF Lifecycle!OneUse, AtMostOnceUse
  <1> QED
    BY <1>1, SerialImplementsLifecycle, Lifecycle!UsedOnce, PTL
       DEF ImplementsLifecycle

(* Inside the server no two calls overlap: each method is one piece of     *)
(* synchronous code.                                                       *)
THEOREM SoloImplementsLifecycle ==
    ASSUME Cli = {}
    PROVE  Spec => ImplementsLifecycle
  <1>1. NoOverlap
    BY DEF NoOverlap, Proc
  <1> QED
    BY <1>1, SerialImplementsLifecycle, PTL

COROLLARY SoloUsedOnce ==
    ASSUME Cli = {}
    PROVE  Spec => []AtMostOnceUse
  <1>1. NoOverlap
    BY DEF NoOverlap, Proc
  <1> QED
    BY <1>1, SerialUsedOnce, PTL

----------------------------------------------------------------------------
(* The service reaches the records through the port alone: each of its     *)
(* steps is one call of ports/approval_store.py, or touches neither the    *)
(* records nor an answer.                                                  *)
LEMMA ClockBounded == Spec => [](now \in 0..MaxTime)
  <1>1. Init => now \in 0..MaxTime
    BY MaxTimeAssumption DEF Init
  <1>2. TypeOK /\ now \in 0..MaxTime /\ [Next]_serviceVars
          => (now \in 0..MaxTime)'
    <2> SUFFICES ASSUME TypeOK, now \in 0..MaxTime, [Next]_serviceVars
                 PROVE  now' \in 0..MaxTime
      OBVIOUS
    <2>1. CASE Tick
      BY <2>1, MaxTimeAssumption DEF Tick
    <2>2. ASSUME NEW p \in Proc,
                 \/ Begin(p) \/ ResolveFresh(p) \/ ResolveExpired(p) \/ Write(p)
                 \/ Return(p) \/ Crash(p) \/ CrashInUpdate(p)
          PROVE  now' = now
      BY <2>2 DEF Begin, Get, GetFails, ResolveFresh, ResolveExpired, Write,
                  Return, Crash, CrashInUpdate
    <2> QED
      BY <2>1, <2>2 DEF Next, serviceVars, RequestApproval, CrashInSave
  <1> QED
    BY <1>1, <1>2, TypeCorrect, PTL DEF Spec

LEMMA AnswersChange ==
    ASSUME NEW p \in Proc, \A q \in Proc : q # p => call'[q] = call[q]
    PROVE  PortAnswers' = [PortAnswers EXCEPT ![p] = PortAnswer(call'[p])]
  BY DEF PortAnswers, PortAnswer

(* Only the store says "not_found" or "unreadable".                        *)
LEMMA AnswerOfVerdict ==
    ASSUME NEW c \in Call, NEW request \in ApprovalRequest
    PROVE  Verdict(c, request) \notin {"not_found", "unreadable"}
  <1>1. c.op \in {"get_status", "approve", "reject", "consume"}
    BY DEF Call, Op
  <1>2. request.status \in Status
    BY DEF ApprovalRequest
  <1> QED
    BY <1>1, <1>2 DEF Verdict, DecideVerdict, ConsumeVerdict, Status

LEMMA AnswerForms ==
    /\ PortAnswer(NoCall) = Port!NoReply
    /\ \A c \in Call :
          /\ c.result \in {"not_found", "unreadable"} =>
                PortAnswer(c) = Port!Answered(c.result, NoRecord)
          /\ c.result \notin {"not_found", "unreadable"} =>
                PortAnswer(c) = Port!Answered("request", c.req)
  BY NoCallAssumption DEF PortAnswer, Port!NoReply, Port!Answered

(* A refused call: the record is another's or gone, or the file unreadable. *)
LEMMA Refusals ==
    ASSUME TypeOK, NEW p \in Proc, NEW id \in ApprovalId, NEW t \in Tenant,
           ~(intact /\ Visible(store, id, t)), UNCHANGED <<store, intact>>,
           call' \in [Proc -> Call \cup {NoCall}], call'[p] \in Call,
           call'[p].result = Unavailable,
           \A q \in Proc : q # p => call'[q] = call[q]
    PROVE  Port!Next
  <1>1. PortAnswers' = [PortAnswers EXCEPT ![p] =
                           Port!Answered(Unavailable, NoRecord)]
    BY AnswersChange, AnswerForms DEF Unavailable
  <1>2. CASE intact
    <2>1. Port!UpdateFails(p, id, t)
      BY <1>1, <1>2 DEF Port!UpdateFails, Port!Visible, Visible, Records,
                        Unavailable
    <2> QED
      BY <2>1 DEF Port!Next
  <1>3. CASE ~intact
    <2>1. Port!Unreadable(p)
      BY <1>1, <1>3 DEF Port!Unreadable, Records, Unavailable
    <2> QED
      BY <2>1 DEF Port!Next
  <1> QED
    BY <1>2, <1>3

(* A process that is done with its call, or dies, forgets what it was told; *)
(* one killed while the file is truncated takes the records with it.       *)
LEMMA Forgetting ==
    ASSUME TypeOK, NEW p \in Proc, call' = [call EXCEPT ![p] = NoCall],
           UNCHANGED <<store, intact>> \/ (intact /\ Truncated)
    PROVE  Port!Next
  <1>1. PortAnswers' = [PortAnswers EXCEPT ![p] = Port!NoReply]
    BY AnswersChange, AnswerForms DEF TypeOK
  <1>2. CASE UNCHANGED <<store, intact>>
    <2>1. Port!Forget(p)
      BY <1>1, <1>2 DEF Port!Forget, Records
    <2> QED
      BY <2>1 DEF Port!Next
  <1>3. CASE intact /\ Truncated
    <2>1. Records' = Port!EmptyStore /\ intact' \in BOOLEAN
      BY <1>3 DEF Truncated, Records, EmptyStore, Port!EmptyStore, TypeOK
    <2>2. Port!KilledInWrite(p)
      BY <1>1, <2>1 DEF Port!KilledInWrite
    <2> QED
      BY <2>2 DEF Port!Next
  <1> QED
    BY <1>2, <1>3

(* A method that has not resolved expiry yet still holds what get returned. *)
Unresolved ==
    \A p \in Proc :
        call[p] # NoCall /\ call[p].pc = "resolve" => call[p].result = "none"

LEMMA UnresolvedKept ==
    ASSUME IInv, Unresolved, [Next]_serviceVars
    PROVE  Unresolved'
  <1> USE DEF IInv, TypeOK
  <1>1. ASSUME NEW p \in Proc, Begin(p) \/ Return(p) \/ Crash(p) \/ CrashInUpdate(p)
        PROVE  Unresolved'
    BY <1>1 DEF Begin, Get, GetFails, Return, Crash, CrashInUpdate, Unresolved
  <1>2. ASSUME NEW p \in Proc, ResolveFresh(p)
        PROVE  Unresolved'
    BY <1>2, FreshGoesOn DEF Unresolved
  <1>3. ASSUME NEW p \in Proc, ResolveExpired(p) \/ Write(p)
        PROVE  Unresolved'
    BY <1>3, UpdateEnds DEF Unresolved
  <1>4. CASE UNCHANGED call
    BY <1>4 DEF Unresolved
  <1> QED
    BY <1>1, <1>2, <1>3, <1>4
       DEF Next, serviceVars, RequestApproval, CrashInSave, Tick

LEMMA PortSteps ==
    ASSUME IInv, Unresolved, now \in 0..MaxTime, Next
    PROVE  Port!Next \/ UNCHANGED Port!storeVars
  <1> USE DEF IInv, TypeOK
  <1>1. ASSUME NEW id \in ApprovalId, NEW t \in Tenant, NEW r \in Resource,
               NEW pl \in Payload, RequestApproval(id, t, r, pl)
        PROVE  Port!Next
    <2> DEFINE request == NewRequest(t, r, pl, now)
    <2>1. request \in Saveable /\ Server \in Proc
      BY DEF Saveable, Proc
    <2>2. PortAnswers' = [PortAnswers EXCEPT ![Server] = Port!NoReply]
      BY <1>1, <2>1, AnswersChange, AnswerForms DEF RequestApproval
    <2>3. Port!SaveRequest(Server, id, request)
      BY <1>1, <2>2 DEF RequestApproval, Port!SaveRequest, Records, Save,
                        Port!Save
    <2> QED
      BY <2>1, <2>3 DEF Port!Next
  <1>2. ASSUME NEW p \in Proc, NEW op \in Op, NEW id \in ApprovalId,
               NEW t \in Tenant, NEW r \in Resource, Get(p, op, id, t, r)
        PROVE  Port!Next
    <2>1. /\ call'[p] \in Call /\ call'[p].req = store[id]
          /\ call'[p].result = "none"
          /\ \A q \in Proc : q # p => call'[q] = call[q]
      BY <1>2 DEF Get, Call, Stores, Result, Visible
    <2>2. PortAnswers' = [PortAnswers EXCEPT ![p] =
                             Port!Answered("request", store[id])]
      BY <2>1, AnswersChange, AnswerForms
    <2>3. Port!GetRequest(p, id, t)
      BY <1>2, <2>2 DEF Get, Port!GetRequest, Port!Visible, Visible, Records
    <2> QED
      BY <2>3 DEF Port!Next
  <1>3. ASSUME NEW p \in Proc, NEW op \in Op, NEW id \in ApprovalId,
               NEW t \in Tenant, NEW r \in Resource, GetFails(p, op, id, t, r)
        PROVE  Port!Next
    <2>1. /\ call' \in [Proc -> Call \cup {NoCall}] /\ call'[p] \in Call
          /\ call'[p].result = Unavailable
          /\ \A q \in Proc : q # p => call'[q] = call[q]
      BY <1>3 DEF GetFails, Call, Result, Error, Unavailable
    <2> QED
      BY <1>3, <2>1, Refusals DEF GetFails
  <1>4. ASSUME NEW p \in Proc, ResolveFresh(p)
        PROVE  UNCHANGED Port!storeVars
    <2>1. call[p].result = "none"
      BY <1>4, FreshGoesOn DEF InProgress, Unresolved
    <2>2. call'[p].result \notin {"not_found", "unreadable"}
      BY <1>4, FreshGoesOn, AnswerOfVerdict
    <2>3. PortAnswer(call'[p]) = PortAnswer(call[p])
      BY <1>4, <2>1, <2>2, FreshGoesOn, AnswerForms
    <2>4. PortAnswers' = PortAnswers
      BY <1>4, <2>3, FreshGoesOn DEF PortAnswers
    <2> QED
      BY <1>4, <2>4 DEF ResolveFresh, Port!storeVars, Records
  <1>5. ASSUME NEW p \in Proc, ResolveExpired(p) \/ Write(p)
        PROVE  Port!Next
    <2> DEFINE c == call[p]
    <2>1. /\ c.id \in ApprovalId /\ c.tenant \in Tenant
          /\ intact' = intact /\ call'[p] \in Call
      BY <1>5, UpdateEnds DEF ResolveExpired, Write, Call
    <2>2. CASE ~(intact /\ Visible(store, c.id, c.tenant))
      BY <1>5, <2>1, <2>2, UpdateEnds, Refusals
    <2>3. CASE intact /\ Visible(store, c.id, c.tenant)
      <3>1. PICK st \in Status :
               /\ store' = UpdateStatus(store, c.id, st)
               /\ store'[c.id] \in ApprovalRequest
               /\ call'[p].req = store'[c.id]
               /\ call'[p].result \notin {"not_found", "unreadable"}
        <4>1. call'[p].result \notin {"not_found", "unreadable"}
          <5>1. CASE call'[p].result = "ok"
            BY <5>1
          <5>2. CASE /\ call'[p].result = Verdict(c, store'[c.id])
                     /\ store'[c.id] \in ApprovalRequest
            BY <1>5, <5>2, UpdateEnds, AnswerOfVerdict
          <5> QED
            BY <1>5, <2>3, <5>1, <5>2, UpdateEnds
        <4> QED
          BY <1>5, <2>3, <4>1, UpdateEnds
      <3>2. PortAnswers' = [PortAnswers EXCEPT ![p] =
                               Port!Answered("request", store'[c.id])]
        BY <1>5, <2>1, <3>1, UpdateEnds, AnswersChange, AnswerForms
      <3>3. Records' = Port!UpdateStatus(Records, c.id, st)
        BY <2>1, <2>3, <3>1 DEF Records, UpdateStatus, Port!UpdateStatus
      <3>4. Records'[c.id] = store'[c.id]
        BY <2>1, <2>3 DEF Records
      <3>5. Port!UpdateRequest(p, c.id, c.tenant, st)
        BY <2>1, <2>3, <3>2, <3>3, <3>4
           DEF Port!UpdateRequest, Records, Visible, Port!Visible
      <3>6. st \in Port!Status
        BY DEF Status, Port!Status
      <3> QED
        BY <2>1, <3>5, <3>6 DEF Port!Next
    <2> QED
      BY <2>2, <2>3
  <1>6. ASSUME NEW p \in Proc, Return(p) \/ Crash(p) \/ CrashInUpdate(p)
        PROVE  Port!Next
    BY <1>6, Forgetting DEF Return, Crash, CrashInUpdate
  <1>7. CASE CrashInSave
    <2>1. Server \in Proc /\ call' = [call EXCEPT ![Server] = NoCall]
      BY <1>7 DEF CrashInSave, Proc
    <2> QED
      BY <1>7, <2>1, Forgetting DEF CrashInSave
  <1>8. CASE Tick
    BY <1>8 DEF Tick, Port!storeVars, Records, PortAnswers
  <1> QED
    BY <1>1, <1>2, <1>3, <1>4, <1>5, <1>6, <1>7, <1>8 DEF Next, Begin

(* Every step of the service, of a crash in it and of expiry, is one call  *)
(* of the approval store with what that call returns, or none.             *)
THEOREM ServiceUsesPort == Spec => UsesPort
  <1>1. Init => Port!Init /\ Unresolved
    BY DEF Init, Port!Init, Records, EmptyStore, Port!EmptyStore, PortAnswers,
           PortAnswer, Port!NoReply, Port!Answered, Unresolved
  <1>2. IInv /\ Unresolved /\ [Next]_serviceVars => Unresolved'
    BY UnresolvedKept
  <1>3. IInv /\ Unresolved /\ now \in 0..MaxTime /\ [Next]_serviceVars
          => [Port!Next]_(Port!storeVars)
    <2>1. UNCHANGED serviceVars => UNCHANGED Port!storeVars
      BY DEF serviceVars, Port!storeVars, Records, PortAnswers
    <2> QED
      BY <2>1, PortSteps
  <1> QED
    BY <1>1, <1>2, <1>3, Invariance, ClockBounded, PTL
       DEF Spec, UsesPort, Port!Spec
=============================================================================
