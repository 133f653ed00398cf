------------------------ MODULE SendAccountingProofs ------------------------
(***************************************************************************)
(* What can be proved of the messages SendFlow sends: how many leave under *)
(* one approval, for which draft, with which text, and what the audit log  *)
(* says of them.                                                           *)
(*                                                                         *)
(* The argument counts.  A send that passed the gate and has not reached   *)
(* the provider yet is in flight (InFlight); each opening of the gate      *)
(* starts at most one such send, and each delivery ends one.               *)
(***************************************************************************)
EXTENDS SendFlowProofs

(* What a send that passed the gate may rely on until it is over: the      *)
(* request it consumed was for its draft, and, once the provider has       *)
(* answered, its message is out.                                           *)
SendOK ==
    \A q \in Req :
        task[q] # NoTask /\ task[q].kind = "send_email"
          /\ task[q].pc \in Awaited =>
            /\ asked[task[q].id] # NoRecord
            /\ asked[task[q].id].tenant = task[q].tenant
            /\ asked[task[q].id].resource = task[q].draft
            /\ task[q].pc = "resume" =>
                 \E m \in sent : /\ m.id = task[q].id
                                 /\ m.tenant = task[q].tenant
                                 /\ m.draft = task[q].draft

SendInv ==
    /\ FInv
    /\ SendOK
    /\ SentOnlyWhatWasAsked
    /\ SentLinesAreTrue
    /\ DeliveredWithinOpenings

----------------------------------------------------------------------------
(* Counting sends in flight.                                               *)
LEMMA InFlightCount ==
    ASSUME NEW S \in SUBSET Req
    PROVE  IsFiniteSet(S) /\ Cardinality(S) \in Nat
  BY ReqAssumption, FS_Subset, FS_CardinalityType

LEMMA FewerInFlight ==
    ASSUME NEW S \in SUBSET Req, NEW T \in SUBSET S
    PROVE  Cardinality(T) <= Cardinality(S)
  BY InFlightCount, FS_Subset

LEMMA OneOut ==
    ASSUME NEW S \in SUBSET Req, NEW q \in S, NEW T \in SUBSET (S \ {q})
    PROVE  Cardinality(T) + 1 <= Cardinality(S)
  <1>1. Cardinality(S \ {q}) = Cardinality(S) - 1
    BY InFlightCount, FS_RemoveElement
  <1>2. /\ Cardinality(T) <= Cardinality(S \ {q})
        /\ S \ {q} \in SUBSET Req
    BY FewerInFlight
  <1>3. /\ Cardinality(T) \in Nat /\ Cardinality(S) \in Nat
        /\ Cardinality(S \ {q}) \in Nat
    BY InFlightCount
  <1> QED
    BY <1>1, <1>2, <1>3

LEMMA OneIn ==
    ASSUME NEW S \in SUBSET Req, NEW q \in Req, NEW T \in SUBSET (S \cup {q})
    PROVE  Cardinality(T) <= Cardinality(S) + 1
  <1>1. Cardinality(S \cup {q}) <= Cardinality(S) + 1
    BY InFlightCount, FS_AddElement
  <1>2. /\ Cardinality(T) <= Cardinality(S \cup {q})
        /\ S \cup {q} \in SUBSET Req
    BY FewerInFlight
  <1>3. /\ Cardinality(T) \in Nat /\ Cardinality(S) \in Nat
        /\ Cardinality(S \cup {q}) \in Nat
    BY InFlightCount
  <1> QED
    BY <1>1, <1>2, <1>3

----------------------------------------------------------------------------
(* A coroutine that is a send past the gate.                               *)
PastGate(k) == k # NoTask /\ k.kind = "send_email" /\ k.pc \in Awaited

(* Only three steps concern a send past the gate: it gets there, it is     *)
(* delivered, it is logged.                                                *)
LEMMA OtherSteps ==
    ASSUME FInv, [FlowNext]_vars,
           \A q \in Req : ~ProviderSends(q) /\ ~SendGranted(q) /\ ~RecordSent(q)
    PROVE  /\ sent' = sent /\ delivered' = delivered
           /\ \A l \in audit' : l \in audit \/ l.result # "sent"
           /\ \A r \in Req : PastGate(task'[r]) => task'[r] = task[r]
  <1> USE DEF FInv
  <1>1. ASSUME NEW q \in Req, Arrival(q)
        PROVE  /\ UNCHANGED <<sent, delivered, audit>>
               /\ \A r \in Req : PastGate(task'[r]) => task'[r] = task[r]
    <2>1. ~PastGate(task'[q])
      <3>1. ASSUME NEW t \in Tenant,
                   \/ \E c \in Written : CreateDraft(q, t, c)
                   \/ \E d \in Resource : RequestSendApproval(q, t, d)
            PROVE  ~PastGate(task'[q])
        BY <3>1 DEF CreateDraft, RequestSendApproval, Become, New, FlowTypes,
                    PastGate
      <3>2. ASSUME NEW t \in Tenant, NEW id \in ApprovalId,
                   \/ \E d \in Resource : SendEmail(q, t, d, id)
                   \/ \E kind \in {"approve", "reject"} :
                         DecideFromChannel(q, kind, t, id)
                   \/ \E e \in CardEdits : ApproveWithEdits(q, t, id, e)
                   \/ GetApprovalStatus(q, t, id)
            PROVE  ~PastGate(task'[q])
        BY <3>2 DEF SendEmail, DecideFromChannel, ApproveWithEdits,
                    GetApprovalStatus, Become, New, FlowTypes, PastGate, Awaited
      <3> QED
        BY <1>1, <3>1, <3>2 DEF Arrival
    <2>2. \A r \in Req : PastGate(task'[r]) => task'[r] = task[r]
      <3>1. \A r \in Req \ {q} : task'[r] = task[r]
        BY <1>1 DEF Arrival, CreateDraft, RequestSendApproval, SendEmail,
                    DecideFromChannel, ApproveWithEdits, GetApprovalStatus,
                    Become, FlowTypes
      <3> QED
        BY <2>1, <3>1
    <2> QED
      BY <1>1, <2>2
         DEF Arrival, CreateDraft, RequestSendApproval, SendEmail,
             DecideFromChannel, ApproveWithEdits, GetApprovalStatus
  <1>2. ASSUME NEW q \in Req, Provider(q)
        PROVE  /\ UNCHANGED <<sent, delivered, audit>>
               /\ \A r \in Req : PastGate(task'[r]) => task'[r] = task[r]
    <2>1. task[q] \in GoodTask
      BY <1>2, TaskAssumption
         DEF Provider, ProviderCreates, ProviderReads, ProviderSends,
             ProviderUpdates, ProviderCopies, ProviderReplaces, ProviderFails,
             At, FlowTypes
    <2>2. ~PastGate(task'[q])
      <3>1. CASE ProviderCreates(q)
        BY <2>1, <3>1 DEF ProviderCreates, At, Become, GoodTask, Task,
                          FlowTypes, PastGate
      <3>2. CASE ProviderReads(q)
        BY <2>1, <3>2 DEF ProviderReads, At, Become, GoodTask, Task,
                          FlowTypes, PastGate
      <3>3. CASE ProviderUpdates(q)
        BY <2>1, <3>3 DEF ProviderUpdates, End, At, Become, GoodTask, Task,
                          FlowTypes, PastGate
      <3>4. CASE ProviderFails(q)
        BY <3>4 DEF ProviderFails, End, Become, FlowTypes, PastGate
      <3>5. CASE ProviderCopies(q)
        BY <2>1, <3>5 DEF ProviderCopies, At, Become, GoodTask, Task,
                          FlowTypes, PastGate
      <3>6. CASE ProviderReplaces(q)
        BY <2>1, <3>6 DEF ProviderReplaces, End, At, Become, GoodTask, Task,
                          FlowTypes, PastGate
      <3> QED
        BY <1>2, <3>1, <3>2, <3>3, <3>4, <3>5, <3>6 DEF Provider
    <2>3. \A r \in Req : PastGate(task'[r]) => task'[r] = task[r]
      <3>1. \A r \in Req \ {q} : task'[r] = task[r]
        BY <1>2 DEF Provider, ProviderCreates, ProviderReads, ProviderUpdates,
                    ProviderCopies, ProviderReplaces, ProviderFails, End,
                    Become, FlowTypes
      <3> QED
        BY <2>2, <3>1
    <2> QED
      BY <1>2, <2>3 DEF Provider, ProviderCreates, ProviderReads,
                        ProviderUpdates, ProviderCopies, ProviderReplaces,
                        ProviderFails
  <1>3. ASSUME NEW q \in Req, Resume(q)
        PROVE  /\ UNCHANGED <<sent, delivered>>
               /\ \A l \in audit' : l \in audit \/ l.result # "sent"
               /\ \A r \in Req : PastGate(task'[r]) => task'[r] = task[r]
    <2>1. PICK k : Become(q, k) /\ (k = NoTask \/ k.kind # "send_email")
      <3>1. CASE DecideEdited(q)
        <4>1. task[q] \in GoodTask /\ task[q].kind = "approve"
          BY <3>1, TaskAssumption DEF DecideEdited, At, FlowTypes
        <4>2. [task[q] EXCEPT !.pc = "service"].kind = "approve"
          BY <4>1 DEF GoodTask, Task
        <4> QED
          BY <3>1, <4>2 DEF DecideEdited
      <3>2. CASE ~DecideEdited(q)
        BY <1>3, <3>2 DEF Resume, RecordCreated, SaveFails, SaveRequest, End
      <3> QED
        BY <3>1, <3>2
    <2>2. \A r \in Req : PastGate(task'[r]) => task'[r] = task[r]
      BY <2>1 DEF Become, FlowTypes, PastGate
    <2>3. \A l \in audit' : l \in audit \/ l.result # "sent"
      BY <1>3 DEF Resume, RecordCreated, SaveFails, SaveRequest, DecideEdited, Log
    <2> QED
      BY <1>3, <2>2, <2>3
         DEF Resume, RecordCreated, SaveFails, SaveRequest, DecideEdited
  <1>4. ASSUME NEW q \in Req, Finish(q)
        PROVE  /\ UNCHANGED <<sent, delivered>>
               /\ \A l \in audit' : l \in audit \/ l.result # "sent"
               /\ \A r \in Req : PastGate(task'[r]) => task'[r] = task[r]
    <2>1. PICK k : Become(q, k) /\ (k = NoTask \/ k.kind # "send_email")
      <3>1. CASE FoundToEdit(q)
        <4>1. task[q] \in GoodTask /\ task[q].kind = "approve"
          BY <3>1, TaskAssumption DEF FoundToEdit, At, FlowTypes
        <4>2. [task[q] EXCEPT !.pc = "provider",
                              !.draft = call[Server].req.resource].kind = "approve"
          BY <4>1 DEF GoodTask, Task
        <4> QED
          BY <3>1, <4>2 DEF FoundToEdit
      <3>2. CASE ~FoundToEdit(q)
        BY <1>4, <3>2 DEF Finish, SendDenied, NothingToEdit, Answer, End
      <3> QED
        BY <3>1, <3>2
    <2>2. \A r \in Req : PastGate(task'[r]) => task'[r] = task[r]
      BY <2>1 DEF Become, FlowTypes, PastGate
    <2>3. \A l \in audit' : l \in audit \/ l.result # "sent"
      BY <1>4 DEF Finish, SendDenied, NothingToEdit, FoundToEdit, Answer, Log
    <2> QED
      BY <1>4, <2>2, <2>3
         DEF Finish, SendDenied, NothingToEdit, FoundToEdit, Answer
  <1>5. CASE ServerCrash
    <2>1. \A r \in Req : ~PastGate(task'[r])
      BY <1>5 DEF ServerCrash, PastGate
    <2> QED
      BY <1>5, <2>1 DEF ServerCrash
  <1>6. ASSUME UNCHANGED <<sent, delivered, audit, task>>
        PROVE  /\ UNCHANGED <<sent, delivered, audit>>
               /\ \A r \in Req : PastGate(task'[r]) => task'[r] = task[r]
    BY <1>6
  <1> QED
    BY <1>1, <1>2, <1>3, <1>4, <1>5, <1>6
       DEF FlowNext, ServerStep, WriteStep, CliStep, Clock, flowVars, vars

(* The history of requests only grows, here too.                           *)
LEMMA AskedStays ==
    ASSUME FInv, [FlowNext]_vars
    PROVE  \A id \in ApprovalId : asked[id] # NoRecord => asked'[id] = asked[id]
  <1>1. [Next]_serviceVars
    BY FInvPreserved
  <1> QED
    BY <1>1, AskedIsStable DEF FInv, IInv, serviceVars

----------------------------------------------------------------------------
(* A send is past the gate only for the request, the tenant and the draft  *)
(* the gate was opened for; a message leaves from that draft, and only     *)
(* then is there a line that says so.                                      *)
LEMMA SendsPreserved ==
    ASSUME SendInv, [FlowNext]_vars
    PROVE  SendOK' /\ SentOnlyWhatWasAsked' /\ SentLinesAreTrue'
  <1> USE DEF SendInv, FInv
  <1>0. /\ \A id \in ApprovalId : asked[id] # NoRecord => asked'[id] = asked[id]
        /\ sent \subseteq Message
    BY AskedStays DEF FlowTypes, FlowTypeOK
  <1>1. ASSUME NEW q \in Req, SendGranted(q)
        PROVE  SendOK' /\ SentOnlyWhatWasAsked' /\ SentLinesAreTrue'
    <2> DEFINE k == [task[q] EXCEPT !.pc = "provider"]
    <2>1. /\ task[q] \in GoodTask /\ task[q].kind = "send_email"
          /\ task[q].pc = "service" /\ caller = q /\ call[Server].result = "ok"
          /\ call[Server] # NoCall
          /\ UNCHANGED <<asked, sent, audit>>
      BY <1>1, TaskAssumption
         DEF SendGranted, At, FlowTypes, Leave, Return, Outcome
    <2>2. /\ k.kind = "send_email" /\ k.pc = "provider" /\ k.id = task[q].id
          /\ k.tenant = task[q].tenant /\ k.draft = task[q].draft
      BY <2>1 DEF GoodTask, Task
    <2>3. /\ call[Server].op = "consume" /\ call[Server].id = task[q].id
          /\ call[Server].tenant = task[q].tenant
          /\ call[Server].resource = task[q].draft
      BY <2>1, TaskAssumption DEF OneCaller, OpOf, LoopFree
    <2>4. /\ asked[k.id] # NoRecord /\ asked[k.id].tenant = k.tenant
          /\ asked[k.id].resource = k.draft
      BY <2>1, <2>2, <2>3 DEF IInv, GateOpensForItsOwn, Proc
    <2>5. task'[q] = k /\ \A r \in Req \ {q} : task'[r] = task[r]
      BY <1>1 DEF SendGranted, Become, FlowTypes
    <2>6. SendOK'
      <3> HIDE DEF k
      <3> QED
        BY <2>1, <2>2, <2>4, <2>5 DEF SendOK
    <2> QED
      BY <2>1, <2>6 DEF SentOnlyWhatWasAsked, SentLinesAreTrue
  <1>2. ASSUME NEW q \in Req, ProviderSends(q)
        PROVE  SendOK' /\ SentOnlyWhatWasAsked' /\ SentLinesAreTrue'
    <2> DEFINE m == [id |-> task[q].id, tenant |-> task[q].tenant,
                     draft |-> task[q].draft,
                     content |-> mailbox[task[q].tenant][task[q].draft]]
    <2>1. /\ task[q] \in GoodTask /\ task[q].kind = "send_email"
          /\ task[q].pc = "provider" /\ task[q] # NoTask
          /\ UNCHANGED <<asked, audit>> /\ sent' = sent \cup {m}
      BY <1>2, TaskAssumption DEF ProviderSends, At, FlowTypes, serviceVars
    <2>2. /\ asked[m.id] # NoRecord /\ asked[m.id].tenant = m.tenant
          /\ asked[m.id].resource = m.draft
      BY <2>1 DEF SendOK, Awaited
    <2>3. SentOnlyWhatWasAsked'
      BY <2>1, <2>2 DEF SentOnlyWhatWasAsked
    <2>4. SentLinesAreTrue'
      BY <2>1 DEF SentLinesAreTrue
    <2>5. \A r \in Req \ {q} : task'[r] = task[r]
      BY <1>2 DEF ProviderSends, End, Become, FlowTypes
    <2>6. \/ task'[q] = NoTask
          \/ /\ task'[q].pc = "resume" /\ task'[q].id = m.id
             /\ task'[q].tenant = m.tenant /\ task'[q].draft = m.draft
      BY <1>2, <2>1 DEF ProviderSends, End, Become, FlowTypes, GoodTask, Task
    <2>7. m \in sent'
      BY <2>1
    <2>8. SendOK'
      <3> HIDE DEF m
      <3> SUFFICES ASSUME NEW r \in Req, PastGate(task'[r])
                   PROVE  /\ asked'[task'[r].id] # NoRecord
                          /\ asked'[task'[r].id].tenant = task'[r].tenant
                          /\ asked'[task'[r].id].resource = task'[r].draft
                          /\ task'[r].pc = "resume" =>
                               \E x \in sent' : /\ x.id = task'[r].id
                                                /\ x.tenant = task'[r].tenant
                                                /\ x.draft = task'[r].draft
        BY DEF SendOK, PastGate
      <3>1. CASE r = q
        BY <2>1, <2>2, <2>6, <2>7, <3>1 DEF PastGate
      <3>2. CASE r # q
        BY <2>1, <2>5, <3>2 DEF PastGate, SendOK
      <3> QED
        BY <3>1, <3>2
    <2> QED
      BY <2>3, <2>4, <2>8
  <1>3. ASSUME NEW q \in Req, RecordSent(q)
        PROVE  SendOK' /\ SentOnlyWhatWasAsked' /\ SentLinesAreTrue'
    <2>1. /\ task[q].kind = "send_email" /\ task[q].pc = "resume"
          /\ task[q] # NoTask /\ UNCHANGED <<asked, sent>>
          /\ task'[q] = NoTask /\ \A r \in Req \ {q} : task'[r] = task[r]
      BY <1>3 DEF RecordSent, At, End, Become, FlowTypes, serviceVars
    <2>2. \E m \in sent : /\ m.id = task[q].id /\ m.tenant = task[q].tenant
                          /\ m.draft = task[q].draft
      BY <2>1 DEF SendOK, Awaited
    <2>3. SentLinesAreTrue'
      BY <1>3, <2>1, <2>2 DEF RecordSent, Log, SentLinesAreTrue
    <2>4. SendOK'
      BY <2>1 DEF SendOK
    <2> QED
      BY <2>1, <2>3, <2>4 DEF SentOnlyWhatWasAsked
  <1>4. CASE \A q \in Req :
               ~ProviderSends(q) /\ ~SendGranted(q) /\ ~RecordSent(q)
    <2>1. /\ sent' = sent /\ \A l \in audit' : l \in audit \/ l.result # "sent"
          /\ \A r \in Req : PastGate(task'[r]) => task'[r] = task[r]
      BY <1>4, OtherSteps
    <2>2. SentLinesAreTrue'
      BY <2>1 DEF SentLinesAreTrue
    <2>3. SentOnlyWhatWasAsked'
      BY <1>0, <2>1 DEF SentOnlyWhatWasAsked, Message
    <2>4. SendOK'
      <3> SUFFICES ASSUME NEW r \in Req, PastGate(task'[r])
                   PROVE  /\ asked'[task'[r].id] # NoRecord
                          /\ asked'[task'[r].id].tenant = task'[r].tenant
                          /\ asked'[task'[r].id].resource = task'[r].draft
                          /\ task'[r].pc = "resume" =>
                               \E x \in sent' : /\ x.id = task'[r].id
                                                /\ x.tenant = task'[r].tenant
                                                /\ x.draft = task'[r].draft
        BY DEF SendOK, PastGate
      <3>1. PastGate(task[r]) /\ task'[r] = task[r]
        BY <2>1
      <3>2. task[r].id \in ApprovalId
        BY <3>1 DEF PastGate, FlowTypes, GoodTask
      <3>3. /\ asked[task[r].id] # NoRecord
            /\ asked[task[r].id].tenant = task[r].tenant
            /\ asked[task[r].id].resource = task[r].draft
            /\ task[r].pc = "resume" =>
                 \E x \in sent : /\ x.id = task[r].id
                                 /\ x.tenant = task[r].tenant
                                 /\ x.draft = task[r].draft
        BY <3>1 DEF PastGate, SendOK
      <3> QED
        BY <1>0, <2>1, <3>1, <3>2, <3>3
    <2> QED
      BY <2>2, <2>3, <2>4
  <1> QED
    BY <1>1, <1>2, <1>3, <1>4

----------------------------------------------------------------------------
(* A send that has its go-ahead and has not been told of it yet.           *)
Passing(r) ==
    /\ task[r] # NoTask /\ task[r].kind = "send_email"
    /\ task[r].pc = "service" /\ caller = r /\ Outcome = "ok"

(* The gate says "ok" where it writes, and nowhere else.                   *)
LEMMA OkOnlyFromWrite ==
    ASSUME FInv,
           \/ ResolveFresh(Server) \/ ResolveExpired(Server)
           \/ \E q \in Req, op \in Op, id \in ApprovalId, t \in Tenant,
                 d \in Resource : Enter(q, op, id, t, d)
    PROVE  call'[Server].result # "ok"
  <1> USE DEF FInv, IInv, TypeOK
  <1>0. Server \in Proc /\ Unavailable # "ok"
    BY DEF Proc, Unavailable
  <1>1. ASSUME ResolveFresh(Server) \/ ResolveExpired(Server)
        PROVE  call'[Server].result # "ok"
    <2> DEFINE c == call[Server]
    <2>1. c \in Call /\ c.req \in ApprovalRequest /\ c.id \in ApprovalId
      BY <1>1 DEF ResolveFresh, ResolveExpired, KnownReq, Call, Proc
    <2>2. ASSUME ResolveFresh(Server)
          PROVE  call'[Server].result # "ok"
      <3>1. call'[Server].result = Verdict(c, c.req)
        BY <1>0, <2>1, <2>2 DEF ResolveFresh, Call
      <3> QED
        BY <2>1, <3>1, VerdictType
    <2>3. ASSUME ResolveExpired(Server)
          PROVE  call'[Server].result # "ok"
      <3>1. CASE /\ store'[c.id] \in ApprovalRequest
                 /\ call'[Server].result = Verdict(c, store'[c.id])
        BY <2>1, <3>1, VerdictType
      <3>2. CASE call'[Server].result = Unavailable
        BY <1>0, <3>2
      <3> QED
        BY <1>0, <2>3, <3>1, <3>2, UpdateEnds
    <2> QED
      BY <1>1, <2>2, <2>3
  <1>2. ASSUME NEW q \in Req, NEW op \in Op, NEW id \in ApprovalId,
               NEW t \in Tenant, NEW d \in Resource, Enter(q, op, id, t, d)
        PROVE  call'[Server].result # "ok"
    BY <1>0, <1>2 DEF Enter, Get, GetFails
  <1> QED
    BY <1>1, <1>2

LEMMA PassingStays ==
    ASSUME FInv, FInv', [FlowNext]_vars, ~WriteStep(Server),
           NEW r \in Req, Passing(r)'
    PROVE  Passing(r) /\ task'[r] = task[r]
  <1> USE DEF FInv
  <1>0. /\ call'[Server] # NoCall /\ call'[Server].result = "ok"
        /\ caller' = r /\ r # NoTask
    BY TaskAssumption DEF Passing, OneCaller, LoopFree, Outcome
  <1>1. ASSUME call'[Server] = call[Server], caller' = caller,
               task'[r] = task[r]
        PROVE  Passing(r) /\ task'[r] = task[r]
    BY <1>1 DEF Passing, Outcome
  <1>2. ASSUME NEW q \in Req, Arrival(q)
        PROVE  FALSE
    <2>1. ASSUME NEW t \in Tenant, NEW id \in ApprovalId,
                 \/ \E d \in Resource : SendEmail(q, t, d, id)
                 \/ \E kind \in {"approve", "reject"} :
                       DecideFromChannel(q, kind, t, id)
                 \/ \E e \in CardEdits : ApproveWithEdits(q, t, id, e)
                 \/ GetApprovalStatus(q, t, id)
          PROVE  FALSE
      <3>1. {"get_status", "approve", "reject", "consume"} = Op
        BY DEF Op
      <3>2. \E op \in Op, d \in Resource : Enter(q, op, id, t, d)
        BY <2>1, <3>1, AnyDraftType
           DEF SendEmail, DecideFromChannel, Decision, ApproveWithEdits,
               GetApprovalStatus
      <3> QED
        BY <1>0, <3>2, OkOnlyFromWrite
    <2>2. ASSUME NEW t \in Tenant,
                 \/ \E c \in Written : CreateDraft(q, t, c)
                 \/ \E d \in Resource : RequestSendApproval(q, t, d)
          PROVE  FALSE
      BY <1>0, <2>2 DEF CreateDraft, RequestSendApproval, LoopFree, serviceVars
    <2> QED
      BY <1>2, <2>1, <2>2 DEF Arrival
  <1>3. ASSUME NEW q \in Req, Provider(q)
        PROVE  /\ call'[Server] = call[Server] /\ caller' = caller
               /\ task'[r] = task[r]
    <2>1. /\ task[q] # NoTask /\ task[q].pc \in {"provider", "replace"}
          /\ UNCHANGED <<call, caller>>
          /\ \A x \in Req \ {q} : task'[x] = task[x]
      BY <1>3 DEF Provider, ProviderCreates, ProviderReads, ProviderSends,
                  ProviderUpdates, ProviderCopies, ProviderReplaces,
                  ProviderFails, At, End, Become, FlowTypes, serviceVars
    <2>2. caller # q
      BY <2>1, TaskAssumption DEF OneCaller, InService
    <2> QED
      BY <1>0, <2>1, <2>2
  <1>4. ASSUME NEW q \in Req, Resume(q)
        PROVE  FALSE
    <2>1. CASE DecideEdited(q)
      <3>1. task[q] \in GoodTask /\ task[q].kind = "approve"
        BY <2>1, TaskAssumption DEF DecideEdited, At, FlowTypes
      <3>2. task[q].id \in ApprovalId /\ task[q].tenant \in Tenant
        BY <3>1 DEF GoodTask, Task
      <3> QED
        BY <1>0, <2>1, <3>2, AnyDraftType, OkOnlyFromWrite
           DEF DecideEdited, Op
    <2>2. CASE ~DecideEdited(q)
      BY <1>0, <1>4, <2>2
         DEF Resume, RecordCreated, SaveFails, RecordSent, SaveRequest,
             RequestApproval, LoopFree, serviceVars
    <2> QED
      BY <2>1, <2>2
  <1>5. ASSUME NEW q \in Req, Finish(q)
        PROVE  FALSE
    BY <1>0, <1>5 DEF Finish, SendDenied, SendGranted, NothingToEdit,
                      FoundToEdit, Answer, Leave, Return, IInv, TypeOK, Proc
  <1>6. CASE ServerStep
    BY <1>0, <1>6, OkOnlyFromWrite DEF ServerStep
  <1>7. ASSUME NEW p \in Cli, CliStep(p) \/ WriteStep(p)
        PROVE  /\ call'[Server] = call[Server] /\ caller' = caller
               /\ task'[r] = task[r]
    <2>1. p # Server /\ Server \in Proc
      BY ServerAssumption DEF Proc
    <2> QED
      BY <1>7, <2>1
         DEF CliStep, WriteStep, flowVars, IInv, TypeOK, Get, GetFails,
             ResolveFresh, ResolveExpired, Write, Return, Crash, CrashInUpdate
  <1>8. CASE ServerCrash
    BY <1>0, <1>8, TaskAssumption DEF ServerCrash
  <1>9. CASE Clock \/ UNCHANGED vars
    BY <1>1, <1>9 DEF Clock, Tick, vars, flowVars, serviceVars
  <1> QED
    BY <1>1, <1>2, <1>3, <1>4, <1>5, <1>6, <1>7, <1>8, <1>9 DEF FlowNext

(* No step but a write of the service's touches the count of openings.     *)
LEMMA OpeningsGrow ==
    ASSUME FInv, [FlowNext]_vars, NEW id \in ApprovalId
    PROVE  openings'[id] \in Nat /\ openings[id] \in Nat
           /\ openings'[id] >= openings[id]
  <1>1. openings' \in [ApprovalId -> Nat] /\ openings \in [ApprovalId -> Nat]
    BY FInvPreserved DEF FInv, IInv, TypeOK
  <1>0. openings'[id] \in Nat /\ openings[id] \in Nat
    BY <1>1
  <1>2. [Next]_serviceVars
    BY FInvPreserved
  <1>3. ASSUME NEW p \in Proc, Write(p)
        PROVE  openings'[id] >= openings[id]
    <2>1. openings' = openings
            \/ openings' = [openings EXCEPT ![call[p].id] = openings[call[p].id] + 1]
      BY <1>3 DEF Write
    <2> QED
      BY <1>1, <2>1
  <1>4. ASSUME openings' = openings
        PROVE  openings'[id] >= openings[id]
    BY <1>1, <1>4
  <1>5. CASE Next
    <2>1. ASSUME NEW p \in Proc,
                 \/ Begin(p) \/ ResolveFresh(p) \/ ResolveExpired(p)
                 \/ Return(p) \/ Crash(p) \/ CrashInUpdate(p)
          PROVE  openings' = openings
      BY <2>1 DEF Begin, Get, GetFails, ResolveFresh, ResolveExpired, Return,
                  Crash, CrashInUpdate
    <2>2. ASSUME \/ CrashInSave \/ Tick
                 \/ \E i \in ApprovalId, t \in Tenant, r \in Resource,
                      pl \in Payload : RequestApproval(i, t, r, pl)
          PROVE  openings' = openings
      BY <2>2 DEF CrashInSave, Tick, RequestApproval
    <2> QED
      BY <1>0, <1>3, <1>4, <1>5, <2>1, <2>2 DEF Next
  <1>6. CASE UNCHANGED serviceVars
    BY <1>0, <1>4, <1>6 DEF serviceVars
  <1> QED
    BY <1>2, <1>5, <1>6

(* A step that only ends sends in flight, or leaves them alone.            *)
LEMMA NoneStarts ==
    ASSUME SendInv, [FlowNext]_vars, NEW id \in ApprovalId,
           InFlight(id)' \subseteq InFlight(id), delivered'[id] = delivered[id]
    PROVE  delivered'[id] + Cardinality(InFlight(id)') <= openings'[id]
  <1> DEFINE S == InFlight(id)  T == InFlight(id)'
  <1>1. /\ openings'[id] \in Nat /\ openings[id] \in Nat
        /\ openings'[id] >= openings[id]
    BY OpeningsGrow DEF SendInv
  <1>2. S \in SUBSET Req /\ T \in SUBSET S
    BY DEF InFlight
  <1>3. delivered[id] \in Nat /\ delivered[id] + Cardinality(S) <= openings[id]
    BY DEF SendInv, FInv, FlowTypes, FlowTypeOK, DeliveredWithinOpenings
  <1> HIDE DEF S, T
  <1>4. Cardinality(T) <= Cardinality(S)
    BY <1>2, FewerInFlight
  <1>5. Cardinality(S) \in Nat /\ Cardinality(T) \in Nat
    BY <1>2, InFlightCount
  <1>6. delivered[id] + Cardinality(T) <= openings'[id]
    BY <1>1, <1>3, <1>4, <1>5
  <1> QED
    BY <1>6 DEF T

(* The count of deliveries and sends in flight stays within the openings.  *)
LEMMA CountPreserved ==
    ASSUME SendInv, [FlowNext]_vars, NEW id \in ApprovalId
    PROVE  delivered'[id] + Cardinality(InFlight(id)') <= openings'[id]
  <1> USE DEF SendInv, FInv
  <1> DEFINE S == InFlight(id)  T == InFlight(id)'
  <1>0. /\ S \in SUBSET Req /\ T \in SUBSET Req
        /\ delivered[id] \in Nat /\ openings[id] \in Nat
        /\ delivered[id] + Cardinality(S) <= openings[id]
        /\ FInv'
    BY FInvPreserved
       DEF InFlight, FlowTypes, FlowTypeOK, DeliveredWithinOpenings, IInv, TypeOK
  <1>1. ASSUME NEW q \in Req, ProviderSends(q)
        PROVE  delivered'[id] + Cardinality(InFlight(id)') <= openings'[id]
    <2>1. /\ task[q] # NoTask /\ task[q].kind = "send_email"
          /\ task[q].pc = "provider" /\ task[q] \in GoodTask
          /\ UNCHANGED <<call, openings, caller>>
          /\ delivered' = [delivered EXCEPT ![task[q].id] = delivered[task[q].id] + 1]
      BY <1>1, TaskAssumption DEF ProviderSends, At, FlowTypes, serviceVars
    <2>2. task[q].id \in ApprovalId
      BY <2>1 DEF GoodTask
    <2>3. \A r \in Req \ {q} : task'[r] = task[r]
      BY <1>1 DEF ProviderSends, End, Become, FlowTypes
    <2>4. task'[q] = NoTask \/ task'[q].pc = "resume"
      BY <1>1, <2>1 DEF ProviderSends, End, Become, FlowTypes, GoodTask, Task
    <2>5. T \in SUBSET (S \ {q})
      BY <2>1, <2>3, <2>4 DEF InFlight, Outcome
    <2>6. CASE task[q].id = id
      <3>1. q \in S
        BY <2>1, <2>6 DEF InFlight
      <3>2. delivered'[id] = delivered[id] + 1 /\ openings'[id] = openings[id]
        BY <2>1, <2>2, <2>6 DEF FlowTypes, FlowTypeOK
      <3> HIDE DEF S, T
      <3>3. Cardinality(T) + 1 <= Cardinality(S)
        BY <1>0, <2>5, <3>1, OneOut
      <3>4. Cardinality(T) \in Nat /\ Cardinality(S) \in Nat
        BY <1>0, InFlightCount
      <3>5. delivered'[id] + Cardinality(T) <= openings'[id]
        BY <1>0, <3>2, <3>3, <3>4
      <3> QED
        BY <3>5 DEF T
    <2>7. CASE task[q].id # id
      <3>1. delivered'[id] = delivered[id]
        BY <2>1, <2>2, <2>7 DEF FlowTypes, FlowTypeOK
      <3> QED
        BY <2>5, <3>1, NoneStarts
    <2> QED
      BY <2>6, <2>7
  <1>2. CASE WriteStep(Server)
    <2>1. /\ call[Server] # NoCall /\ call'[Server] # NoCall
          /\ call[Server] \in Call /\ call[Server].pc = "write"
          /\ UNCHANGED <<task, caller, delivered>>
      BY <1>2, ServerMethodGoesOn DEF WriteStep, Write, IInv
    <2>2. /\ caller \in Req /\ task[caller] # NoTask
          /\ call[Server].op = OpOf(task[caller])
          /\ call[Server].id = task[caller].id
      BY <2>1 DEF OneCaller, LoopFree, FlowTypes, FlowTypeOK
    <2>3. T \in SUBSET (S \cup {caller})
      BY <2>1 DEF InFlight
    <2>4. CASE caller \notin T
      <3>1. T \subseteq S
        BY <2>3, <2>4
      <3> QED
        BY <2>1, <3>1, NoneStarts
    <2>5. CASE caller \in T
      <3>1. /\ call[Server].id = id /\ task[caller].kind = "send_email"
            /\ task[caller].pc \in {"provider", "service"}
        BY <2>1, <2>2, <2>5 DEF InFlight
      <3>2. task[caller].pc = "service" /\ call'[Server].result = "ok"
        BY <2>1, <2>2, <2>5, <3>1, TaskAssumption
           DEF InFlight, OneCaller, InService, Outcome
      <3>3. call[Server].op = "consume"
        BY <2>2, <3>1, <3>2 DEF OpOf
      <3>4. openings' = [openings EXCEPT ![id] = openings[id] + 1]
        <4>1. Unavailable # "ok" /\ Server \in Proc
          BY DEF Unavailable, Proc
        <4>2. CASE call' = [call EXCEPT ![Server] =
                               [@ EXCEPT !.pc = "return",
                                         !.result = Unavailable]]
          <5>1. call'[Server].result = Unavailable
            BY <2>1, <4>1, <4>2 DEF IInv, TypeOK, Call
          <5> QED
            BY <3>2, <4>1, <5>1
        <4> QED
          BY <1>2, <3>1, <3>3, <4>2 DEF WriteStep, Write
      <3>5. openings'[id] = openings[id] + 1 /\ delivered'[id] = delivered[id]
        BY <2>1, <3>4 DEF IInv, TypeOK
      <3> HIDE DEF S, T
      <3>6. Cardinality(T) <= Cardinality(S) + 1
        BY <1>0, <2>2, <2>3, OneIn
      <3>7. Cardinality(T) \in Nat /\ Cardinality(S) \in Nat
        BY <1>0, InFlightCount
      <3>8. delivered'[id] + Cardinality(T) <= openings'[id]
        BY <1>0, <3>5, <3>6, <3>7
      <3> QED
        BY <3>8 DEF T
    <2> QED
      BY <2>4, <2>5
  <1>3. CASE ~WriteStep(Server) /\ \A q \in Req : ~ProviderSends(q)
    <2>1. \A r \in Req : Passing(r)' => Passing(r) /\ task'[r] = task[r]
      BY <1>0, <1>3, PassingStays
    <2>2. CASE \A q \in Req : ~SendGranted(q) /\ ~RecordSent(q)
      <3>1. /\ delivered' = delivered
            /\ \A r \in Req : PastGate(task'[r]) => task'[r] = task[r]
        BY <1>3, <2>2, OtherSteps
      <3>2. T \subseteq S
        BY <2>1, <3>1 DEF InFlight, PastGate, Passing, Awaited
      <3> QED
        BY <3>1, <3>2, NoneStarts
    <2>3. ASSUME NEW q \in Req, SendGranted(q)
          PROVE  delivered'[id] + Cardinality(InFlight(id)') <= openings'[id]
      <3>1. /\ Passing(q) /\ task[q] \in GoodTask /\ delivered' = delivered
            /\ task'[q] = [task[q] EXCEPT !.pc = "provider"]
            /\ \A r \in Req \ {q} : task'[r] = task[r]
        BY <2>3, TaskAssumption
           DEF SendGranted, At, Leave, Passing, Become, FlowTypes
      <3>2. task'[q].id = task[q].id
        BY <3>1 DEF GoodTask, Task
      <3>3. ASSUME NEW r \in T
            PROVE  r \in S
        <4>1. CASE r = q
          BY <3>1, <3>2, <3>3, <4>1 DEF InFlight, Passing
        <4>2. CASE r # q
          BY <2>1, <3>1, <3>3, <4>2 DEF InFlight, Passing
        <4> QED
          BY <4>1, <4>2
      <3> QED
        BY <3>1, <3>3, NoneStarts
    <2>4. ASSUME NEW q \in Req, RecordSent(q)
          PROVE  delivered'[id] + Cardinality(InFlight(id)') <= openings'[id]
      <3>1. /\ delivered' = delivered /\ task'[q] = NoTask
            /\ \A r \in Req \ {q} : task'[r] = task[r]
        BY <2>4 DEF RecordSent, End, Become, FlowTypes
      <3>2. T \subseteq S
        BY <2>1, <3>1 DEF InFlight, Passing
      <3> QED
        BY <3>1, <3>2, NoneStarts
    <2> QED
      BY <2>2, <2>3, <2>4
  <1> QED
    BY <1>1, <1>2, <1>3

----------------------------------------------------------------------------
LEMMA InitSendInv == FlowInit => SendInv
  <1> SUFFICES ASSUME FlowInit PROVE SendInv
    OBVIOUS
  <1>1. FInv
    BY InitFInv
  <1>2. SendOK /\ SentOnlyWhatWasAsked /\ SentLinesAreTrue
    BY DEF FlowInit, SendOK, SentOnlyWhatWasAsked, SentLinesAreTrue
  <1>3. DeliveredWithinOpenings
    <2> SUFFICES ASSUME NEW id \in ApprovalId
                 PROVE  delivered[id] + Cardinality(InFlight(id)) <= openings[id]
      BY DEF DeliveredWithinOpenings
    <2>1. InFlight(id) = {}
      BY DEF FlowInit, InFlight
    <2>2. delivered[id] = 0 /\ openings[id] = 0
      BY DEF FlowInit, Init
    <2>3. Cardinality(InFlight(id)) = 0
      BY <2>1, FS_EmptySet
    <2> QED
      BY <2>2, <2>3
  <1> QED
    BY <1>1, <1>2, <1>3 DEF SendInv

LEMMA SendInvPreserved ==
    ASSUME SendInv, [FlowNext]_vars
    PROVE  SendInv'
  <1>1. FInv'
    BY FInvPreserved DEF SendInv
  <1>2. SendOK' /\ SentOnlyWhatWasAsked' /\ SentLinesAreTrue'
    BY SendsPreserved
  <1>3. DeliveredWithinOpenings'
    BY CountPreserved DEF DeliveredWithinOpenings
  <1> QED
    BY <1>1, <1>2, <1>3 DEF SendInv

(* What every reachable state of the send flow satisfies.                  *)
THEOREM SendInvariance == FlowSpec => []SendInv
  <1>1. SendInv /\ [FlowNext]_vars => SendInv'
    BY SendInvPreserved
  <1> QED
    BY <1>1, InitSendInv, PTL DEF FlowSpec

(* Every message that has left, and every send on its way to the provider, *)
(* is one opening of the gate, whatever coroutine, process or provider     *)
(* fails in between.                                                       *)
THEOREM DeliveriesWithinOpenings == FlowSpec => []DeliveredWithinOpenings
  <1>1. SendInv => DeliveredWithinOpenings
    BY DEF SendInv
  <1> QED
    BY <1>1, SendInvariance, PTL

LEMMA DeliveredCounts ==
    ASSUME SendInv, NEW id \in ApprovalId
    PROVE  /\ delivered[id] \in Nat /\ openings[id] \in Nat
           /\ delivered[id] <= openings[id]
  <1>1. /\ delivered[id] \in Nat /\ openings[id] \in Nat
        /\ delivered[id] + Cardinality(InFlight(id)) <= openings[id]
    BY DEF SendInv, FInv, IInv, TypeOK, FlowTypes, FlowTypeOK,
           DeliveredWithinOpenings
  <1>2. InFlight(id) \in SUBSET Req
    BY DEF InFlight
  <1>3. Cardinality(InFlight(id)) \in Nat
    BY <1>2, InFlightCount
  <1> QED
    BY <1>1, <1>3

(* No approval lets out more messages than humans wrote it approved.       *)
THEOREM DeliveriesWithinGrants == FlowSpec => []DeliveredWithinGrants
  <1>1. SendInv => DeliveredWithinGrants
    <2> SUFFICES ASSUME SendInv, NEW id \in ApprovalId
                 PROVE  delivered[id] <= grants[id]
      BY DEF DeliveredWithinGrants
    <2>1. grants[id] \in Nat /\ openings[id] <= grants[id]
      BY DEF SendInv, FInv, IInv, TypeOK, GateWithinGrants
    <2> QED
      BY <2>1, DeliveredCounts
  <1> QED
    BY <1>1, SendInvariance, PTL

(* One message for one approval: true as long as no two calls on a request *)
(* overlap, and so always without a command line beside the server,        *)
(* however often an agent asks for the same send, whatever the provider    *)
(* answers and whenever the server dies.                                   *)
DeliveredOnce == \A id \in ApprovalId : delivered[id] <= 1

THEOREM SerialDeliversOnce == FlowSpec /\ []NoOverlap => []DeliveredOnce
  <1>1. SendInv /\ AtMostOnceUse => DeliveredOnce
    <2> SUFFICES ASSUME SendInv, AtMostOnceUse, NEW id \in ApprovalId
                 PROVE  delivered[id] <= 1
      BY DEF DeliveredOnce
    <2>1. openings[id] <= 1
      BY DEF AtMostOnceUse
    <2> QED
      BY <2>1, DeliveredCounts
  <1> QED
    BY <1>1, SendInvariance, FlowUsesTheService, SerialUsedOnce, PTL

COROLLARY SoloDeliversOnce ==
    ASSUME Cli = {}
    PROVE  FlowSpec => []DeliveredOnce
  <1>1. NoOverlap
    BY DEF NoOverlap, Proc
  <1> QED
    BY <1>1, SerialDeliversOnce, PTL

(* A message leaves from the mailbox and the draft its approval is for.    *)
THEOREM SendsWhatWasAsked == FlowSpec => []SentOnlyWhatWasAsked
  <1>1. SendInv => SentOnlyWhatWasAsked
    BY DEF SendInv
  <1> QED
    BY <1>1, SendInvariance, PTL

(* An audit line that says "sent" is about a message that was.             *)
THEOREM SentLinesTellTheTruth == FlowSpec => []SentLinesAreTrue
  <1>1. SendInv => SentLinesAreTrue
    BY DEF SendInv
  <1> QED
    BY <1>1, SendInvariance, PTL

----------------------------------------------------------------------------
(* The edits made to drafts are never forgotten.                           *)
LEMMA EditsStay ==
    ASSUME [FlowNext]_vars
    PROVE  applied \subseteq applied' /\ overwritten \subseteq overwritten'
  <1>1. ASSUME NEW q \in Req, Arrival(q)
        PROVE  UNCHANGED <<applied, overwritten>>
    BY <1>1 DEF Arrival, CreateDraft, RequestSendApproval, SendEmail,
                DecideFromChannel, ApproveWithEdits, GetApprovalStatus
  <1>2. ASSUME NEW q \in Req, Provider(q) \/ Resume(q) \/ Finish(q)
        PROVE  applied \subseteq applied' /\ overwritten \subseteq overwritten'
    BY <1>2
       DEF Provider, ProviderCreates, ProviderReads, ProviderSends,
           ProviderUpdates, ProviderCopies, ProviderReplaces, ProviderFails,
           Resume, RecordCreated, SaveFails, RecordSent, DecideEdited,
           SaveRequest, Finish, SendDenied, SendGranted, NothingToEdit,
           FoundToEdit, Answer
  <1> QED
    BY <1>1, <1>2 DEF FlowNext, ServerStep, WriteStep, CliStep, ServerCrash,
                      Clock, flowVars, vars

(* Only a provider's call touches a draft.                                 *)
LEMMA OtherDraftSteps ==
    ASSUME [FlowNext]_vars,
           \A q \in Req : ~ProviderCreates(q) /\ ~ProviderSends(q)
                          /\ ~ProviderUpdates(q) /\ ~ProviderReplaces(q)
    PROVE  UNCHANGED <<mailbox, applied, overwritten>>
  <1>1. ASSUME NEW q \in Req, Arrival(q)
        PROVE  UNCHANGED <<mailbox, applied, overwritten>>
    BY <1>1 DEF Arrival, CreateDraft, RequestSendApproval, SendEmail,
                DecideFromChannel, ApproveWithEdits, GetApprovalStatus
  <1>2. ASSUME NEW q \in Req, Provider(q) \/ Resume(q) \/ Finish(q)
        PROVE  UNCHANGED <<mailbox, applied, overwritten>>
    BY <1>2
       DEF Provider, ProviderReads, ProviderCopies, ProviderFails, Resume,
           RecordCreated, SaveFails, RecordSent, DecideEdited, SaveRequest,
           Finish, SendDenied, SendGranted, NothingToEdit, FoundToEdit, Answer
  <1> QED
    BY <1>1, <1>2 DEF FlowNext, ServerStep, WriteStep, CliStep, ServerCrash,
                      Clock, flowVars, vars

(* A card's edit of Gmail's that is about to replace the draft by the copy *)
(* c of it.                                                                *)
Replacing(q, t, d, c) ==
    /\ At(q, "approve", "replace")
    /\ task[q].tenant = t /\ task[q].draft = d /\ task[q].content = c

(* What becomes of a draft: nothing, it is made, sent or edited.  An edit  *)
(* is of the draft, or of an older copy of it, and then it is remembered   *)
(* that it was.                                                            *)
LEMMA DraftSteps ==
    ASSUME FInv, [FlowNext]_vars, NEW t \in Tenant, NEW d \in Resource
    PROVE  \/ mailbox'[t][d] = mailbox[t][d]
           \/ mailbox[t][d] = NoDraft
           \/ mailbox'[t][d] = SentDraft
           \/ \E e \in Edit, c \in Content :
                 /\ mailbox'[t][d] = Edited(c, e)
                 /\ [tenant |-> t, draft |-> d, edits |-> e] \in applied'
                 /\ mailbox[t][d] \in Content
                 /\ \/ c = mailbox[t][d]
                    \/ \E q \in Req : /\ Replacing(q, t, d, c)
                                      /\ task[q].id \in overwritten'
  <1> USE DEF FInv, FlowTypes, FlowTypeOK
  <1>1. ASSUME NEW q \in Req, ProviderCreates(q)
        PROVE  mailbox'[t][d] = mailbox[t][d] \/ mailbox[t][d] = NoDraft
    <2>1. PICK x \in Resource :
             /\ mailbox[task[q].tenant][x] = NoDraft
             /\ mailbox' = [mailbox EXCEPT ![task[q].tenant][x] = task[q].content]
      BY <1>1 DEF ProviderCreates
    <2> QED
      BY <1>1, <2>1 DEF ProviderCreates
  <1>2. ASSUME NEW q \in Req, ProviderSends(q)
        PROVE  mailbox'[t][d] = mailbox[t][d] \/ mailbox'[t][d] = SentDraft
    BY <1>2 DEF ProviderSends
  <1>3. ASSUME NEW q \in Req, ProviderUpdates(q)
        PROVE  \/ mailbox'[t][d] = mailbox[t][d]
               \/ \E e \in Edit :
                     /\ mailbox[t][d] \in Content
                     /\ mailbox'[t][d] = Edited(mailbox[t][d], e)
                     /\ [tenant |-> t, draft |-> d, edits |-> e] \in applied'
    <2>1. task[q] \in GoodTask
      BY <1>3, TaskAssumption DEF ProviderUpdates, At
    <2>2. task[q].edits \in Edit
      BY <2>1 DEF GoodTask, Task
    <2>3. CASE t = task[q].tenant /\ d = task[q].draft
      <3>1. /\ mailbox[t][d] \in Content
            /\ mailbox'[t][d] = Edited(mailbox[t][d], task[q].edits)
            /\ applied' = applied \cup {[tenant |-> t, draft |-> d,
                                         edits |-> task[q].edits]}
        BY <1>3, <2>3 DEF ProviderUpdates
      <3> QED
        BY <2>2, <3>1
    <2>4. CASE ~(t = task[q].tenant /\ d = task[q].draft)
      BY <1>3, <2>4 DEF ProviderUpdates
    <2> QED
      BY <2>3, <2>4
  <1>4. ASSUME NEW q \in Req, ProviderReplaces(q)
        PROVE  \/ mailbox'[t][d] = mailbox[t][d]
               \/ \E e \in Edit, c \in Content :
                     /\ mailbox'[t][d] = Edited(c, e)
                     /\ [tenant |-> t, draft |-> d, edits |-> e] \in applied'
                     /\ mailbox[t][d] \in Content
                     /\ \/ c = mailbox[t][d]
                        \/ Replacing(q, t, d, c) /\ task[q].id \in overwritten'
    <2>1. task[q] \in GoodTask
      BY <1>4, TaskAssumption DEF ProviderReplaces, At
    <2>2. task[q].edits \in Edit /\ task[q].content \in Content
      BY <1>4, <2>1 DEF ProviderReplaces, At, GoodTask, Task
    <2>3. CASE t = task[q].tenant /\ d = task[q].draft
      <3>1. /\ mailbox[t][d] \in Content
            /\ mailbox'[t][d] = Edited(task[q].content, task[q].edits)
            /\ applied' = applied \cup {[tenant |-> t, draft |-> d,
                                         edits |-> task[q].edits]}
            /\ At(q, "approve", "replace")
            /\ overwritten' = IF mailbox[t][d] = task[q].content
                              THEN overwritten
                              ELSE overwritten \cup {task[q].id}
        BY <1>4, <2>3 DEF ProviderReplaces
      <3>2. \/ task[q].content = mailbox[t][d]
            \/ /\ Replacing(q, t, d, task[q].content)
               /\ task[q].id \in overwritten'
        BY <2>3, <3>1 DEF Replacing
      <3> QED
        BY <2>2, <3>1, <3>2
    <2>4. CASE ~(t = task[q].tenant /\ d = task[q].draft)
      BY <1>4, <2>4 DEF ProviderReplaces
    <2> QED
      BY <2>3, <2>4
  <1>5. CASE \A q \in Req : ~ProviderCreates(q) /\ ~ProviderSends(q)
                            /\ ~ProviderUpdates(q) /\ ~ProviderReplaces(q)
    BY <1>5, OtherDraftSteps
  <1> QED
    BY <1>1, <1>2, <1>3, <1>4, <1>5

(* An edit undoes others where the draft has changed since it was copied.  *)
LEMMA OverwritingSteps ==
    ASSUME [FlowNext]_vars, NEW id \in overwritten', id \notin overwritten
    PROVE  \E q \in Req :
              /\ ProviderReplaces(q) /\ id = task[q].id
              /\ mailbox[task[q].tenant][task[q].draft] # task[q].content
  <1>1. ASSUME NEW q \in Req, ProviderCreates(q) \/ ProviderSends(q)
                              \/ ProviderUpdates(q)
        PROVE  overwritten' = overwritten
    BY <1>1 DEF ProviderCreates, ProviderSends, ProviderUpdates
  <1>2. PICK q \in Req : ProviderReplaces(q)
    BY <1>1, OtherDraftSteps
  <1> QED
    BY <1>2 DEF ProviderReplaces

----------------------------------------------------------------------------
(* What was approved, against what was applied.  The copy a method holds   *)
(* until it returns is the request's, and an approval of a card with edits *)
(* reaches its decision only with the edits in the draft.                  *)
CopiesOK ==
    \A p \in Proc :
        call[p] # NoCall /\ call[p].req # NoRecord =>
            /\ SameTerms(call[p].req, call[p].id)
            /\ call[p].req.tenant = call[p].tenant

EditMade(k) ==
    \/ k.edits = NoEdits
    \/ /\ asked[k.id] # NoRecord
       /\ asked[k.id].tenant = k.tenant /\ asked[k.id].resource = k.draft
       /\ k.pc \notin {"provider", "replace"} =>
             [tenant |-> k.tenant, draft |-> k.draft, edits |-> k.edits]
                \in applied

Approving(k) == k # NoTask /\ k.kind = "approve" /\ k.pc # "status"

EditsMade == \A q \in Req : Approving(task[q]) => EditMade(task[q])

ViewsAsked ==
    \A id \in ApprovalId : approvedViews[id] # {} => asked[id] # NoRecord

ReviewInv ==
    FInv /\ CopiesOK /\ EditsMade /\ ViewsAsked /\ ApprovedTextWasApplied

(* A method keeps its arguments and its copy until it is over.             *)
LEMMA CallsKeepTheirCopy ==
    ASSUME IInv, Next, NEW p \in Proc, call'[p] # NoCall
    PROVE  \/ /\ call[p] # NoCall
              /\ call'[p].req = call[p].req /\ call'[p].id = call[p].id
              /\ call'[p].tenant = call[p].tenant
           \/ call'[p].req = NoRecord
           \/ /\ call'[p].id \in ApprovalId
              /\ SameTerms(call'[p].req, call'[p].id)
              /\ call'[p].req.tenant = call'[p].tenant
  <1> USE DEF IInv, TypeOK
  <1>1. CASE call'[p] = call[p]
    BY <1>1
  <1>2. ASSUME NEW x \in Proc, NEW op \in Op, NEW id \in ApprovalId,
               NEW t \in Tenant, NEW d \in Resource,
               Get(x, op, id, t, d) \/ GetFails(x, op, id, t, d), x = p
        PROVE  \/ call'[p].req = NoRecord
               \/ /\ call'[p].id \in ApprovalId
                  /\ SameTerms(call'[p].req, call'[p].id)
                  /\ call'[p].req.tenant = call'[p].tenant
    BY <1>2 DEF Get, GetFails, Visible, TermsKept
  <1>3. CASE ResolveFresh(p)
    BY <1>3, FreshGoesOn DEF InProgress
  <1>4. CASE ResolveExpired(p) \/ Write(p)
    <2>1. /\ call[p] # NoCall /\ call'[p].id = call[p].id
          /\ call'[p].tenant = call[p].tenant /\ call[p].id \in ApprovalId
      BY <1>4, UpdateEnds DEF InProgress
    <2> QED
      BY <1>4, <2>1, HandedBack
  <1>5. ~(Return(p) \/ Crash(p) \/ CrashInUpdate(p))
    BY DEF Return, Crash, CrashInUpdate
  <1>6. ASSUME NEW x \in Proc \ {p},
               \/ Begin(x) \/ ResolveFresh(x) \/ ResolveExpired(x) \/ Write(x)
               \/ Return(x) \/ Crash(x) \/ CrashInUpdate(x)
        PROVE  call'[p] = call[p]
    BY <1>6 DEF Begin, Get, GetFails, ResolveFresh, ResolveExpired, Write,
                Return, Crash, CrashInUpdate
  <1>7. CASE UNCHANGED call
    BY <1>1, <1>7
  <1> QED
    BY <1>1, <1>2, <1>3, <1>4, <1>5, <1>6, <1>7
       DEF Next, Begin, RequestApproval, CrashInSave, Tick

LEMMA CopiesPreserved ==
    ASSUME FInv, CopiesOK, [FlowNext]_vars
    PROVE  CopiesOK'
  <1> USE DEF FInv, IInv
  <1>1. [Next]_serviceVars
    BY FInvPreserved
  <1>2. \A id \in ApprovalId : asked[id] # NoRecord => asked'[id] = asked[id]
    BY AskedStays
  <1>3. ASSUME NEW request, NEW id \in ApprovalId, SameTerms(request, id)
        PROVE  /\ asked'[id] # NoRecord
               /\ request = [asked'[id] EXCEPT !.status = request.status]
    BY <1>2, <1>3 DEF SameTerms
  <1>4. CASE Next
    <2> SUFFICES ASSUME NEW p \in Proc, call'[p] # NoCall,
                        call'[p].req # NoRecord
                 PROVE  /\ SameTerms(call[p].req, call[p].id)'
                        /\ call'[p].req.tenant = call'[p].tenant
      BY DEF CopiesOK
    <2>1. CASE /\ call[p] # NoCall
               /\ call'[p].req = call[p].req /\ call'[p].id = call[p].id
               /\ call'[p].tenant = call[p].tenant
      <3>1. call[p].id \in ApprovalId
        BY <2>1 DEF TypeOK, Call
      <3>2. SameTerms(call[p].req, call[p].id)
        BY <2>1 DEF CopiesOK
      <3> QED
        BY <1>3, <2>1, <3>1, <3>2 DEF SameTerms, CopiesOK
    <2>2. CASE /\ call'[p].id \in ApprovalId
               /\ SameTerms(call'[p].req, call'[p].id)
               /\ call'[p].req.tenant = call'[p].tenant
      BY <1>3, <2>2 DEF SameTerms
    <2> QED
      BY <1>4, <2>1, <2>2, CallsKeepTheirCopy
  <1>5. CASE UNCHANGED serviceVars
    BY <1>5 DEF serviceVars, CopiesOK, SameTerms
  <1> QED
    BY <1>1, <1>4, <1>5

LEMMA EditMadeStays ==
    ASSUME FInv, [FlowNext]_vars, NEW k, k.id \in ApprovalId, EditMade(k)
    PROVE  \/ k.edits = NoEdits
           \/ /\ asked'[k.id] # NoRecord
              /\ asked'[k.id].tenant = k.tenant
              /\ asked'[k.id].resource = k.draft
              /\ k.pc \notin {"provider", "replace"} =>
                    [tenant |-> k.tenant, draft |-> k.draft, edits |-> k.edits]
                       \in applied'
  BY EditsStay, AskedStays DEF EditMade

(* How an approval gets where its edits are made, or it has none.          *)
LEMMA ApprovingSteps ==
    ASSUME ReviewInv, [FlowNext]_vars, NEW q \in Req, Approving(task'[q])
    PROVE  \/ Approving(task[q]) /\ task'[q] = task[q]
           \/ task'[q].edits = NoEdits
           \/ ProviderUpdates(q) \/ ProviderReplaces(q)
           \/ ProviderCopies(q)
           \/ FoundToEdit(q)
           \/ DecideEdited(q)
  <1> USE DEF ReviewInv, FInv, FlowTypes
  <1>1. CASE task'[q] = task[q]
    BY <1>1
  <1>2. ASSUME NEW r \in Req \ {q}, NEW k, Become(r, k)
        PROVE  task'[q] = task[q]
    BY <1>2 DEF Become
  <1>3. ASSUME NEW r \in Req, Arrival(r)
        PROVE  task'[q] = task[q] \/ task'[q].edits = NoEdits
    <2>1. ASSUME NEW t \in Tenant,
                 \/ \E c \in Written : CreateDraft(r, t, c)
                 \/ \E d \in Resource : RequestSendApproval(r, t, d)
          PROVE  task'[q] = task[q] \/ task'[q].edits = NoEdits
      BY <1>2, <2>1 DEF CreateDraft, RequestSendApproval, New, Become
    <2>2. ASSUME NEW t \in Tenant, NEW id \in ApprovalId,
                 \/ \E d \in Resource : SendEmail(r, t, d, id)
                 \/ \E kind \in {"approve", "reject"} :
                       DecideFromChannel(r, kind, t, id)
                 \/ GetApprovalStatus(r, t, id)
          PROVE  task'[q] = task[q] \/ task'[q].edits = NoEdits
      BY <1>2, <2>2 DEF SendEmail, DecideFromChannel, GetApprovalStatus, New,
                        Become
    <2>3. ASSUME NEW t \in Tenant, NEW id \in ApprovalId, NEW e \in CardEdits,
                 ApproveWithEdits(r, t, id, e)
          PROVE  task'[q] = task[q]
      <3>1. CASE r = q
        BY <2>3, <3>1 DEF ApproveWithEdits, New, Become, Approving
      <3> QED
        BY <1>2, <2>3, <3>1 DEF ApproveWithEdits
    <2> QED
      BY <1>3, <2>1, <2>2, <2>3 DEF Arrival
  <1>4. ASSUME NEW r \in Req, Provider(r) \/ Resume(r) \/ Finish(r)
        PROVE  \/ task'[q] = task[q]
               \/ ProviderUpdates(q) \/ ProviderReplaces(q)
               \/ ProviderCopies(q) \/ FoundToEdit(q) \/ DecideEdited(q)
    <2>1. CASE r # q
      BY <1>2, <1>4, <2>1
         DEF Provider, ProviderCreates, ProviderReads, ProviderSends,
             ProviderUpdates, ProviderCopies, ProviderReplaces, ProviderFails,
             Resume, RecordCreated, SaveFails, RecordSent, DecideEdited,
             SaveRequest, Finish, SendDenied, SendGranted, NothingToEdit,
             FoundToEdit, Answer, End
    <2>2. ASSUME r = q, End(q)
          PROVE  FALSE
      BY <2>2 DEF End, Become, Approving
    <2>3. CASE r = q /\ ~End(q) /\ ~ProviderUpdates(q) /\ ~ProviderCopies(q)
                     /\ ~ProviderReplaces(q) /\ ~FoundToEdit(q)
                     /\ ~DecideEdited(q)
      <3>1. \/ ProviderCreates(q) \/ ProviderReads(q) \/ ProviderSends(q)
            \/ SendGranted(q)
        BY <1>4, <2>3
           DEF Provider, ProviderFails, Resume, RecordCreated, SaveFails,
               RecordSent, SaveRequest, Finish, SendDenied, NothingToEdit,
               Answer
      <3>2. task[q] \in GoodTask /\ task[q].kind # "approve"
        BY <3>1, TaskAssumption
           DEF ProviderCreates, ProviderReads, ProviderSends, SendGranted, At
      <3>3. \/ \E d : task'[q] = [task[q] EXCEPT !.pc = "resume", !.draft = d]
            \/ \E c : task'[q] = [task[q] EXCEPT !.pc = "resume", !.content = c]
            \/ \E pc : task'[q] = [task[q] EXCEPT !.pc = pc]
        <4>1. CASE ProviderCreates(q)
          BY <4>1 DEF ProviderCreates, Become
        <4>2. CASE ProviderReads(q)
          BY <4>2 DEF ProviderReads, Become
        <4>3. CASE ProviderSends(q)
          BY <2>3, <4>3 DEF ProviderSends, Become
        <4>4. CASE SendGranted(q)
          BY <4>4 DEF SendGranted, Become
        <4> QED
          BY <3>1, <4>1, <4>2, <4>3, <4>4
      <3> QED
        BY <3>2, <3>3 DEF GoodTask, Task, Approving
    <2> QED
      BY <2>1, <2>2, <2>3
  <1>5. ~ServerCrash
    BY DEF ServerCrash, Approving
  <1>6. CASE UNCHANGED task
    BY <1>1, <1>6
  <1> QED
    BY <1>1, <1>3, <1>4, <1>5, <1>6
       DEF FlowNext, ServerStep, WriteStep, CliStep, Clock, flowVars, vars

LEMMA EditsPreserved ==
    ASSUME ReviewInv, [FlowNext]_vars
    PROVE  EditsMade'
  <1> USE DEF ReviewInv, FInv
  <1> SUFFICES ASSUME NEW q \in Req, Approving(task'[q])
               PROVE  LET k == task'[q] IN
                      \/ k.edits = NoEdits
                      \/ /\ asked'[k.id] # NoRecord
                         /\ asked'[k.id].tenant = k.tenant
                         /\ asked'[k.id].resource = k.draft
                         /\ k.pc \notin {"provider", "replace"} =>
                               [tenant |-> k.tenant, draft |-> k.draft,
                                edits |-> k.edits] \in applied'
    BY DEF EditsMade, EditMade, Approving
  <1>1. CASE Approving(task[q]) /\ task'[q] = task[q]
    <2>1. task[q].id \in ApprovalId /\ EditMade(task[q])
      BY <1>1 DEF FlowTypes, GoodTask, Approving, EditsMade
    <2> QED
      BY <1>1, <2>1, EditMadeStays
  <1>2. CASE ProviderUpdates(q) \/ ProviderReplaces(q)
    <2>1. /\ task[q] \in GoodTask /\ task[q].kind = "approve"
          /\ task[q].pc # "status" /\ Approving(task[q])
          /\ UNCHANGED asked
      BY <1>2, TaskAssumption
         DEF ProviderUpdates, ProviderReplaces, At, FlowTypes, Approving,
             serviceVars
    <2>2. task'[q] = [task[q] EXCEPT !.pc = "resume"]
      BY <1>2 DEF ProviderUpdates, ProviderReplaces, Become, End, FlowTypes,
                  Approving
    <2>3. /\ task'[q].edits = task[q].edits /\ task'[q].id = task[q].id
          /\ task'[q].tenant = task[q].tenant /\ task'[q].draft = task[q].draft
      BY <2>1, <2>2 DEF GoodTask, Task
    <2>4. [tenant |-> task[q].tenant, draft |-> task[q].draft,
           edits |-> task[q].edits] \in applied'
      BY <1>2 DEF ProviderUpdates, ProviderReplaces
    <2> QED
      BY <2>1, <2>3, <2>4 DEF EditsMade, EditMade
  <1>3. CASE FoundToEdit(q)
    <2>1. /\ task[q] \in GoodTask /\ task[q].kind = "approve"
          /\ task[q].pc = "status" /\ caller = q
          /\ call[Server] # NoCall /\ call[Server].result \in Status
          /\ UNCHANGED asked
      BY <1>3, TaskAssumption
         DEF FoundToEdit, At, FlowTypes, Leave, Return, Outcome
    <2> DEFINE d == call[Server].req.resource
    <2>2. task'[q] = [task[q] EXCEPT !.pc = "provider", !.draft = d]
      BY <1>3 DEF FoundToEdit, Become, FlowTypes
    <2> HIDE DEF d
    <2>3. /\ task'[q].id = task[q].id /\ task'[q].tenant = task[q].tenant
          /\ task'[q].draft = d /\ task'[q].pc = "provider"
      BY <2>1, <2>2 DEF GoodTask, Task
    <2>4. /\ call[Server].id = task[q].id
          /\ call[Server].tenant = task[q].tenant
      BY <2>1, TaskAssumption DEF OneCaller, LoopFree
    <2>5. /\ SameTerms(call[Server].req, task[q].id)
          /\ call[Server].req.tenant = task[q].tenant
      BY <2>1, <2>4 DEF KnownReq, CopiesOK, Proc
    <2>6. asked[task[q].id] \in ApprovalRequest
      BY <2>1, <2>5 DEF SameTerms, GoodTask, IInv, TypeOK, Stores
    <2>7. /\ asked[task[q].id] # NoRecord
          /\ asked[task[q].id].tenant = task[q].tenant
          /\ asked[task[q].id].resource = d
      BY <2>5, <2>6 DEF SameTerms, ApprovalRequest, d
    <2> QED
      BY <2>1, <2>3, <2>7
  <1>4. CASE DecideEdited(q)
    <2>1. /\ task[q] \in GoodTask /\ task[q].kind = "approve"
          /\ task[q].pc = "resume" /\ Approving(task[q])
          /\ UNCHANGED <<asked, applied>>
      BY <1>4, TaskAssumption
         DEF DecideEdited, At, FlowTypes, Approving, Enter, Get, GetFails
    <2>2. task'[q] = [task[q] EXCEPT !.pc = "service"]
      BY <1>4 DEF DecideEdited, Become, FlowTypes
    <2>3. /\ task'[q].edits = task[q].edits /\ task'[q].id = task[q].id
          /\ task'[q].tenant = task[q].tenant /\ task'[q].draft = task[q].draft
      BY <2>1, <2>2 DEF GoodTask, Task
    <2> QED
      BY <2>1, <2>3 DEF EditsMade, EditMade
  <1>5. CASE ProviderCopies(q)
    <2> DEFINE c == mailbox[task[q].tenant][task[q].draft]
    <2>1. /\ task[q] \in GoodTask /\ task[q].kind = "approve"
          /\ task[q].pc = "provider" /\ Approving(task[q])
          /\ UNCHANGED asked
      BY <1>5, TaskAssumption
         DEF ProviderCopies, At, FlowTypes, Approving, serviceVars
    <2>2. task'[q] = [task[q] EXCEPT !.pc = "replace", !.content = c]
      BY <1>5 DEF ProviderCopies, Become, FlowTypes
    <2> HIDE DEF c
    <2>3. /\ task'[q].edits = task[q].edits /\ task'[q].id = task[q].id
          /\ task'[q].tenant = task[q].tenant /\ task'[q].draft = task[q].draft
          /\ task'[q].pc = "replace"
      BY <2>1, <2>2 DEF GoodTask, Task
    <2> QED
      BY <2>1, <2>3 DEF EditsMade, EditMade
  <1> QED
    BY <1>1, <1>2, <1>3, <1>4, <1>5, ApprovingSteps

(* A view is added by the write of an approval, and is of its request.     *)
LEMMA ViewSteps ==
    ASSUME ReviewInv, [FlowNext]_vars, NEW id \in ApprovalId,
           NEW v \in approvedViews'[id], v \notin approvedViews[id]
    PROVE  \E p \in Proc :
              /\ call[p] # NoCall /\ call[p].pc = "write"
              /\ call[p].op = "approve" /\ call[p].id = id
              /\ v = ViewOf(p) /\ UNCHANGED <<asked, applied>>
  <1> USE DEF ReviewInv, FInv
  <1>1. ASSUME NEW p \in Proc, WriteStep(p)
        PROVE  /\ call[p] # NoCall /\ call[p].pc = "write"
               /\ call[p].op = "approve" /\ call[p].id = id
               /\ v = ViewOf(p) /\ UNCHANGED <<asked, applied>>
    <2>1. /\ grants' # grants
          /\ approvedViews' = [approvedViews EXCEPT
                ![call[p].id] = approvedViews[call[p].id] \cup {ViewOf(p)}]
      BY <1>1 DEF WriteStep
    <2>2. /\ call[p] # NoCall /\ call[p].pc = "write" /\ call[p].op = "approve"
          /\ UNCHANGED <<asked, applied>>
      BY <1>1, <2>1 DEF WriteStep, Write
    <2>3. call[p].id = id /\ v = ViewOf(p)
      BY <2>1 DEF FlowTypes, FlowTypeOK
    <2> QED
      BY <2>2, <2>3
  <1>2. Server \in Proc /\ Cli \subseteq Proc
    BY DEF Proc
  <1>3. approvedViews' # approvedViews
    OBVIOUS
  <1>4. ASSUME NEW q \in Req, Arrival(q) \/ Provider(q)
        PROVE  FALSE
    BY <1>3, <1>4
       DEF Arrival, CreateDraft, RequestSendApproval, SendEmail,
           DecideFromChannel, ApproveWithEdits, GetApprovalStatus, Provider,
           ProviderCreates, ProviderReads, ProviderSends, ProviderUpdates,
           ProviderCopies, ProviderReplaces, ProviderFails
  <1>5. ASSUME NEW q \in Req, Resume(q) \/ Finish(q)
        PROVE  FALSE
    BY <1>3, <1>5
       DEF Resume, RecordCreated, SaveFails, RecordSent, DecideEdited,
           SaveRequest, Finish, SendDenied, SendGranted, NothingToEdit,
           FoundToEdit, Answer
  <1>6. ~(ServerStep \/ ServerCrash \/ Clock \/ UNCHANGED vars)
        /\ \A p \in Cli : ~CliStep(p)
    BY <1>3 DEF ServerStep, ServerCrash, Clock, CliStep, flowVars, vars
  <1> QED
    BY <1>1, <1>2, <1>4, <1>5, <1>6 DEF FlowNext

(* The edits a request can be approved with: none, or some made to its     *)
(* draft.                                                                  *)
EditsFor(id) ==
    {NoEdits} \cup Typed(asked[id].tenant, asked[id].resource)

(* What an approver is about to approve is what the request shows, with    *)
(* such edits.                                                             *)
LEMMA ViewOfRequest ==
    ASSUME ReviewInv, NEW p \in Proc, call[p] # NoCall,
           call[p].pc = "write", call[p].op = "approve"
    PROVE  LET id == call[p].id IN
           /\ asked[id] # NoRecord
           /\ \E e \in EditsFor(id) :
                 ViewOf(p) =
                    [subject |-> Replaced(asked[id].payload.subject, e.subject),
                     body |-> Replaced(asked[id].payload.body, e.body)]
  <1> USE DEF ReviewInv, FInv
  <1> DEFINE id == call[p].id
  <1>1. id \in ApprovalId
    BY DEF IInv, TypeOK, Call
  <1>2. /\ asked[id] # NoRecord
        /\ call[p].req = [asked[id] EXCEPT !.status = call[p].req.status]
    BY DEF IInv, TermsKept, InProgress, SameTerms
  <1>3. call[p].req.payload = asked[id].payload
    <2>1. asked[id] \in ApprovalRequest
      BY <1>1, <1>2 DEF IInv, TypeOK, Stores
    <2> QED
      BY <1>2, <2>1 DEF ApprovalRequest
  <1>4. CASE p = Server
    <2>1. /\ caller # NoTask /\ task[caller] # NoTask /\ caller \in Req
          /\ OpOf(task[caller]) = "approve" /\ task[caller].id = id
          /\ task[caller].pc \in InService
      BY <1>4 DEF OneCaller, LoopFree, FlowTypes, FlowTypeOK
    <2>2. /\ Approving(task[caller])
          /\ task[caller].pc \notin {"provider", "replace"}
      BY <2>1 DEF OpOf, Approving, InService
    <2>3. task[caller].edits \in EditsFor(id)
      <3>1. EditMade(task[caller])
        BY <2>1, <2>2 DEF EditsMade
      <3>2. CASE task[caller].edits = NoEdits
        BY <3>2 DEF EditsFor
      <3>3. CASE task[caller].edits # NoEdits
        <4> DEFINE l == [tenant |-> task[caller].tenant,
                         draft |-> task[caller].draft,
                         edits |-> task[caller].edits]
        <4>1. /\ asked[id].tenant = task[caller].tenant
              /\ asked[id].resource = task[caller].draft
              /\ l \in applied
          BY <2>1, <2>2, <3>1, <3>3 DEF EditMade
        <4> QED
          BY <4>1 DEF EditsFor, Typed
      <3> QED
        BY <3>2, <3>3
    <2> QED
      BY <1>2, <1>3, <1>4, <2>3 DEF ViewOf
  <1>5. CASE p # Server
    <2>1. NoEdits \in EditsFor(id)
      BY DEF EditsFor
    <2> QED
      BY <1>2, <1>3, <1>5, <2>1 DEF ViewOf
  <1> QED
    BY <1>4, <1>5

LEMMA ViewsPreserved ==
    ASSUME ReviewInv, [FlowNext]_vars
    PROVE  ViewsAsked' /\ ApprovedTextWasApplied'
  <1> USE DEF ReviewInv, FInv
  <1>1. ASSUME NEW id \in ApprovalId, NEW v \in approvedViews'[id]
        PROVE  /\ asked[id] # NoRecord
               /\ \E e \in EditsFor(id) :
                     /\ v.subject = Replaced(asked[id].payload.subject, e.subject)
                     /\ v.body = Replaced(asked[id].payload.body, e.body)
    <2>1. CASE v \in approvedViews[id]
      BY <2>1 DEF ViewsAsked, ApprovedTextWasApplied, EditsFor
    <2>2. CASE v \notin approvedViews[id]
      <3>1. PICK p \in Proc :
               /\ call[p] # NoCall /\ call[p].pc = "write"
               /\ call[p].op = "approve" /\ call[p].id = id
               /\ v = ViewOf(p) /\ UNCHANGED <<asked, applied>>
        BY <1>1, <2>2, ViewSteps
      <3> QED
        BY <3>1, ViewOfRequest DEF EditsFor
    <2> QED
      BY <2>1, <2>2
  <1>2. /\ \A id \in ApprovalId : asked[id] # NoRecord => asked'[id] = asked[id]
        /\ FInv'
    BY AskedStays, FInvPreserved
  <1>3. ASSUME NEW id \in ApprovalId, asked[id] # NoRecord
        PROVE  EditsFor(id) \subseteq EditsFor(id)'
    BY <1>2, <1>3, EditsStay DEF EditsFor, Typed
  <1>4. ViewsAsked'
    BY <1>1, <1>2 DEF ViewsAsked, FlowTypes, FlowTypeOK
  <1>5. ApprovedTextWasApplied'
    <2> SUFFICES ASSUME NEW id \in ApprovalId, NEW v \in approvedViews'[id]
                 PROVE  \E e \in EditsFor(id)' :
                           /\ v.subject = Replaced(asked'[id].payload.subject,
                                                   e.subject)
                           /\ v.body = Replaced(asked'[id].payload.body, e.body)
      BY DEF ApprovedTextWasApplied, EditsFor
    <2> QED
      BY <1>1, <1>2, <1>3
  <1> QED
    BY <1>4, <1>5

LEMMA ReviewInvariance == FlowSpec => []ReviewInv
  <1>1. FlowInit => ReviewInv
    <2> SUFFICES ASSUME FlowInit
                 PROVE  /\ CopiesOK /\ EditsMade /\ ViewsAsked
                        /\ ApprovedTextWasApplied
      BY InitFInv DEF ReviewInv
    <2>1. CopiesOK
      BY DEF FlowInit, Init, CopiesOK
    <2>2. EditsMade
      BY DEF FlowInit, Approving, EditsMade
    <2> QED
      BY <2>1, <2>2 DEF FlowInit, ViewsAsked, ApprovedTextWasApplied
  <1>2. ReviewInv /\ [FlowNext]_vars => ReviewInv'
    BY FInvPreserved, CopiesPreserved, EditsPreserved, ViewsPreserved
       DEF ReviewInv
  <1> QED
    BY <1>1, <1>2, PTL DEF FlowSpec

(* Whatever a human approved was, edits included, in the draft before the  *)
(* approval was recorded.                                                  *)
THEOREM ApprovedTextIsApplied == FlowSpec => []ApprovedTextWasApplied
  BY ReviewInvariance, PTL DEF ReviewInv

----------------------------------------------------------------------------
(* What is sent, against what was shown and typed.  A draft somebody has   *)
(* asked approval for exists, and each field a reviewer could see holds    *)
(* what the request's preview shows, what was typed for it, or what an     *)
(* edit that undid others put back.                                        *)
Traced(shown, t, d) ==
    /\ mailbox[t][d] # NoDraft
    /\ mailbox[t][d] \in Content => From(Sources(shown, t, d), mailbox[t][d])

AskedTraced ==
    \A id \in ApprovalId :
        asked[id] # NoRecord =>
            Traced(asked[id].payload, asked[id].tenant, asked[id].resource)

ReadTraced ==
    \A q \in Req :
        At(q, "request_send_approval", "resume") =>
            Traced(Preview(task[q].content), task[q].tenant, task[q].draft)

(* The copy Gmail's update_draft holds is one its own reviewer could know, *)
(* and only an edit can have made it an old one.                           *)
CopyTraced ==
    \A q \in Req :
        At(q, "approve", "replace") =>
            LET t == task[q].tenant  d == task[q].draft  c == task[q].content IN
            /\ From(Sources(asked[task[q].id].payload, t, d), c)
            /\ mailbox[t][d] \in Content /\ mailbox[t][d] # c => Typed(t, d) # {}

(* Edits are undone at Gmail alone, and only where there are any.          *)
OverwrittenOK ==
    \A id \in overwritten :
        /\ asked[id] # NoRecord
        /\ asked[id].tenant \in Gmail
        /\ Typed(asked[id].tenant, asked[id].resource) # {}

ContentInv ==
    /\ SendInv /\ ReviewInv
    /\ AskedTraced /\ ReadTraced /\ CopyTraced /\ OverwrittenOK
    /\ SentFieldsReviewedOrTyped

LEMMA FromMore ==
    ASSUME NEW S, NEW T, S \subseteq T, NEW c, From(S, c)
    PROVE  From(T, c)
  BY DEF From

LEMMA FromEdited ==
    ASSUME NEW S, NEW c \in Content, NEW e \in Edit, e \in S, From(S, c)
    PROVE  From(S, Edited(c, e))
  <1>1. Edited(c, e).subject \in {c.subject, e.subject}
    BY DEF Edited, Replaced
  <1>2. Edited(c, e).body \in {c.body, e.body}
    BY DEF Edited, Replaced
  <1> QED
    BY <1>1, <1>2 DEF From

(* The sources of a draft's text after a step.                             *)
TypedNext(t, d) ==
    {l.edits : l \in {x \in applied' : x.tenant = t /\ x.draft = d}}

PutBackNext(t, d) ==
    {asked'[id].payload : id \in {x \in overwritten' :
                                     /\ asked'[x].tenant = t
                                     /\ asked'[x].resource = d}}

SourcesNext(shown, t, d) == {shown} \cup TypedNext(t, d) \cup PutBackNext(t, d)

LEMMA SourcesGrow ==
    ASSUME FInv, OverwrittenOK, [FlowNext]_vars, NEW shown, NEW t, NEW d
    PROVE  Sources(shown, t, d) \subseteq SourcesNext(shown, t, d)
  <1>1. Typed(t, d) \subseteq TypedNext(t, d)
    BY EditsStay DEF Typed, TypedNext
  <1>2. PutBack(t, d) \subseteq PutBackNext(t, d)
    <2> SUFFICES ASSUME NEW id \in overwritten, asked[id].tenant = t,
                        asked[id].resource = d
                 PROVE  asked[id].payload \in PutBackNext(t, d)
      BY DEF PutBack
    <2>1. id \in ApprovalId /\ asked[id] # NoRecord
      BY DEF OverwrittenOK, FInv, FlowTypes, FlowTypeOK
    <2>2. asked'[id] = asked[id] /\ id \in overwritten'
      BY <2>1, AskedStays, EditsStay
    <2> QED
      BY <2>2 DEF PutBackNext
  <1> QED
    BY <1>1, <1>2 DEF Sources, SourcesNext

(* The request whose card's edits are being made has been asked for the    *)
(* draft they are made to.                                                 *)
LEMMA EditedIsAsked ==
    ASSUME ReviewInv, NEW q \in Req,
           At(q, "approve", "provider") \/ At(q, "approve", "replace")
    PROVE  /\ task[q] \in GoodTask /\ task[q].id \in ApprovalId
           /\ task[q].tenant \in Tenant /\ task[q].draft \in Resource
           /\ asked[task[q].id] # NoRecord
           /\ asked[task[q].id].tenant = task[q].tenant
           /\ asked[task[q].id].resource = task[q].draft
  <1>1. task[q] \in GoodTask /\ task[q].edits # NoEdits /\ Approving(task[q])
    BY DEF ReviewInv, FInv, FlowTypes, At, GoodTask, Approving
  <1>2. EditMade(task[q])
    BY <1>1 DEF ReviewInv, EditsMade
  <1>3. task[q].tenant \in Tenant /\ task[q].draft \in Resource
    BY <1>1 DEF At, GoodTask, Task, Awaited
  <1> QED
    BY <1>1, <1>2, <1>3 DEF EditMade, At, GoodTask

LEMMA TracedKept ==
    ASSUME ContentInv, [FlowNext]_vars, NEW t \in Tenant, NEW d \in Resource,
           NEW shown, Traced(shown, t, d)
    PROVE  /\ mailbox'[t][d] # NoDraft
           /\ mailbox'[t][d] \in Content =>
                 From(SourcesNext(shown, t, d), mailbox'[t][d])
  <1> USE DEF ContentInv, ReviewInv
  <1>1. Sources(shown, t, d) \subseteq SourcesNext(shown, t, d)
    BY SourcesGrow
  <1>2. CASE mailbox'[t][d] = mailbox[t][d]
    BY <1>1, <1>2, FromMore DEF Traced
  <1>3. CASE mailbox'[t][d] = SentDraft
    BY <1>3, DraftAssumption
  <1>4. ASSUME NEW e \in Edit, NEW c \in Content,
               mailbox'[t][d] = Edited(c, e),
               [tenant |-> t, draft |-> d, edits |-> e] \in applied',
               mailbox[t][d] \in Content,
               \/ c = mailbox[t][d]
               \/ \E q \in Req : /\ Replacing(q, t, d, c)
                                 /\ task[q].id \in overwritten'
        PROVE  /\ mailbox'[t][d] # NoDraft
               /\ From(SourcesNext(shown, t, d), mailbox'[t][d])
    <2> DEFINE l == [tenant |-> t, draft |-> d, edits |-> e]
    <2>1. e \in SourcesNext(shown, t, d)
      <3>1. l \in applied' /\ l.tenant = t /\ l.draft = d /\ l.edits = e
        BY <1>4
      <3> HIDE DEF l
      <3> QED
        BY <3>1 DEF SourcesNext, TypedNext
    <2>2. From(SourcesNext(shown, t, d), c)
      <3>1. CASE c = mailbox[t][d]
        BY <1>1, <1>4, <3>1, FromMore DEF Traced
      <3>2. ASSUME NEW q \in Req, Replacing(q, t, d, c),
                   task[q].id \in overwritten'
            PROVE  From(SourcesNext(shown, t, d), c)
        <4> DEFINE id == task[q].id  other == asked[id].payload
        <4>1. /\ id \in ApprovalId /\ asked[id] # NoRecord
              /\ asked[id].tenant = t /\ asked[id].resource = d
              /\ From(Sources(other, t, d), c)
          BY <3>2, EditedIsAsked DEF Replacing, CopyTraced
        <4>2. asked'[id] = asked[id]
          BY <4>1, AskedStays
        <4>3. other \in PutBackNext(t, d)
          BY <3>2, <4>1, <4>2 DEF PutBackNext
        <4> HIDE DEF other, id
        <4>4. Sources(other, t, d) \subseteq SourcesNext(other, t, d)
          BY SourcesGrow
        <4>5. SourcesNext(other, t, d) \subseteq SourcesNext(shown, t, d)
          BY <4>3 DEF SourcesNext
        <4>6. Sources(other, t, d) \subseteq SourcesNext(shown, t, d)
          BY <4>4, <4>5
        <4> QED
          BY <4>1, <4>6, FromMore
      <3> QED
        BY <1>4, <3>1, <3>2
    <2>3. From(SourcesNext(shown, t, d), Edited(c, e))
      BY <2>1, <2>2, FromEdited
    <2>4. mailbox'[t][d] # NoDraft
      BY <1>4, EditedTypes, DraftAssumption
    <2> QED
      BY <1>4, <2>3, <2>4
  <1> QED
    BY <1>2, <1>3, <1>4, DraftSteps DEF Traced

(* A copy of a draft that is about to be replaced was taken before, or is  *)
(* taken in this step.                                                     *)
LEMMA CopySteps ==
    ASSUME ReviewInv, [FlowNext]_vars, NEW q \in Req,
           At(q, "approve", "replace")'
    PROVE  \/ At(q, "approve", "replace") /\ task'[q] = task[q]
           \/ /\ At(q, "approve", "provider")
              /\ task'[q].id = task[q].id /\ task'[q].tenant = task[q].tenant
              /\ task'[q].draft = task[q].draft
              /\ task'[q].content = mailbox[task[q].tenant][task[q].draft]
              /\ task'[q].content \in Content
              /\ UNCHANGED <<mailbox, applied, overwritten, asked>>
  <1> USE DEF ReviewInv, FInv, FlowTypes
  <1>1. /\ task'[q] \in GoodTask \cup {NoTask} /\ task'[q] # NoTask
        /\ task'[q].kind = "approve" /\ task'[q].pc = "replace"
    BY FInvPreserved DEF At
  <1>2. Approving(task'[q]) /\ task'[q].edits # NoEdits
    BY <1>1 DEF Approving, GoodTask
  <1>3. CASE Approving(task[q]) /\ task'[q] = task[q]
    BY <1>1, <1>3 DEF At
  <1>4. ~(ProviderUpdates(q) \/ ProviderReplaces(q))
    <2>1. SUFFICES ASSUME ProviderUpdates(q) \/ ProviderReplaces(q)
                   PROVE  FALSE
      OBVIOUS
    <2>2. task[q] \in GoodTask
      BY <2>1, TaskAssumption DEF ProviderUpdates, ProviderReplaces, At
    <2>3. task'[q] = NoTask \/ task'[q] = [task[q] EXCEPT !.pc = "resume"]
      BY <2>1 DEF ProviderUpdates, ProviderReplaces, Become, End
    <2> QED
      BY <1>1, <2>2, <2>3 DEF GoodTask, Task
  <1>5. ~(FoundToEdit(q) \/ DecideEdited(q))
    <2>1. SUFFICES ASSUME FoundToEdit(q) \/ DecideEdited(q)
                   PROVE  FALSE
      OBVIOUS
    <2>2. task[q] \in GoodTask
      BY <2>1, TaskAssumption DEF FoundToEdit, DecideEdited, At
    <2>3. \/ task'[q] = [task[q] EXCEPT !.pc = "provider",
                                        !.draft = call[Server].req.resource]
          \/ task'[q] = [task[q] EXCEPT !.pc = "service"]
      BY <2>1 DEF FoundToEdit, DecideEdited, Become
    <2> QED
      BY <1>1, <2>2, <2>3 DEF GoodTask, Task
  <1>6. CASE ProviderCopies(q)
    <2> DEFINE c == mailbox[task[q].tenant][task[q].draft]
    <2>1. /\ At(q, "approve", "provider") /\ c \in Content
          /\ task'[q] = [task[q] EXCEPT !.pc = "replace", !.content = c]
          /\ UNCHANGED <<mailbox, applied, overwritten, asked>>
      BY <1>6 DEF ProviderCopies, Become, serviceVars
    <2>2. task[q] \in GoodTask
      BY <2>1, TaskAssumption DEF At
    <2> HIDE DEF c
    <2>3. /\ task'[q].id = task[q].id /\ task'[q].tenant = task[q].tenant
          /\ task'[q].draft = task[q].draft /\ task'[q].content = c
      BY <2>1, <2>2 DEF GoodTask, Task
    <2> QED
      BY <2>1, <2>3 DEF c
  <1> QED
    BY <1>2, <1>3, <1>4, <1>5, <1>6, ApprovingSteps

(* A new request is the one a coroutine has read the draft for.            *)
LEMMA AskedSteps ==
    ASSUME FInv, [FlowNext]_vars, NEW id \in ApprovalId, asked'[id] # NoRecord
    PROVE  \/ asked[id] # NoRecord /\ asked'[id] = asked[id]
           \/ \E q \in Req :
                 /\ At(q, "request_send_approval", "resume")
                 /\ asked'[id].payload = Preview(task[q].content)
                 /\ asked'[id].tenant = task[q].tenant
                 /\ asked'[id].resource = task[q].draft
  <1>1. CASE asked[id] # NoRecord
    BY <1>1, AskedStays
  <1>2. ASSUME NEW q \in Req, NEW j \in ApprovalId, SaveRequest(q, j),
               asked[id] = NoRecord
        PROVE  /\ At(q, "request_send_approval", "resume")
               /\ asked'[id].payload = Preview(task[q].content)
               /\ asked'[id].tenant = task[q].tenant
               /\ asked'[id].resource = task[q].draft
    <2> DEFINE new == NewRequest(task[q].tenant, task[q].draft,
                                 Preview(task[q].content), now)
    <2>1. asked' = [asked EXCEPT ![j] = new]
      BY <1>2 DEF SaveRequest, RequestApproval, Save
    <2>2. j = id /\ asked'[id] = new
      BY <1>2, <2>1 DEF FInv, IInv, TypeOK, Stores
    <2> QED
      BY <1>2, <2>2 DEF SaveRequest, NewRequest
  <1>3. CASE asked' = asked
    BY <1>1, <1>3
  <1>4. ASSUME NEW q \in Req, Arrival(q) \/ Finish(q)
        PROVE  asked' = asked
    BY <1>4 DEF Arrival, CreateDraft, RequestSendApproval, SendEmail, Enter,
                Get, GetFails, DecideFromChannel, ApproveWithEdits,
                GetApprovalStatus, Finish, SendDenied, SendGranted,
                NothingToEdit, FoundToEdit, Answer, Leave, Return, serviceVars
  <1>5. ASSUME NEW q \in Req, Provider(q)
        PROVE  asked' = asked
    BY <1>5 DEF Provider, ProviderCreates, ProviderReads, ProviderSends,
                ProviderUpdates, ProviderCopies, ProviderReplaces,
                ProviderFails, serviceVars
  <1>6. ASSUME NEW q \in Req, Resume(q), \A j \in ApprovalId : ~SaveRequest(q, j)
        PROVE  asked' = asked
    BY <1>6 DEF Resume, RecordCreated, SaveFails, RecordSent, DecideEdited,
                Enter, Get, GetFails, serviceVars
  <1>7. CASE ServerStep \/ ServerCrash \/ Clock \/ UNCHANGED vars
    <2>1. CASE ServerStep
      BY <2>1 DEF ServerStep, ResolveFresh, ResolveExpired
    <2>2. CASE ServerCrash
      BY <2>2 DEF ServerCrash, Crash, CrashInUpdate, CrashInSave, serviceVars
    <2>3. CASE Clock \/ UNCHANGED vars
      BY <2>3 DEF Clock, Tick, vars, serviceVars
    <2> QED
      BY <1>3, <1>7, <2>1, <2>2, <2>3
  <1>8. ASSUME NEW p \in Proc, WriteStep(p)
        PROVE  asked' = asked
    BY <1>8 DEF WriteStep, Write
  <1>9. ASSUME NEW p \in Cli, CliStep(p)
        PROVE  asked' = asked
    BY <1>9 DEF CliStep, Get, GetFails, ResolveFresh, ResolveExpired, Return,
                Crash, CrashInUpdate
  <1>10. Server \in Proc /\ Cli \subseteq Proc
    BY DEF Proc
  <1> QED
    BY <1>1, <1>2, <1>3, <1>4, <1>5, <1>6, <1>7, <1>8, <1>9, <1>10
       DEF FlowNext

(* A coroutine that has read a draft for a request had read it before, or  *)
(* reads it in this step.                                                  *)
LEMMA ReadSteps ==
    ASSUME FInv, [FlowNext]_vars, NEW q \in Req,
           At(q, "request_send_approval", "resume")'
    PROVE  \/ At(q, "request_send_approval", "resume") /\ task'[q] = task[q]
           \/ /\ task'[q].tenant \in Tenant /\ task'[q].draft \in Resource
              /\ UNCHANGED <<mailbox, applied, overwritten>>
              /\ mailbox[task'[q].tenant][task'[q].draft] \in Content
              /\ task'[q].content = mailbox[task'[q].tenant][task'[q].draft]
  <1> USE DEF FInv, FlowTypes
  <1>1. CASE task'[q] = task[q]
    BY <1>1 DEF At
  <1>2. ASSUME NEW r \in Req, NEW k, Become(r, k),
               k = NoTask \/ k.kind # "request_send_approval" \/ k.pc # "resume"
        PROVE  task'[q] = task[q]
    BY <1>2 DEF Become, At
  <1>3. ASSUME NEW r \in Req, Arrival(r)
        PROVE  task'[q] = task[q]
    <2>1. ASSUME NEW t \in Tenant,
                 \/ \E c \in Written : CreateDraft(r, t, c)
                 \/ \E d \in Resource : RequestSendApproval(r, t, d)
          PROVE  task'[q] = task[q]
      BY <1>2, <2>1 DEF CreateDraft, RequestSendApproval, New
    <2>2. ASSUME NEW t \in Tenant, NEW id \in ApprovalId,
                 \/ \E d \in Resource : SendEmail(r, t, d, id)
                 \/ \E kind \in {"approve", "reject"} :
                       DecideFromChannel(r, kind, t, id)
                 \/ \E e \in CardEdits : ApproveWithEdits(r, t, id, e)
                 \/ GetApprovalStatus(r, t, id)
          PROVE  task'[q] = task[q]
      BY <1>2, <2>2 DEF SendEmail, DecideFromChannel, ApproveWithEdits,
                        GetApprovalStatus, New
    <2> QED
      BY <1>3, <2>1, <2>2 DEF Arrival
  <1>4. ASSUME NEW r \in Req, ProviderReads(r)
        PROVE  \/ task'[q] = task[q]
               \/ /\ task'[q].tenant \in Tenant /\ task'[q].draft \in Resource
                  /\ UNCHANGED <<mailbox, applied, overwritten>>
                  /\ mailbox[task'[q].tenant][task'[q].draft] \in Content
                  /\ task'[q].content = mailbox[task'[q].tenant][task'[q].draft]
    <2>1. task[r] \in GoodTask /\ task[r].kind = "request_send_approval"
      BY <1>4, TaskAssumption DEF ProviderReads, At
    <2>2. CASE r = q
      <3> DEFINE c == mailbox[task[q].tenant][task[q].draft]
      <3>1. /\ task'[q] = [task[q] EXCEPT !.pc = "resume", !.content = c]
            /\ c \in Content /\ UNCHANGED <<mailbox, applied, overwritten>>
        BY <1>4, <2>2 DEF ProviderReads, Become
      <3>2. task[q].tenant \in Tenant /\ task[q].draft \in Resource
        BY <2>1, <2>2 DEF GoodTask, Task
      <3> HIDE DEF c
      <3>3. /\ task'[q].tenant = task[q].tenant /\ task'[q].draft = task[q].draft
            /\ task'[q].content = c
        BY <2>1, <2>2, <3>1 DEF GoodTask, Task
      <3> QED
        BY <3>1, <3>2, <3>3 DEF c
    <2>3. CASE r # q
      BY <1>4, <2>3 DEF ProviderReads, Become
    <2> QED
      BY <2>2, <2>3
  <1>5. ASSUME NEW r \in Req, Provider(r) \/ Resume(r) \/ Finish(r),
               ~ProviderReads(r)
        PROVE  task'[q] = task[q]
    <2>1. \A x \in Req \ {r} : task'[x] = task[x]
      BY <1>5 DEF Provider, ProviderCreates, ProviderSends, ProviderUpdates,
                  ProviderCopies, ProviderReplaces, ProviderFails, Resume,
                  RecordCreated, SaveFails, RecordSent, DecideEdited,
                  SaveRequest, Finish, SendDenied, SendGranted, NothingToEdit,
                  FoundToEdit, Answer, Become, End
    <2>2. task'[r] = NoTask \/ task'[r].kind # "request_send_approval"
      <3>1. CASE End(r)
        BY <3>1 DEF End, Become
      <3>2. CASE ~End(r)
        <4>1. task[r] \in GoodTask /\ task[r].kind # "request_send_approval"
          BY <1>5, <3>2, TaskAssumption
             DEF Provider, ProviderCreates, ProviderSends, ProviderUpdates,
                 ProviderCopies, ProviderReplaces, ProviderFails, Resume,
                 RecordCreated, SaveFails, RecordSent, DecideEdited,
                 SaveRequest, Finish, SendDenied, SendGranted, NothingToEdit,
                 FoundToEdit, Answer, At
        <4>2. \/ \E d : task'[r] = [task[r] EXCEPT !.pc = "resume", !.draft = d]
              \/ \E pc : task'[r] = [task[r] EXCEPT !.pc = pc]
              \/ \E d : task'[r] = [task[r] EXCEPT !.pc = "provider", !.draft = d]
              \/ \E c : task'[r] = [task[r] EXCEPT !.pc = "replace", !.content = c]
          BY <1>5, <3>2
             DEF Provider, ProviderCreates, ProviderSends, ProviderUpdates,
                 ProviderCopies, ProviderReplaces, ProviderFails, Resume,
                 RecordCreated, SaveFails, RecordSent, DecideEdited,
                 SaveRequest, Finish, SendDenied, SendGranted, NothingToEdit,
                 FoundToEdit, Answer, Become
        <4> QED
          BY <4>1, <4>2 DEF GoodTask, Task
      <3> QED
        BY <3>1, <3>2
    <2> QED
      BY <2>1, <2>2 DEF At
  <1>6. CASE ServerCrash
    BY <1>6 DEF ServerCrash, At
  <1>7. CASE UNCHANGED task
    BY <1>1, <1>7
  <1> QED
    BY <1>1, <1>3, <1>4, <1>5, <1>6, <1>7
       DEF FlowNext, ServerStep, WriteStep, CliStep, Clock, flowVars, vars

LEMMA OverwrittenPreserved ==
    ASSUME ContentInv, [FlowNext]_vars
    PROVE  OverwrittenOK'
  <1> USE DEF ContentInv, ReviewInv
  <1> SUFFICES ASSUME NEW id \in overwritten'
               PROVE  /\ asked'[id] # NoRecord
                      /\ asked'[id].tenant \in Gmail
                      /\ TypedNext(asked'[id].tenant, asked'[id].resource) # {}
    BY DEF OverwrittenOK, Typed, TypedNext
  <1>1. /\ id \in ApprovalId /\ asked[id] # NoRecord
        /\ asked[id].tenant \in Gmail
        /\ Typed(asked[id].tenant, asked[id].resource) # {}
    <2>1. CASE id \in overwritten
      BY <2>1 DEF OverwrittenOK, FInv, FlowTypes, FlowTypeOK
    <2>2. CASE id \notin overwritten
      <3>1. PICK q \in Req :
              /\ ProviderReplaces(q) /\ id = task[q].id
              /\ mailbox[task[q].tenant][task[q].draft] # task[q].content
        BY <2>2, OverwritingSteps
      <3>2. /\ At(q, "approve", "replace")
            /\ mailbox[task[q].tenant][task[q].draft] \in Content
        BY <3>1 DEF ProviderReplaces
      <3>3. task[q].tenant \in Gmail
        BY <3>2, EditedIsAsked DEF At, GoodTask
      <3> QED
        BY <3>1, <3>2, <3>3, EditedIsAsked DEF CopyTraced
    <2> QED
      BY <2>1, <2>2
  <1>2. asked'[id] = asked[id]
    BY <1>1, AskedStays
  <1> QED
    BY <1>1, <1>2, EditsStay DEF Typed, TypedNext

LEMMA CopyPreserved ==
    ASSUME ContentInv, [FlowNext]_vars
    PROVE  CopyTraced'
  <1> USE DEF ContentInv, ReviewInv
  <1> SUFFICES ASSUME NEW q \in Req, At(q, "approve", "replace")'
               PROVE  LET t == task'[q].tenant  d == task'[q].draft
                          c == task'[q].content IN
                      /\ From(SourcesNext(asked'[task'[q].id].payload, t, d), c)
                      /\ mailbox'[t][d] \in Content /\ mailbox'[t][d] # c
                            => TypedNext(t, d) # {}
    BY DEF CopyTraced, Sources, Typed, PutBack, SourcesNext, TypedNext,
           PutBackNext
  <1> DEFINE t == task[q].tenant  d == task[q].draft  id == task[q].id
             shown == asked[id].payload
  <1>1. CASE At(q, "approve", "replace") /\ task'[q] = task[q]
    <2> DEFINE c == task[q].content
    <2>1. /\ t \in Tenant /\ d \in Resource /\ id \in ApprovalId
          /\ asked[id] # NoRecord
          /\ asked[id].tenant = t /\ asked[id].resource = d
      BY <1>1, EditedIsAsked
    <2>2. asked'[id] = asked[id]
      BY <2>1, AskedStays
    <2>3. /\ From(Sources(shown, t, d), c)
          /\ mailbox[t][d] \in Content /\ mailbox[t][d] # c => Typed(t, d) # {}
      BY <1>1 DEF CopyTraced
    <2>4. mailbox[t][d] # NoDraft
      BY <2>1 DEF AskedTraced, Traced
    <2> HIDE DEF t, d, id, shown, c
    <2>5. From(SourcesNext(shown, t, d), c)
      BY <2>3, SourcesGrow, FromMore
    <2>6. Typed(t, d) \subseteq TypedNext(t, d)
      BY EditsStay DEF Typed, TypedNext
    <2>7. ASSUME mailbox'[t][d] \in Content, mailbox'[t][d] # c
          PROVE  TypedNext(t, d) # {}
      <3>1. CASE mailbox'[t][d] = mailbox[t][d]
        BY <2>3, <2>6, <2>7, <3>1
      <3>2. mailbox'[t][d] # SentDraft
        BY <2>7, DraftAssumption
      <3>3. ASSUME NEW e \in Edit,
                   [tenant |-> t, draft |-> d, edits |-> e] \in applied'
            PROVE  TypedNext(t, d) # {}
        BY <3>3 DEF TypedNext
      <3> QED
        BY <2>1, <2>4, <3>1, <3>2, <3>3, DraftSteps
    <2> QED
      BY <1>1, <2>2, <2>5, <2>7 DEF t, d, id, shown, c
  <1>2. CASE /\ At(q, "approve", "provider")
             /\ task'[q].id = id /\ task'[q].tenant = t /\ task'[q].draft = d
             /\ task'[q].content = mailbox[t][d]
             /\ task'[q].content \in Content
             /\ UNCHANGED <<mailbox, applied, overwritten, asked>>
    <2>1. /\ id \in ApprovalId /\ asked[id] # NoRecord
          /\ asked[id].tenant = t /\ asked[id].resource = d
      BY <1>2, EditedIsAsked
    <2>2. From(Sources(shown, t, d), mailbox[t][d])
      BY <1>2, <2>1 DEF AskedTraced, Traced
    <2> HIDE DEF t, d, id, shown
    <2>3. From(SourcesNext(shown, t, d), mailbox[t][d])
      BY <2>2, SourcesGrow, FromMore
    <2> QED
      BY <1>2, <2>3 DEF t, d, id, shown
  <1> QED
    BY <1>1, <1>2, CopySteps

LEMMA ContentPreserved ==
    ASSUME ContentInv, [FlowNext]_vars
    PROVE  AskedTraced' /\ ReadTraced' /\ SentFieldsReviewedOrTyped'
  <1> USE DEF ContentInv, SendInv
  <1>0. /\ FInv' /\ SentOnlyWhatWasAsked'
        /\ \A id \in ApprovalId : asked[id] # NoRecord => asked'[id] = asked[id]
    BY FInvPreserved, SendsPreserved, AskedStays
  <1>1. AskedTraced'
    <2> SUFFICES ASSUME NEW id \in ApprovalId, asked'[id] # NoRecord
                 PROVE  Traced(asked[id].payload, asked[id].tenant,
                               asked[id].resource)'
      BY DEF AskedTraced
    <2> DEFINE t == asked'[id].tenant
               d == asked'[id].resource
               shown == asked'[id].payload
    <2>1. t \in Tenant /\ d \in Resource
      BY <1>0 DEF FInv, IInv, TypeOK, Stores, ApprovalRequest
    <2>2. Traced(shown, t, d)
      BY AskedSteps DEF AskedTraced, ReadTraced
    <2> HIDE DEF t, d, shown
    <2>3. /\ mailbox'[t][d] # NoDraft
          /\ mailbox'[t][d] \in Content =>
                From(SourcesNext(shown, t, d), mailbox'[t][d])
      BY <2>1, <2>2, TracedKept
    <2> QED
      BY <2>3 DEF Traced, Sources, Typed, PutBack, SourcesNext, TypedNext,
                  PutBackNext, t, d, shown
  <1>2. ReadTraced'
    <2> SUFFICES ASSUME NEW q \in Req, At(q, "request_send_approval", "resume")'
                 PROVE  Traced(Preview(task[q].content), task[q].tenant,
                               task[q].draft)'
      BY DEF ReadTraced
    <2> DEFINE t == task'[q].tenant
               d == task'[q].draft
               shown == Preview(task'[q].content)
    <2>1. CASE At(q, "request_send_approval", "resume") /\ task'[q] = task[q]
      <3>1. task[q] \in GoodTask
        BY <2>1, TaskAssumption DEF At, FInv, FlowTypes
      <3>2. t \in Tenant /\ d \in Resource /\ Traced(shown, t, d)
        BY <2>1, <3>1 DEF ReadTraced, At, GoodTask, Task
      <3> HIDE DEF t, d, shown
      <3>3. /\ mailbox'[t][d] # NoDraft
            /\ mailbox'[t][d] \in Content =>
                  From(SourcesNext(shown, t, d), mailbox'[t][d])
        BY <3>2, TracedKept
      <3> QED
        BY <3>3 DEF Traced, Sources, Typed, PutBack, SourcesNext, TypedNext,
                    PutBackNext, t, d, shown
    <2>2. CASE /\ t \in Tenant /\ d \in Resource
               /\ UNCHANGED <<mailbox, applied, overwritten>>
               /\ mailbox[t][d] \in Content
               /\ task'[q].content = mailbox[t][d]
      <3>1. mailbox'[t][d] # NoDraft
        BY <2>2, DraftAssumption
      <3>2. /\ shown.subject = mailbox'[t][d].subject
            /\ shown.body = mailbox'[t][d].body
        BY <2>2 DEF Preview
      <3>3. From(SourcesNext(shown, t, d), mailbox'[t][d])
        <4> HIDE DEF shown
        <4> QED
          BY <3>2 DEF From, SourcesNext
      <3> QED
        BY <3>1, <3>3 DEF Traced, Sources, Typed, PutBack, SourcesNext,
                          TypedNext, PutBackNext
    <2> QED
      BY <2>1, <2>2, ReadSteps
  <1>3. SentFieldsReviewedOrTyped'
    <2> SUFFICES ASSUME NEW m \in sent'
                 PROVE  From(SourcesNext(asked'[m.id].payload, m.tenant, m.draft),
                             m.content)
      BY DEF SentFieldsReviewedOrTyped, Sources, Typed, PutBack, SourcesNext,
             TypedNext, PutBackNext
    <2>1. m \in Message
      BY <1>0 DEF FInv, FlowTypes, FlowTypeOK
    <2> DEFINE t == m.tenant  d == m.draft  shown == asked[m.id].payload
    <2>2. t \in Tenant /\ d \in Resource /\ m.id \in ApprovalId
      BY <2>1 DEF Message
    <2>3. ASSUME asked'[m.id] = asked[m.id],
                 From(Sources(shown, t, d), m.content)
          PROVE  From(SourcesNext(asked'[m.id].payload, t, d), m.content)
      <3> HIDE DEF shown, t, d
      <3>1. From(SourcesNext(shown, t, d), m.content)
        BY <2>3, SourcesGrow, FromMore
      <3> QED
        BY <2>3, <3>1 DEF shown
    <2>4. CASE m \in sent
      <3>1. asked'[m.id] = asked[m.id]
        BY <1>0, <2>2, <2>4 DEF SentOnlyWhatWasAsked
      <3>2. From(Sources(shown, t, d), m.content)
        BY <2>4 DEF SentFieldsReviewedOrTyped
      <3> QED
        BY <2>3, <3>1, <3>2
    <2>5. ASSUME NEW q \in Req, ProviderSends(q), m \notin sent
          PROVE  From(SourcesNext(asked'[m.id].payload, t, d), m.content)
      <3>1. /\ m.id = task[q].id /\ t = task[q].tenant /\ d = task[q].draft
            /\ m.content = mailbox[t][d]
            /\ m.content \in Content
            /\ task[q] # NoTask /\ task[q].kind = "send_email"
            /\ task[q].pc = "provider" /\ UNCHANGED asked
        BY <2>5 DEF ProviderSends, At, serviceVars
      <3>2. /\ asked[m.id] # NoRecord /\ asked[m.id].tenant = t
            /\ asked[m.id].resource = d
        BY <3>1 DEF SendOK, Awaited
      <3>3. From(Sources(shown, t, d), m.content)
        BY <2>2, <3>1, <3>2 DEF AskedTraced, Traced
      <3> QED
        BY <2>3, <3>1, <3>3
    <2>6. CASE sent' = sent
      BY <2>4, <2>6
    <2>7. CASE \A q \in Req : ~ProviderSends(q)
      <3>1. ASSUME NEW q \in Req, SendGranted(q) \/ RecordSent(q)
            PROVE  sent' = sent
        BY <3>1 DEF SendGranted, RecordSent
      <3> QED
        BY <2>6, <2>7, <3>1, OtherSteps
    <2> QED
      BY <2>4, <2>5, <2>7
  <1> QED
    BY <1>1, <1>2, <1>3

LEMMA ContentInvariance == FlowSpec => []ContentInv
  <1>1. FlowInit => AskedTraced /\ ReadTraced /\ CopyTraced /\ OverwrittenOK
                       /\ SentFieldsReviewedOrTyped
    <2> SUFFICES ASSUME FlowInit
                 PROVE  AskedTraced /\ ReadTraced /\ CopyTraced /\ OverwrittenOK
                           /\ SentFieldsReviewedOrTyped
      OBVIOUS
    <2>1. AskedTraced
      BY DEF FlowInit, Init, EmptyStore, AskedTraced
    <2>2. ReadTraced /\ CopyTraced
      BY DEF FlowInit, At, ReadTraced, CopyTraced
    <2> QED
      BY <2>1, <2>2 DEF FlowInit, OverwrittenOK, SentFieldsReviewedOrTyped
  <1>2. ContentInv /\ [FlowNext]_vars
          => AskedTraced' /\ ReadTraced' /\ CopyTraced' /\ OverwrittenOK'
               /\ SentFieldsReviewedOrTyped'
    BY ContentPreserved, CopyPreserved, OverwrittenPreserved
  <1> QED
    BY <1>1, <1>2, SendInvariance, ReviewInvariance, PTL
       DEF FlowSpec, ContentInv

(* Nothing leaves in a reviewed field but what was shown, typed, or, at    *)
(* Gmail, put back by the edits of a card that undid others.               *)
THEOREM FieldsReviewedOrTyped == FlowSpec => []SentFieldsReviewedOrTyped
  BY ContentInvariance, PTL DEF ContentInv

(* Without the exception, for the providers whose update_draft is one      *)
(* request.                                                                *)
ReviewedOrTypedOutsideGmail ==
    \A m \in sent :
        m.tenant \notin Gmail =>
            From({asked[m.id].payload} \cup Typed(m.tenant, m.draft), m.content)

COROLLARY NothingPutBackOutsideGmail ==
    FlowSpec => []ReviewedOrTypedOutsideGmail
  <1>1. ContentInv => ReviewedOrTypedOutsideGmail
    <2> SUFFICES ASSUME ContentInv, NEW m \in sent, m.tenant \notin Gmail
                 PROVE  From({asked[m.id].payload} \cup Typed(m.tenant, m.draft),
                             m.content)
      BY DEF ReviewedOrTypedOutsideGmail
    <2>1. PutBack(m.tenant, m.draft) = {}
      BY DEF ContentInv, OverwrittenOK, PutBack
    <2>2. From(Sources(asked[m.id].payload, m.tenant, m.draft), m.content)
      BY DEF ContentInv, SentFieldsReviewedOrTyped
    <2> QED
      BY <2>1, <2>2 DEF Sources
  <1> QED
    BY <1>1, ContentInvariance, PTL

----------------------------------------------------------------------------
(* The whole of it: the flow keeps the promise of SendPromise.             *)
Seen == <<asked, applied, overwritten, grants, approvedViews, delivered, sent>>

(* Five kinds of steps can be seen from outside.                           *)
LEMMA UnseenSteps ==
    ASSUME [FlowNext]_vars,
           \A q \in Req : ~ProviderSends(q) /\ ~ProviderUpdates(q)
                          /\ ~ProviderReplaces(q),
           \A q \in Req, id \in ApprovalId : ~SaveRequest(q, id),
           \A p \in Proc : ~WriteStep(p)
    PROVE  UNCHANGED Seen
  <1> USE DEF Seen
  <1>1. ASSUME NEW q \in Req, Arrival(q) \/ Finish(q)
        PROVE  UNCHANGED Seen
    BY <1>1 DEF Arrival, CreateDraft, RequestSendApproval, SendEmail, Enter,
                Get, GetFails, DecideFromChannel, ApproveWithEdits,
                GetApprovalStatus, Finish, SendDenied, SendGranted,
                NothingToEdit, FoundToEdit, Answer, Leave, Return, serviceVars
  <1>2. ASSUME NEW q \in Req, Provider(q) \/ Resume(q)
        PROVE  UNCHANGED Seen
    BY <1>2 DEF Provider, ProviderCreates, ProviderReads, ProviderCopies,
                ProviderFails, Resume, RecordCreated, SaveFails, RecordSent,
                DecideEdited, Enter, Get, GetFails, serviceVars
  <1>3. CASE ServerStep \/ ServerCrash \/ Clock \/ UNCHANGED vars
    BY <1>3 DEF ServerStep, ResolveFresh, ResolveExpired, ServerCrash, Crash,
                CrashInUpdate, CrashInSave, Clock, Tick, vars, serviceVars,
                flowVars
  <1>4. ASSUME NEW p \in Cli, CliStep(p)
        PROVE  UNCHANGED Seen
    BY <1>4 DEF CliStep, Get, GetFails, ResolveFresh, ResolveExpired, Return,
                Crash, CrashInUpdate, flowVars
  <1>5. Server \in Proc /\ Cli \subseteq Proc
    BY DEF Proc
  <1> QED
    BY <1>1, <1>2, <1>3, <1>4, <1>5 DEF FlowNext

(* The write of an approval counts it and keeps what was approved.         *)
LEMMA ApprovalSteps ==
    ASSUME FInv, NEW p \in Proc, WriteStep(p)
    PROVE  LET id == call[p].id IN
           \/ UNCHANGED Seen
           \/ /\ call[p] # NoCall /\ call[p].pc = "write"
              /\ call[p].op = "approve" /\ id \in ApprovalId
              /\ grants' = [grants EXCEPT ![id] = grants[id] + 1]
              /\ approvedViews' = [approvedViews EXCEPT
                    ![id] = approvedViews[id] \cup {ViewOf(p)}]
              /\ UNCHANGED <<asked, applied, overwritten, delivered, sent>>
  <1>1. UNCHANGED <<asked, applied, overwritten, delivered, sent>>
    BY DEF WriteStep, Write
  <1>2. CASE grants' = grants
    BY <1>1, <1>2 DEF WriteStep, Seen
  <1>3. CASE grants' # grants
    <2>1. /\ call[p] # NoCall /\ call[p].pc = "write" /\ call[p].op = "approve"
          /\ grants' = [grants EXCEPT ![call[p].id] = grants[call[p].id] + 1]
      BY <1>3 DEF WriteStep, Write
    <2>2. call[p].id \in ApprovalId
      BY <2>1 DEF FInv, IInv, TypeOK, Call
    <2> QED
      BY <1>1, <1>3, <2>1, <2>2 DEF WriteStep
  <1> QED
    BY <1>2, <1>3

LEMMA PromiseSteps ==
    ASSUME ContentInv, [FlowNext]_vars
    PROVE  [Promise!Next]_(Promise!promiseVars)
  <1> USE DEF ContentInv, ReviewInv, SendInv, FInv
  <1>0. /\ IInv /\ FlowTypes /\ asked \in Stores
    BY DEF IInv, TypeOK
  <1>1. ASSUME NEW q \in Req, NEW id \in ApprovalId, SaveRequest(q, id)
        PROVE  Promise!Next
    <2> DEFINE t == task[q].tenant  d == task[q].draft
               card == Preview(task[q].content)
               new == NewRequest(t, d, card, now)
    <2>1. /\ task[q] \in GoodTask /\ task[q].kind = "request_send_approval"
          /\ task[q].pc = "resume"
      BY <1>1, TaskAssumption DEF SaveRequest, At, FlowTypes
    <2>2. t \in Tenant /\ d \in Resource /\ card \in Promise!Card
      BY <2>1 DEF GoodTask, Task, Content, Preview, Promise!Card
    <2>3. card \in Payload
      BY <2>1, EditedTypes, NoEditsType DEF GoodTask
    <2>4. /\ asked[id] = NoRecord /\ asked' = [asked EXCEPT ![id] = new]
          /\ UNCHANGED <<grants, applied, overwritten, approvedViews, delivered,
                         sent>>
      BY <1>1 DEF SaveRequest, RequestApproval, Save
    <2>5. /\ new # NoRecord /\ new.tenant = t /\ new.resource = d
          /\ new.payload = card
      BY <2>2, <2>3, NewRequestType DEF IInv, TypeOK, NewRequest
    <2>6. /\ asked'[id] = new
          /\ \A j \in ApprovalId \ {id} : asked'[j] = asked[j]
      BY <1>0, <2>4 DEF Stores
    <2> HIDE DEF t, d, card, new
    <2>7. /\ {i \in ApprovalId : asked'[i] # NoRecord} =
                {i \in ApprovalId : asked[i] # NoRecord} \cup {id}
          /\ \A j \in ApprovalId : asked[j] # NoRecord => asked'[j] = asked[j]
      BY <2>4, <2>5, <2>6
    <2>8. Requests' = Requests \cup {[id |-> id, tenant |-> t, draft |-> d,
                                      shown |-> card]}
      BY <2>5, <2>6, <2>7 DEF Requests, Terms
    <2>9. \A r \in Requests : r.id # id
      BY <2>4 DEF Requests, Terms
    <2>10. Promise!Ask(id, t, d, card)
      BY <2>4, <2>8, <2>9 DEF Promise!Ask
    <2> QED
      BY <2>2, <2>10 DEF Promise!Next
  <1>2. ASSUME NEW q \in Req, ProviderUpdates(q)
        PROVE  Promise!Next
    <2> DEFINE t == task[q].tenant  d == task[q].draft  e == task[q].edits
    <2>1. /\ task[q] \in GoodTask /\ task[q].kind = "approve"
          /\ task[q].pc = "provider"
      BY <1>2, TaskAssumption DEF ProviderUpdates, At, FlowTypes
    <2>2. t \in Tenant /\ d \in Resource /\ e \in Promise!Edit
      BY <2>1 DEF GoodTask, Task, Awaited, Edit, Promise!Edit
    <2>3. /\ applied' = applied \cup {[tenant |-> t, draft |-> d, edits |-> e]}
          /\ UNCHANGED <<asked, grants, overwritten, approvedViews, delivered,
                         sent>>
      BY <1>2 DEF ProviderUpdates, serviceVars
    <2>4. Promise!Type(t, d, e)
      BY <2>3 DEF Promise!Type, Requests, Terms
    <2> QED
      BY <2>2, <2>4 DEF Promise!Next
  <1>3. ASSUME NEW p \in Proc, WriteStep(p), ~UNCHANGED Seen
        PROVE  Promise!Next
    <2> DEFINE id == call[p].id  r == Terms(id)
    <2>1. /\ call[p] # NoCall /\ call[p].pc = "write"
          /\ call[p].op = "approve" /\ id \in ApprovalId
          /\ grants' = [grants EXCEPT ![id] = grants[id] + 1]
          /\ approvedViews' = [approvedViews EXCEPT
                ![id] = approvedViews[id] \cup {ViewOf(p)}]
          /\ UNCHANGED <<asked, applied, overwritten, delivered, sent>>
      BY <1>3, ApprovalSteps
    <2>2. PICK e \in EditsFor(id) :
             ViewOf(p) =
                [subject |-> Replaced(asked[id].payload.subject, e.subject),
                 body |-> Replaced(asked[id].payload.body, e.body)]
      BY <2>1, ViewOfRequest
    <2>3. asked[id] # NoRecord
      BY <2>1, ViewOfRequest
    <2>4. /\ r \in Requests /\ r.id = id /\ r.tenant = asked[id].tenant
          /\ r.draft = asked[id].resource /\ r.shown = asked[id].payload
      BY <2>1, <2>3 DEF Requests, Terms
    <2> HIDE DEF r
    <2>5. /\ e \in {Promise!NoEdits} \cup Promise!TypedFor(r)
          /\ e \in Promise!Edit
      <3>1. e \in Edit
        BY <2>2, NoEditsType DEF EditsFor, Typed, FlowTypes, FlowTypeOK
      <3> QED
        BY <2>2, <2>4, <3>1
           DEF EditsFor, Typed, Promise!TypedFor, Promise!NoEdits, NoEdits,
               Edit, Promise!Edit
    <2>6. Requests' = Requests
      BY <2>1 DEF Requests, Terms
    <2>7. Promise!Approve(r, e)
      BY <2>1, <2>2, <2>4, <2>5, <2>6
         DEF Promise!Approve, Promise!With, Replaced
    <2> QED
      BY <2>4, <2>5, <2>7 DEF Promise!Next
  <1>4. ASSUME NEW q \in Req, ProviderSends(q)
        PROVE  Promise!Next
    <2> DEFINE t == task[q].tenant  d == task[q].draft  a == task[q].id
               c == mailbox[t][d]  r == Terms(a)
               m == [id |-> a, tenant |-> t, draft |-> d, content |-> c]
    <2>1. /\ task[q] # NoTask /\ task[q].kind = "send_email"
          /\ task[q].pc = "provider" /\ task[q] \in GoodTask
      BY <1>4, TaskAssumption DEF ProviderSends, At, FlowTypes
    <2>2. /\ a \in ApprovalId /\ asked[a] # NoRecord
          /\ asked[a].tenant = t /\ asked[a].resource = d
      BY <2>1 DEF GoodTask, SendOK, Awaited
    <2>3. /\ delivered' = [delivered EXCEPT ![a] = delivered[a] + 1]
          /\ sent' = sent \cup {m} /\ c \in Content
          /\ UNCHANGED <<asked, grants, applied, overwritten, approvedViews>>
      BY <1>4 DEF ProviderSends, serviceVars
    <2>4. delivered[a] < grants[a]
      <3>1. q \in InFlight(a) /\ InFlight(a) \in SUBSET Req
        BY <2>1 DEF InFlight
      <3>2. 0 + 1 <= Cardinality(InFlight(a))
        <4>1. {} \in SUBSET (InFlight(a) \ {q}) /\ Cardinality({}) = 0
          BY FS_EmptySet
        <4> QED
          BY <3>1, <4>1, OneOut
      <3>3. /\ delivered[a] + Cardinality(InFlight(a)) <= openings[a]
            /\ openings[a] <= grants[a]
        BY <2>2 DEF DeliveredWithinOpenings, IInv, GateWithinGrants
      <3>4. /\ delivered[a] \in Nat /\ openings[a] \in Nat /\ grants[a] \in Nat
            /\ Cardinality(InFlight(a)) \in Nat
        BY <2>2, <3>1, InFlightCount
           DEF IInv, TypeOK, FlowTypes, FlowTypeOK
      <3> QED
        BY <3>2, <3>3, <3>4
    <2>5. /\ r \in Requests /\ r.id = a /\ r.tenant = t
          /\ r.draft = d /\ r.shown = asked[a].payload
      BY <2>2 DEF Requests, Terms
    <2>6. LET texts == {r.shown} \cup Promise!TypedFor(r)
                         \cup Promise!ShownBefore(r)
          IN  /\ c.subject \in {x.subject : x \in texts}
              /\ c.body \in {x.body : x \in texts}
      <3>1. From(Sources(r.shown, t, d), c)
        BY <2>2, <2>3, <2>5 DEF AskedTraced, Traced
      <3>2. Typed(t, d) = Promise!TypedFor(r)
        BY <2>5 DEF Typed, Promise!TypedFor
      <3>3. PutBack(t, d) \subseteq Promise!ShownBefore(r)
        <4> SUFFICES ASSUME NEW x \in overwritten, asked[x].tenant = t,
                            asked[x].resource = d
                     PROVE  asked[x].payload \in Promise!ShownBefore(r)
          BY DEF PutBack
        <4>1. x \in ApprovalId /\ asked[x] # NoRecord
          BY DEF OverwrittenOK, FlowTypes, FlowTypeOK
        <4>2. /\ Terms(x) \in Requests /\ Terms(x).id = x
              /\ Terms(x).tenant = t /\ Terms(x).draft = d
              /\ Terms(x).shown = asked[x].payload
          BY <4>1 DEF Requests, Terms
        <4> QED
          BY <2>5, <4>2 DEF Promise!ShownBefore
      <3> HIDE DEF r, c, t, d
      <3> QED
        BY <3>1, <3>2, <3>3 DEF From, Sources
    <2>7. Requests' = Requests
      BY <2>3 DEF Requests, Terms
    <2> HIDE DEF r
    <2>8. Promise!Deliver(r, c)
      BY <2>3, <2>4, <2>5, <2>6, <2>7 DEF Promise!Deliver
    <2>9. c \in Promise!Draft
      BY <2>3 DEF Content, Promise!Draft
    <2> QED
      BY <2>5, <2>8, <2>9 DEF Promise!Next
  <1>5. ASSUME NEW q \in Req, ProviderReplaces(q)
        PROVE  Promise!Next
    <2> DEFINE t == task[q].tenant  d == task[q].draft  e == task[q].edits
               id == task[q].id  r == Terms(id)
    <2>1. /\ At(q, "approve", "replace") /\ mailbox[t][d] \in Content
          /\ applied' = applied \cup {[tenant |-> t, draft |-> d, edits |-> e]}
          /\ overwritten' = IF mailbox[t][d] = task[q].content
                            THEN overwritten ELSE overwritten \cup {id}
          /\ UNCHANGED <<asked, grants, approvedViews, delivered, sent>>
      BY <1>5 DEF ProviderReplaces, serviceVars
    <2>2. /\ task[q] \in GoodTask /\ id \in ApprovalId
          /\ t \in Tenant /\ d \in Resource /\ asked[id] # NoRecord
          /\ asked[id].tenant = t /\ asked[id].resource = d
      BY <2>1, EditedIsAsked
    <2>3. e \in Promise!Edit
      BY <2>2 DEF GoodTask, Task, Edit, Promise!Edit
    <2>4. Requests' = Requests
      BY <2>1 DEF Requests, Terms
    <2>5. CASE mailbox[t][d] = task[q].content
      <3>1. Promise!Type(t, d, e)
        BY <2>1, <2>4, <2>5 DEF Promise!Type
      <3> QED
        BY <2>2, <2>3, <3>1 DEF Promise!Next
    <2>6. CASE mailbox[t][d] # task[q].content
      <3>1. /\ r \in Requests /\ r.id = id /\ r.tenant = t /\ r.draft = d
        BY <2>2 DEF Requests, Terms
      <3>2. Typed(t, d) # {}
        BY <2>1, <2>6 DEF CopyTraced
      <3> HIDE DEF r
      <3>3. Promise!TypedFor(r) # {}
        BY <3>1, <3>2 DEF Typed, Promise!TypedFor
      <3>4. Promise!TypeOver(r, e)
        BY <2>1, <2>4, <2>6, <3>1, <3>3 DEF Promise!TypeOver
      <3> QED
        BY <2>3, <3>1, <3>4 DEF Promise!Next
    <2> QED
      BY <2>5, <2>6
  <1>6. UNCHANGED Seen => UNCHANGED Promise!promiseVars
    BY DEF Seen, Promise!promiseVars, Requests, Terms
  <1> QED
    BY <1>1, <1>2, <1>3, <1>4, <1>5, <1>6, UnseenSteps

(* Run KeepsPromise for any size: what leaves the server under an approval *)
(* is what its promise allows, whatever coroutines, processes, providers,  *)
(* expiry and crashes do.                                                  *)
THEOREM FlowKeepsPromise == FlowSpec => KeepsPromise
  <1>1. FlowInit => Promise!Init
    BY DEF FlowInit, Init, EmptyStore, Requests, Promise!Init
  <1>2. ContentInv /\ [FlowNext]_vars
          => [Promise!Next]_(Promise!promiseVars)
    BY PromiseSteps
  <1> QED
    BY <1>1, <1>2, ContentInvariance, PTL
       DEF FlowSpec, KeepsPromise, Promise!Spec

----------------------------------------------------------------------------
(* Where "whatever the human approved is still exactly what gets sent" of  *)
(* ports/email_provider.py holds: for a draft nobody has edited on a card. *)
Unedited(m) ==
    \A l \in applied : l.tenant # m.tenant \/ l.draft # m.draft

UneditedSentAsApproved ==
    \A m \in sent :
        Unedited(m) => Preview(m.content) \in approvedViews[m.id]

(* An approval that counts has been seen by somebody, and a message that   *)
(* left has been counted.                                                  *)
GrantsSeen ==
    \A id \in ApprovalId : grants[id] > 0 => approvedViews[id] # {}

SentCounted == \A m \in sent : delivered[m.id] > 0

LEMMA SeenPreserved ==
    ASSUME FInv, GrantsSeen, SentCounted, [FlowNext]_vars
    PROVE  GrantsSeen' /\ SentCounted'
  <1> USE DEF FInv, IInv, TypeOK, FlowTypes, FlowTypeOK
  <1>1. CASE UNCHANGED <<grants, approvedViews, delivered, sent>>
    BY <1>1 DEF GrantsSeen, SentCounted
  <1>2. ASSUME NEW p \in Proc, WriteStep(p), ~UNCHANGED Seen
        PROVE  GrantsSeen' /\ SentCounted'
    <2> DEFINE id == call[p].id
    <2>1. /\ id \in ApprovalId
          /\ grants' = [grants EXCEPT ![id] = grants[id] + 1]
          /\ approvedViews' = [approvedViews EXCEPT
                ![id] = approvedViews[id] \cup {ViewOf(p)}]
          /\ UNCHANGED <<asked, applied, overwritten, delivered, sent>>
      BY <1>2, ApprovalSteps
    <2> HIDE DEF id
    <2> QED
      BY <2>1 DEF GrantsSeen, SentCounted
  <1>3. ASSUME NEW q \in Req, ProviderSends(q)
        PROVE  GrantsSeen' /\ SentCounted'
    <2> DEFINE a == task[q].id
    <2>1. a \in ApprovalId
      BY <1>3, TaskAssumption DEF ProviderSends, At, GoodTask, Awaited
    <2>2. PICK m : /\ m.id = a
                   /\ sent' = sent \cup {m}
                   /\ delivered' = [delivered EXCEPT ![a] = delivered[a] + 1]
                   /\ UNCHANGED <<grants, approvedViews>>
      BY <1>3 DEF ProviderSends, serviceVars
    <2> HIDE DEF a
    <2>3. \A x \in sent : x.id \in ApprovalId
      BY DEF Message
    <2> QED
      BY <2>1, <2>2, <2>3 DEF GrantsSeen, SentCounted
  <1>4. ASSUME NEW q \in Req, NEW id \in ApprovalId, SaveRequest(q, id)
        PROVE  UNCHANGED <<grants, approvedViews, delivered, sent>>
    BY <1>4 DEF SaveRequest, RequestApproval
  <1>5. ASSUME NEW q \in Req, ProviderUpdates(q) \/ ProviderReplaces(q)
        PROVE  UNCHANGED <<grants, approvedViews, delivered, sent>>
    BY <1>5 DEF ProviderUpdates, ProviderReplaces, serviceVars
  <1> QED
    BY <1>1, <1>2, <1>3, <1>4, <1>5, UnseenSteps DEF Seen

(* What was sent of a draft nobody edited is, in all a reviewer could see, *)
(* what an approver of that very request saw.                              *)
THEOREM UneditedIsSentAsApproved == FlowSpec => []UneditedSentAsApproved
  <1>1. FlowInit => GrantsSeen /\ SentCounted
    BY DEF FlowInit, Init, GrantsSeen, SentCounted
  <1>2. ContentInv /\ GrantsSeen /\ SentCounted /\ [FlowNext]_vars
          => GrantsSeen' /\ SentCounted'
    BY SeenPreserved DEF ContentInv, ReviewInv
  <1>3. ContentInv /\ GrantsSeen /\ SentCounted => UneditedSentAsApproved
    <2> SUFFICES ASSUME ContentInv, GrantsSeen, SentCounted,
                        NEW m \in sent, Unedited(m)
                 PROVE  Preview(m.content) \in approvedViews[m.id]
      BY DEF UneditedSentAsApproved
    <2> USE DEF ContentInv, ReviewInv, SendInv, FInv
    <2> DEFINE id == m.id  shown == asked[id].payload
    <2>1. id \in ApprovalId
      BY DEF FlowTypes, FlowTypeOK, Message
    <2>2. grants[id] > 0
      <3>1. /\ delivered[id] > 0
            /\ openings[id] <= grants[id] /\ grants[id] \in Nat
        BY <2>1 DEF SentCounted, IInv, TypeOK, GateWithinGrants
      <3> QED
        BY <2>1, <3>1, DeliveredCounts
    <2>3. PICK v \in approvedViews[id] : TRUE
      BY <2>1, <2>2 DEF GrantsSeen
    <2>4. v = [subject |-> shown.subject, body |-> shown.body]
      <3>1. asked[id].tenant = m.tenant /\ asked[id].resource = m.draft
        BY DEF SentOnlyWhatWasAsked
      <3>2. PICK e \in {NoEdits} \cup Typed(asked[id].tenant,
                                             asked[id].resource) :
               /\ v.subject = Replaced(shown.subject, e.subject)
               /\ v.body = Replaced(shown.body, e.body)
        BY <2>1, <2>3 DEF ApprovedTextWasApplied
      <3>3. e = NoEdits
        BY <3>1, <3>2 DEF Unedited, Typed
      <3>4. v \in Payload
        BY <2>1, <2>3 DEF FlowTypes, FlowTypeOK
      <3>5. v = [subject |-> v.subject, body |-> v.body]
        BY <3>4, PayloadAssumption DEF Preview
      <3> QED
        BY <3>2, <3>3, <3>5 DEF NoEdits, Replaced
    <2>5. m.content.subject = shown.subject /\ m.content.body = shown.body
      <3>1. Typed(m.tenant, m.draft) = {}
        BY DEF Typed, Unedited
      <3>2. PutBack(m.tenant, m.draft) = {}
        BY <3>1 DEF PutBack, OverwrittenOK
      <3>3. From(Sources(shown, m.tenant, m.draft), m.content)
        BY DEF SentFieldsReviewedOrTyped
      <3> QED
        BY <3>1, <3>2, <3>3 DEF Sources, From
    <2> QED
      BY <2>3, <2>4, <2>5 DEF Preview
  <1> QED
    BY <1>1, <1>2, <1>3, ContentInvariance, PTL DEF FlowSpec

(* A program whose cards cannot edit: then no coroutine goes to a draft    *)
(* before its decision, and SentAsApproved, which run SentAsApproved       *)
(* violates with edits, holds as written.                                  *)
JustDecides(t) == t # NoTask /\ t.kind = "approve" => t.pc = "service"

NobodyEdits ==
    /\ applied = {}
    /\ \A q \in Req : JustDecides(task[q])

LEMMA NobodyStartsToEdit ==
    ASSUME CardEdits = {}, FInv, NobodyEdits, [FlowNext]_vars
    PROVE  NobodyEdits'
  <1> USE DEF FInv, FlowTypes, FlowTypeOK
  <1>1. JustDecides(NoTask)
    BY DEF JustDecides
  <1>2. ASSUME NEW q \in Req, NEW new, Become(q, new), JustDecides(new),
               applied' = applied
        PROVE  NobodyEdits'
    BY <1>2 DEF NobodyEdits, Become
  <1>3. ASSUME UNCHANGED <<task, applied>>
        PROVE  NobodyEdits'
    BY <1>3 DEF NobodyEdits
  <1>4. ASSUME NEW q \in Req, task[q] # NoTask,
               task[q].kind # "approve" \/ task[q].pc = "service"
        PROVE  /\ \A pc : task[q].kind # "approve" =>
                      JustDecides([task[q] EXCEPT !.pc = pc])
               /\ \A pc, d : task[q].kind # "approve" =>
                      JustDecides([task[q] EXCEPT !.pc = pc, !.draft = d])
               /\ \A pc, c : task[q].kind # "approve" =>
                      JustDecides([task[q] EXCEPT !.pc = pc, !.content = c])
    <2>1. task[q] \in Task
      BY <1>4
    <2> QED
      BY <2>1 DEF Task, JustDecides
  <1>5. ASSUME NEW q \in Req
        PROVE  ~At(q, "approve", "status") /\ ~At(q, "approve", "provider")
               /\ ~At(q, "approve", "replace") /\ ~At(q, "approve", "resume")
    BY DEF NobodyEdits, JustDecides, At
  <1>6. ASSUME NEW q \in Req, Arrival(q)
        PROVE  NobodyEdits'
    <2>1. \A kind, t, d, id, e, c :
             JustDecides(New(kind, "service", t, d, id, e, c))
      BY DEF JustDecides, New
    <2>2. \A kind, pc, t, d, id, e, c :
             kind # "approve" => JustDecides(New(kind, pc, t, d, id, e, c))
      BY DEF JustDecides, New
    <2> QED
      BY <1>2, <1>6, <2>1, <2>2
         DEF Arrival, CreateDraft, RequestSendApproval, SendEmail,
             DecideFromChannel, GetApprovalStatus
  <1>7. ASSUME NEW q \in Req, Provider(q) \/ Resume(q)
        PROVE  NobodyEdits'
    BY <1>1, <1>2, <1>4, <1>5, <1>7
       DEF Provider, ProviderCreates, ProviderReads, ProviderSends,
           ProviderUpdates, ProviderCopies, ProviderReplaces, ProviderFails,
           Resume, RecordCreated, SaveFails, RecordSent, DecideEdited,
           SaveRequest, End, At
  <1>8. ASSUME NEW q \in Req, Finish(q)
        PROVE  NobodyEdits'
    BY <1>1, <1>2, <1>4, <1>5, <1>8
       DEF Finish, SendDenied, SendGranted, NothingToEdit, FoundToEdit, Answer,
           End, At
  <1>9. CASE ServerStep \/ Clock \/ UNCHANGED vars
             \/ (\E p \in Proc : WriteStep(p)) \/ \E p \in Cli : CliStep(p)
    BY <1>3, <1>9 DEF ServerStep, Clock, vars, flowVars, WriteStep, CliStep
  <1>10. CASE ServerCrash
    BY <1>1, <1>10 DEF ServerCrash, NobodyEdits
  <1> QED
    BY <1>6, <1>7, <1>8, <1>9, <1>10 DEF FlowNext, Proc

(* ports/email_provider.py: "whatever the human approved is still exactly  *)
(* what gets sent", of a server whose cards have nothing to fill in.       *)
THEOREM WithoutEditsSentAsApproved ==
    ASSUME CardEdits = {}
    PROVE  FlowSpec => []SentAsApproved
  <1>1. FlowInit => NobodyEdits
    BY DEF FlowInit, NobodyEdits, JustDecides
  <1>2. FInv /\ NobodyEdits /\ [FlowNext]_vars => NobodyEdits'
    BY NobodyStartsToEdit
  <1>3. NobodyEdits /\ UneditedSentAsApproved => SentAsApproved
    BY DEF NobodyEdits, UneditedSentAsApproved, Unedited, SentAsApproved
  <1> QED
    BY <1>1, <1>2, <1>3, FlowInvariance, UneditedIsSentAsApproved, PTL
       DEF FlowSpec
=============================================================================
