--------------------------- MODULE SendFlowProofs ---------------------------
(***************************************************************************)
(* Theorems of SendFlow, for any number of concurrent requests, tenants,   *)
(* drafts and command-line processes.                                      *)
(*                                                                         *)
(* The send flow never does to the approval store anything ApprovalService *)
(* does not allow, so the service's invariants hold under it.  With them,  *)
(* and with what each coroutine knows at each of its steps (GoodTask,      *)
(* OneCaller), every message is accounted for by an opening of the gate.   *)
(***************************************************************************)
EXTENDS SendFlow, ApprovalServiceProofs, FiniteSetTheorems

Awaited == {"provider", "replace", "resume"}
InService == {"status", "service"}

(* The arguments a coroutine has by the time it uses them.                 *)
GoodTask ==
    {k \in Task :
        /\ k.kind = "create_draft" =>
              /\ k.content \in Content /\ k.pc \in Awaited
              /\ k.pc = "resume" => k.draft \in Resource
        /\ k.kind = "request_send_approval" =>
              /\ k.draft \in Resource /\ k.pc \in Awaited
              /\ k.pc = "resume" => k.content \in Content
        /\ k.kind = "send_email" => k.draft \in Resource /\ k.pc # "status"
        /\ k.kind = "approve" /\ k.pc \in Awaited => k.draft \in Resource
        /\ k.kind = "approve" /\ k.pc # "service" => k.edits # NoEdits
        /\ k.pc = "replace" =>
              k.kind = "approve" /\ k.content \in Content /\ k.tenant \in Gmail
        /\ k.kind \notin {"create_draft", "request_send_approval"} =>
              k.id \in ApprovalId
        /\ k.kind \in {"reject", "get_approval_status"} => k.pc = "service"}

(* The method a coroutine is in, by its kind.                              *)
OpOf(k) ==
    IF k.pc = "status" \/ k.kind = "get_approval_status" THEN "get_status"
    ELSE IF k.kind = "send_email" THEN "consume"
    ELSE k.kind

FlowTypes ==
    /\ FlowTypeOK
    /\ task \in [Req -> GoodTask \cup {NoTask}]

(* One coroutine at a time is inside ApprovalService, on its own behalf.   *)
OneCaller ==
    /\ caller = NoTask <=> LoopFree
    /\ caller # NoTask =>
          /\ task[caller] # NoTask /\ task[caller].pc \in InService
          /\ call[Server].op = OpOf(task[caller])
          /\ call[Server].id = task[caller].id
          /\ call[Server].tenant = task[caller].tenant
          /\ task[caller].kind = "send_email" =>
                call[Server].resource = task[caller].draft
    /\ \A q \in Req :
          task[q] # NoTask /\ task[q].pc \in InService => caller = q

(* A method that has read no request ends with the error that says so.     *)
KnownReq ==
    \A p \in Proc :
        call[p] # NoCall /\ call[p].req = NoRecord =>
            call[p].pc = "return" /\ call[p].result \notin Status \cup {"ok"}

FInv == IInv /\ KnownReq /\ FlowTypes /\ OneCaller

----------------------------------------------------------------------------
(* What a reviewer sees of any draft, edited or not, is a payload.         *)
LEMMA EditedTypes ==
    ASSUME NEW c \in Content, NEW e \in Edit
    PROVE  Edited(c, e) \in Content /\ Preview(c) \in Payload
  BY PayloadAssumption DEF Edited, Replaced, Content, Edit, Preview

LEMMA ViewTypes ==
    ASSUME NEW pl \in Payload, NEW e \in Edit
    PROVE  [subject |-> Replaced(pl.subject, e.subject),
            body |-> Replaced(pl.body, e.body)] \in Payload
  <1>1. PICK c \in Content : pl = Preview(c)
    BY PayloadAssumption
  <1>2. Preview(Edited(c, e)) \in Payload
    BY EditedTypes
  <1> QED
    BY <1>1, <1>2 DEF Preview, Edited

LEMMA NoEditsType == NoEdits \in Edit
  BY DEF NoEdits, Edit

LEMMA AnyDraftType == AnyDraft \in Resource
  BY ResourceAssumption DEF AnyDraft

(* Every step of the flow is a step of the service, or none.               *)
LEMMA FlowStepMaps ==
    ASSUME FlowTypes, FlowNext
    PROVE  [Next]_serviceVars
  <1> USE DEF FlowTypes, FlowTypeOK
  <1>1. ASSUME NEW q \in Req, NEW op \in Op, NEW id \in ApprovalId,
               NEW t \in Tenant, NEW d \in Resource, Enter(q, op, id, t, d)
        PROVE  Next
    BY <1>1 DEF Enter, Next, Begin, Proc
  <1>2. ASSUME NEW q \in Req, Leave(q)
        PROVE  Next
    BY <1>2 DEF Leave, Next, Proc
  <1>3. ASSUME NEW q \in Req, Arrival(q)
        PROVE  [Next]_serviceVars
    <2>1. {"get_status", "approve", "reject", "consume"} = Op
      BY DEF Op
    <2>2. ASSUME NEW t \in Tenant, NEW c \in Written, CreateDraft(q, t, c)
          PROVE  [Next]_serviceVars
      BY <2>2 DEF CreateDraft
    <2>3. ASSUME NEW t \in Tenant, NEW d \in Resource,
                 RequestSendApproval(q, t, d)
          PROVE  [Next]_serviceVars
      BY <2>3 DEF RequestSendApproval
    <2>4. ASSUME NEW t \in Tenant, NEW d \in Resource, NEW id \in ApprovalId,
                 SendEmail(q, t, d, id)
          PROVE  [Next]_serviceVars
      BY <1>1, <2>1, <2>4 DEF SendEmail
    <2>5. ASSUME NEW t \in Tenant, NEW id \in ApprovalId,
                 NEW kind \in {"approve", "reject"},
                 DecideFromChannel(q, kind, t, id)
          PROVE  [Next]_serviceVars
      BY <1>1, <2>1, <2>5, AnyDraftType DEF DecideFromChannel, Decision
    <2>6. ASSUME NEW t \in Tenant, NEW id \in ApprovalId,
                 \/ \E e \in CardEdits : ApproveWithEdits(q, t, id, e)
                 \/ GetApprovalStatus(q, t, id)
          PROVE  [Next]_serviceVars
      BY <1>1, <2>1, <2>6, AnyDraftType DEF ApproveWithEdits, GetApprovalStatus
    <2> QED
      BY <1>3, <2>2, <2>3, <2>4, <2>5, <2>6 DEF Arrival
  <1>4. ASSUME NEW q \in Req, Provider(q)
        PROVE  UNCHANGED serviceVars
    BY <1>4 DEF Provider, ProviderCreates, ProviderReads, ProviderSends,
                ProviderUpdates, ProviderCopies, ProviderReplaces, ProviderFails
  <1>5. ASSUME NEW q \in Req, Resume(q)
        PROVE  [Next]_serviceVars
    <2>1. CASE RecordCreated(q) \/ SaveFails(q) \/ RecordSent(q)
      BY <2>1 DEF RecordCreated, SaveFails, RecordSent
    <2>2. CASE DecideEdited(q)
      <3>1. task[q] \in GoodTask /\ task[q].kind = "approve"
        BY <2>2, TaskAssumption DEF DecideEdited, At
      <3>2. task[q].id \in ApprovalId /\ task[q].tenant \in Tenant
        BY <3>1 DEF GoodTask, Task
      <3> QED
        BY <1>1, <2>2, <3>2, AnyDraftType DEF DecideEdited, Op
    <2>3. ASSUME NEW id \in ApprovalId, SaveRequest(q, id)
          PROVE  Next
      <3>1. /\ task[q] \in GoodTask /\ task[q].kind = "request_send_approval"
            /\ task[q].pc = "resume"
        BY <2>3, TaskAssumption DEF SaveRequest, At
      <3>2. /\ task[q].tenant \in Tenant /\ task[q].draft \in Resource
            /\ task[q].content \in Content
        BY <3>1 DEF GoodTask, Task
      <3>3. Preview(task[q].content) \in Payload
        BY <3>2, NoEditsType, EditedTypes
      <3> QED
        BY <2>3, <3>2, <3>3 DEF SaveRequest, Next
    <2> QED
      BY <1>5, <2>1, <2>2, <2>3 DEF Resume
  <1>6. ASSUME NEW q \in Req, Finish(q)
        PROVE  Next
    BY <1>2, <1>6 DEF Finish, SendDenied, SendGranted, NothingToEdit,
                      FoundToEdit, Answer
  <1>7. CASE ServerStep \/ WriteStep(Server)
    BY <1>7 DEF ServerStep, WriteStep, Next, Proc
  <1>8. ASSUME NEW p \in Cli, CliStep(p) \/ WriteStep(p)
        PROVE  Next
    BY <1>8, AnyDraftType DEF CliStep, WriteStep, Next, Proc, Begin, Op
  <1>9. CASE ServerCrash
    BY <1>9 DEF ServerCrash, Next, Proc
  <1>10. CASE Clock
    BY <1>10 DEF Clock, Next
  <1> QED
    BY <1>3, <1>4, <1>5, <1>6, <1>7, <1>8, <1>9, <1>10 DEF FlowNext

----------------------------------------------------------------------------
LEMMA KnownReqPreserved ==
    ASSUME IInv, KnownReq, [Next]_serviceVars
    PROVE  KnownReq'
  <1> USE DEF IInv, TypeOK
  <1>1. ASSUME NEW p \in Proc, Begin(p)
        PROVE  KnownReq'
    <2>1. ASSUME NEW op \in Op, NEW id \in ApprovalId, NEW t \in Tenant,
                 NEW r \in Resource, Get(p, op, id, t, r)
          PROVE  KnownReq'
      BY <2>1 DEF Get, Visible, KnownReq
    <2>2. ASSUME NEW op \in Op, NEW id \in ApprovalId, NEW t \in Tenant,
                 NEW r \in Resource, GetFails(p, op, id, t, r)
          PROVE  KnownReq'
      <3>1. Unavailable \notin Status \cup {"ok"}
        BY DEF Unavailable, Status
      <3> QED
        BY <2>2, <3>1 DEF GetFails, KnownReq
    <2> QED
      BY <1>1, <2>1, <2>2 DEF Begin
  <1>2. ASSUME NEW p \in Proc,
               ResolveFresh(p) \/ ResolveExpired(p) \/ Write(p)
        PROVE  KnownReq'
    <2>1. CASE ResolveFresh(p)
      <3>1. /\ call[p] \in Call /\ call[p].req # NoRecord
            /\ call'[p].req = call[p].req
            /\ \A q \in Proc \ {p} : call'[q] = call[q]
        BY <2>1 DEF ResolveFresh, Call, KnownReq
      <3> QED
        BY <3>1 DEF KnownReq
    <2>2. CASE ResolveExpired(p) \/ Write(p)
      <3>1. call[p].req # NoRecord
        BY <2>2, UpdateEnds DEF TermsKept
      <3>2. call'[p].req # NoRecord
        BY <2>2, <3>1, HandedBack, NoRecordAssumption
      <3>3. \A q \in Proc \ {p} : call'[q] = call[q]
        BY <2>2, UpdateEnds
      <3> QED
        BY <3>2, <3>3 DEF KnownReq
    <2> QED
      BY <1>2, <2>1, <2>2
  <1>3. ASSUME NEW p \in Proc, Return(p) \/ Crash(p) \/ CrashInUpdate(p)
        PROVE  KnownReq'
    BY <1>3 DEF Return, Crash, CrashInUpdate, KnownReq
  <1>4. ASSUME call' = call
        PROVE  KnownReq'
    BY <1>4 DEF KnownReq
  <1> QED
    BY <1>1, <1>2, <1>3, <1>4
       DEF Next, RequestApproval, CrashInSave, Tick, serviceVars

(* Steps that leave the coroutines and the mailbox alone.                  *)
LEMMA SameFlowTypes ==
    ASSUME FlowTypes, UNCHANGED <<mailbox, task, caller, audit, delivered,
                                  sent, applied, overwritten, approvedViews>>
    PROVE  FlowTypes'
  BY DEF FlowTypes, FlowTypeOK

LEMMA BecomeTypes ==
    ASSUME FlowTypes, NEW q \in Req, NEW k \in GoodTask \cup {NoTask},
           Become(q, k)
    PROVE  task' \in [Req -> GoodTask \cup {NoTask}]
  BY DEF FlowTypes, Become

LEMMA LogTypes ==
    ASSUME FlowTypes, NEW a \in Kind \cup {"update_draft"}, NEW t \in Tenant,
           NEW d \in Resource, NEW id \in ApprovalId \cup {Nil},
           NEW r \in {"ok", "denied", "sent"}, Log(a, t, d, id, r)
    PROVE  audit' \subseteq Line
  BY DEF FlowTypes, FlowTypeOK, Log, Line

LEMMA GoodTasksAreTasks ==
    task' \in [Req -> GoodTask \cup {NoTask}]
      => task' \in [Req -> Task \cup {NoTask}]
  BY DEF GoodTask

(* The variables and the coroutines keep their types.                      *)
LEMMA FlowTypesPreserved ==
    ASSUME FInv, [FlowNext]_vars, TypeOK'
    PROVE  FlowTypes'
  <1> USE DEF FInv
  <1>1. ASSUME NEW q \in Req, Arrival(q)
        PROVE  FlowTypes'
    <2>1. ASSUME NEW t \in Tenant, NEW c \in Written, CreateDraft(q, t, c)
          PROVE  FlowTypes'
      <3>1. New("create_draft", "provider", t, Nil, Nil, NoEdits, c) \in GoodTask
        BY WrittenAssumption, NoEditsType DEF New, GoodTask, Task, Kind, Awaited
      <3> QED
        BY <2>1, <3>1, BecomeTypes, GoodTasksAreTasks
           DEF CreateDraft, FlowTypes, FlowTypeOK
    <2>2. ASSUME NEW t \in Tenant, NEW d \in Resource,
                 RequestSendApproval(q, t, d)
          PROVE  FlowTypes'
      <3>1. New("request_send_approval", "provider", t, d, Nil, NoEdits, Nil)
              \in GoodTask
        BY NoEditsType DEF New, GoodTask, Task, Kind, Awaited
      <3> QED
        BY <2>2, <3>1, BecomeTypes, GoodTasksAreTasks
           DEF RequestSendApproval, FlowTypes, FlowTypeOK
    <2>3. ASSUME NEW t \in Tenant, NEW d \in Resource, NEW id \in ApprovalId,
                 SendEmail(q, t, d, id)
          PROVE  FlowTypes'
      <3>1. New("send_email", "service", t, d, id, NoEdits, Nil) \in GoodTask
        BY NoEditsType DEF New, GoodTask, Task, Kind, Awaited
      <3> QED
        BY <2>3, <3>1, BecomeTypes, GoodTasksAreTasks
           DEF SendEmail, Enter, FlowTypes, FlowTypeOK
    <2>4. ASSUME NEW t \in Tenant, NEW id \in ApprovalId,
                 NEW kind \in {"approve", "reject"},
                 DecideFromChannel(q, kind, t, id)
          PROVE  FlowTypes'
      <3>1. New(kind, "service", t, Nil, id, NoEdits, Nil) \in GoodTask
        BY NoEditsType DEF New, GoodTask, Task, Kind, Awaited
      <3> QED
        BY <2>4, <3>1, BecomeTypes, GoodTasksAreTasks
           DEF DecideFromChannel, Enter, FlowTypes, FlowTypeOK
    <2>5. ASSUME NEW t \in Tenant, NEW id \in ApprovalId, NEW e \in CardEdits,
                 ApproveWithEdits(q, t, id, e)
          PROVE  FlowTypes'
      <3>1. New("approve", "status", t, Nil, id, e, Nil) \in GoodTask
        BY CardEditsAssumption DEF New, GoodTask, Task, Kind, Awaited
      <3> QED
        BY <2>5, <3>1, BecomeTypes, GoodTasksAreTasks
           DEF ApproveWithEdits, Enter, FlowTypes, FlowTypeOK
    <2>6. ASSUME NEW t \in Tenant, NEW id \in ApprovalId,
                 GetApprovalStatus(q, t, id)
          PROVE  FlowTypes'
      <3>1. New("get_approval_status", "service", t, Nil, id, NoEdits, Nil)
              \in GoodTask
        BY NoEditsType DEF New, GoodTask, Task, Kind, Awaited
      <3> QED
        BY <2>6, <3>1, BecomeTypes, GoodTasksAreTasks
           DEF GetApprovalStatus, Enter, FlowTypes, FlowTypeOK
    <2> QED
      BY <1>1, <2>1, <2>2, <2>3, <2>4, <2>5, <2>6 DEF Arrival
  <1>2. ASSUME NEW q \in Req, Provider(q)
        PROVE  FlowTypes'
    <2>0. task[q] \in GoodTask /\ task[q] # NoTask
      BY <1>2, TaskAssumption
         DEF Provider, ProviderCreates, ProviderReads, ProviderSends,
             ProviderUpdates, ProviderCopies, ProviderReplaces, ProviderFails,
             At, FlowTypes
    <2>1. CASE ProviderCreates(q)
      <3> USE DEF FlowTypes, FlowTypeOK
      <3>1. PICK d \in Resource :
              /\ mailbox' = [mailbox EXCEPT ![task[q].tenant][d] = task[q].content]
              /\ Become(q, [task[q] EXCEPT !.pc = "resume", !.draft = d])
        BY <2>1 DEF ProviderCreates
      <3>2. [task[q] EXCEPT !.pc = "resume", !.draft = d] \in GoodTask
        BY <2>0, <2>1 DEF ProviderCreates, At, GoodTask, Task, Awaited
      <3>3. task[q].content \in Content /\ task[q].tenant \in Tenant
        BY <2>0, <2>1 DEF ProviderCreates, At, GoodTask, Task
      <3> QED
        BY <2>1, <3>1, <3>2, <3>3, BecomeTypes, GoodTasksAreTasks
           DEF ProviderCreates
    <2>2. CASE ProviderReads(q)
      <3>1. [task[q] EXCEPT
               !.pc = "resume",
               !.content = mailbox[task[q].tenant][task[q].draft]] \in GoodTask
        BY <2>0, <2>2 DEF ProviderReads, At, GoodTask, Task, Awaited
      <3> QED
        BY <2>2, <3>1, BecomeTypes, GoodTasksAreTasks
           DEF ProviderReads, FlowTypes, FlowTypeOK
    <2>3. CASE ProviderSends(q)
      <3> USE DEF FlowTypes, FlowTypeOK
      <3> DEFINE t == task[q].tenant  d == task[q].draft  a == task[q].id
      <3>1. t \in Tenant /\ d \in Resource /\ a \in ApprovalId
        BY <2>0, <2>3 DEF ProviderSends, At, GoodTask, Task
      <3>2. [task[q] EXCEPT !.pc = "resume"] \in GoodTask
        BY <2>0, <2>3 DEF ProviderSends, At, GoodTask, Task, Awaited
      <3>3. task' \in [Req -> GoodTask \cup {NoTask}]
        <4>1. \/ Become(q, [task[q] EXCEPT !.pc = "resume"])
              \/ Become(q, NoTask)
          BY <2>3 DEF ProviderSends, End
        <4> QED
          BY <3>2, <4>1, BecomeTypes
      <3>4. [id |-> a, tenant |-> t, draft |-> d, content |-> mailbox[t][d]]
              \in Message
        BY <2>3, <3>1 DEF ProviderSends, Message
      <3>5. sent' \subseteq Message
        BY <2>3, <3>4 DEF ProviderSends
      <3>6. mailbox' \in [Tenant -> [Resource -> Content \cup {NoDraft, SentDraft}]]
        <4>1. CASE mailbox' = [mailbox EXCEPT ![t][d] = SentDraft]
          BY <3>1, <4>1
        <4>2. CASE mailbox' = mailbox
          BY <4>2
        <4> QED
          BY <2>3, <4>1, <4>2 DEF ProviderSends
      <3>7. delivered' \in [ApprovalId -> Nat]
        BY <2>3, <3>1 DEF ProviderSends
      <3> QED
        BY <2>3, <3>3, <3>5, <3>6, <3>7, GoodTasksAreTasks DEF ProviderSends
    <2>4. CASE ProviderUpdates(q)
      <3> USE DEF FlowTypes, FlowTypeOK
      <3> DEFINE t == task[q].tenant  d == task[q].draft  e == task[q].edits
      <3>1. t \in Tenant /\ d \in Resource /\ e \in Edit
        BY <2>0, <2>4 DEF ProviderUpdates, At, GoodTask, Task, Awaited
      <3>2. [task[q] EXCEPT !.pc = "resume"] \in GoodTask
        BY <2>0, <2>4 DEF ProviderUpdates, At, GoodTask, Task, Awaited
      <3>3. task' \in [Req -> GoodTask \cup {NoTask}]
        BY <2>4, <3>2, BecomeTypes DEF ProviderUpdates, End
      <3>4. Edited(mailbox[t][d], e) \in Content
        BY <2>4, <3>1, EditedTypes DEF ProviderUpdates
      <3>5. mailbox' \in [Tenant -> [Resource -> Content \cup {NoDraft, SentDraft}]]
        BY <2>4, <3>1, <3>4 DEF ProviderUpdates
      <3>6. applied' \subseteq [tenant : Tenant, draft : Resource, edits : Edit]
        BY <2>4, <3>1 DEF ProviderUpdates
      <3> QED
        BY <2>4, <3>3, <3>5, <3>6, GoodTasksAreTasks DEF ProviderUpdates
    <2>5. CASE ProviderFails(q)
      BY <2>5, BecomeTypes, GoodTasksAreTasks
         DEF ProviderFails, End, FlowTypes, FlowTypeOK
    <2>6. CASE ProviderCopies(q)
      <3>1. [task[q] EXCEPT
               !.pc = "replace",
               !.content = mailbox[task[q].tenant][task[q].draft]] \in GoodTask
        BY <2>0, <2>6 DEF ProviderCopies, At, GoodTask, Task, Awaited
      <3> QED
        BY <2>6, <3>1, BecomeTypes, GoodTasksAreTasks
           DEF ProviderCopies, FlowTypes, FlowTypeOK
    <2>7. CASE ProviderReplaces(q)
      <3> USE DEF FlowTypes, FlowTypeOK
      <3> DEFINE t == task[q].tenant  d == task[q].draft  e == task[q].edits
                 c == task[q].content
      <3>1. /\ t \in Tenant /\ d \in Resource /\ e \in Edit /\ c \in Content
            /\ task[q].id \in ApprovalId
        BY <2>0, <2>7 DEF ProviderReplaces, At, GoodTask, Task, Awaited
      <3>2. [task[q] EXCEPT !.pc = "resume"] \in GoodTask
        BY <2>0, <2>7 DEF ProviderReplaces, At, GoodTask, Task, Awaited
      <3>3. task' \in [Req -> GoodTask \cup {NoTask}]
        BY <2>7, <3>2, BecomeTypes DEF ProviderReplaces, End
      <3>4. Edited(c, e) \in Content
        BY <3>1, EditedTypes
      <3>5. mailbox' \in [Tenant -> [Resource -> Content \cup {NoDraft, SentDraft}]]
        BY <2>7, <3>1, <3>4 DEF ProviderReplaces
      <3>6. /\ applied' \subseteq [tenant : Tenant, draft : Resource, edits : Edit]
            /\ overwritten' \subseteq ApprovalId
        BY <2>7, <3>1 DEF ProviderReplaces
      <3> QED
        BY <2>7, <3>3, <3>5, <3>6, GoodTasksAreTasks DEF ProviderReplaces
    <2> QED
      BY <1>2, <2>1, <2>2, <2>3, <2>4, <2>5, <2>6, <2>7 DEF Provider
  <1>3. ASSUME NEW q \in Req, Resume(q)
        PROVE  FlowTypes'
    <2>0. task[q] \in GoodTask /\ task[q] # NoTask
      BY <1>3, TaskAssumption
         DEF Resume, RecordCreated, SaveFails, RecordSent, DecideEdited,
             SaveRequest, At, FlowTypes
    <2>1. CASE RecordCreated(q)
      <3>1. /\ task[q].tenant \in Tenant /\ task[q].draft \in Resource
            /\ "create_draft" \in Kind
        BY <2>0, <2>1 DEF RecordCreated, At, GoodTask, Task, Kind
      <3>2. audit' \subseteq Line
        BY <2>1, <3>1, LogTypes DEF RecordCreated
      <3> QED
        BY <2>1, <3>2, BecomeTypes, GoodTasksAreTasks
           DEF RecordCreated, End, FlowTypes, FlowTypeOK
    <2>2. CASE SaveFails(q)
      BY <2>2, BecomeTypes, GoodTasksAreTasks
         DEF SaveFails, End, FlowTypes, FlowTypeOK
    <2>3. CASE RecordSent(q)
      <3>1. /\ task[q].tenant \in Tenant /\ task[q].draft \in Resource
            /\ task[q].id \in ApprovalId /\ "send_email" \in Kind
        BY <2>0, <2>3 DEF RecordSent, At, GoodTask, Task, Kind
      <3>2. audit' \subseteq Line
        BY <2>3, <3>1, LogTypes DEF RecordSent
      <3> QED
        BY <2>3, <3>2, BecomeTypes, GoodTasksAreTasks
           DEF RecordSent, End, FlowTypes, FlowTypeOK
    <2>4. CASE DecideEdited(q)
      <3>1. task[q].tenant \in Tenant /\ task[q].draft \in Resource
        BY <2>0, <2>4 DEF DecideEdited, At, GoodTask, Task, Awaited
      <3>2. audit' \subseteq Line
        BY <2>4, <3>1, LogTypes DEF DecideEdited
      <3>3. [task[q] EXCEPT !.pc = "service"] \in GoodTask
        BY <2>0, <2>4 DEF DecideEdited, At, GoodTask, Task, Awaited
      <3> QED
        BY <2>4, <3>2, <3>3, BecomeTypes, GoodTasksAreTasks
           DEF DecideEdited, Enter, FlowTypes, FlowTypeOK
    <2>5. ASSUME NEW id \in ApprovalId, SaveRequest(q, id)
          PROVE  FlowTypes'
      <3>1. /\ task[q].tenant \in Tenant /\ task[q].draft \in Resource
            /\ "request_send_approval" \in Kind
        BY <2>0, <2>5 DEF SaveRequest, At, GoodTask, Task, Kind
      <3>2. audit' \subseteq Line
        BY <2>5, <3>1, LogTypes DEF SaveRequest
      <3> QED
        BY <2>5, <3>2, BecomeTypes, GoodTasksAreTasks
           DEF SaveRequest, End, FlowTypes, FlowTypeOK
    <2> QED
      BY <1>3, <2>1, <2>2, <2>3, <2>4, <2>5 DEF Resume
  <1>4. ASSUME NEW q \in Req, Finish(q)
        PROVE  FlowTypes'
    <2>0. /\ task[q] \in GoodTask /\ task[q] # NoTask
          /\ caller = q /\ caller' = NoTask
          /\ call[Server] \in Call /\ call[Server] # NoCall
      BY <1>4, TaskAssumption
         DEF Finish, SendDenied, SendGranted, NothingToEdit, FoundToEdit,
             Answer, At, FlowTypes, Leave, Return, IInv, TypeOK, Proc
    <2>1. CASE SendDenied(q)
      <3>1. /\ task[q].tenant \in Tenant /\ task[q].draft \in Resource
            /\ task[q].id \in ApprovalId /\ "send_email" \in Kind
        BY <2>0, <2>1 DEF SendDenied, At, GoodTask, Task, Kind
      <3>2. audit' \subseteq Line
        BY <2>1, <3>1, LogTypes DEF SendDenied
      <3> QED
        BY <2>0, <2>1, <3>2, BecomeTypes, GoodTasksAreTasks
           DEF SendDenied, End, FlowTypes, FlowTypeOK
    <2>2. CASE SendGranted(q)
      <3>1. [task[q] EXCEPT !.pc = "provider"] \in GoodTask
        BY <2>0, <2>2 DEF SendGranted, At, GoodTask, Task, Awaited
      <3> QED
        BY <2>0, <2>2, <3>1, BecomeTypes, GoodTasksAreTasks
           DEF SendGranted, FlowTypes, FlowTypeOK
    <2>3. CASE FoundToEdit(q)
      <3>1. call[Server].req # NoRecord
        BY <2>0, <2>3 DEF FoundToEdit, Outcome, KnownReq, Proc
      <3>2. call[Server].req.resource \in Resource
        BY <2>0, <3>1 DEF Call, ApprovalRequest
      <3>3. [task[q] EXCEPT !.pc = "provider",
                            !.draft = call[Server].req.resource] \in GoodTask
        BY <2>0, <2>3, <3>2 DEF FoundToEdit, At, GoodTask, Task, Awaited
      <3> QED
        BY <2>0, <2>3, <3>3, BecomeTypes, GoodTasksAreTasks
           DEF FoundToEdit, FlowTypes, FlowTypeOK
    <2>4. CASE NothingToEdit(q) \/ Answer(q)
      BY <2>0, <2>4, BecomeTypes, GoodTasksAreTasks
         DEF NothingToEdit, Answer, End, FlowTypes, FlowTypeOK
    <2> QED
      BY <1>4, <2>1, <2>2, <2>3, <2>4 DEF Finish
  <1>5. ASSUME NEW p \in Proc, WriteStep(p)
        PROVE  FlowTypes'
    <2>1. /\ call[p] \in Call /\ call[p].id \in ApprovalId
          /\ call[p].req \in ApprovalRequest
      BY <1>5 DEF WriteStep, Write, Call, IInv, TypeOK, KnownReq
    <2>2. (IF p = Server THEN task[caller].edits ELSE NoEdits) \in Edit
      <3>1. CASE p = Server
        <4>1. caller \in Req /\ task[caller] \in GoodTask
          BY <1>5, <3>1 DEF WriteStep, Write, OneCaller, LoopFree, FlowTypes,
                            FlowTypeOK
        <4> QED
          BY <3>1, <4>1 DEF GoodTask, Task
      <3>2. CASE p # Server
        BY <3>2, NoEditsType
      <3> QED
        BY <3>1, <3>2
    <2>3. ViewOf(p) \in Payload
      <3>1. call[p].req.payload \in Payload
        BY <2>1 DEF ApprovalRequest
      <3> QED
        BY <2>2, <3>1, ViewTypes DEF ViewOf
    <2>4. approvedViews' \in [ApprovalId -> SUBSET Payload]
      BY <1>5, <2>1, <2>3 DEF WriteStep, FlowTypes, FlowTypeOK
    <2> QED
      BY <1>5, <2>4 DEF WriteStep, FlowTypes, FlowTypeOK
  <1>6. CASE ServerCrash
    BY <1>6 DEF ServerCrash, FlowTypes, FlowTypeOK
  <1>7. ASSUME UNCHANGED flowVars
        PROVE  FlowTypes'
    BY <1>7, SameFlowTypes DEF flowVars
  <1> QED
    BY <1>1, <1>2, <1>3, <1>4, <1>5, <1>6, <1>7
       DEF FlowNext, ServerStep, CliStep, Clock, vars, Proc

----------------------------------------------------------------------------
(* A coroutine that enters a method is the caller from then on.            *)
LEMMA EnterOneCaller ==
    ASSUME FlowTypes, OneCaller, TypeOK,
           NEW q \in Req, NEW op \in Op, NEW id \in ApprovalId,
           NEW t \in Tenant, NEW d \in Resource, NEW k \in GoodTask,
           Enter(q, op, id, t, d), Become(q, k), k.pc \in InService,
           OpOf(k) = op, k.id = id, k.tenant = t,
           k.kind = "send_email" => k.draft = d
    PROVE  OneCaller'
  <1>1. k # NoTask /\ q # NoTask
    BY TaskAssumption DEF GoodTask
  <1>2. task' = [task EXCEPT ![q] = k] /\ task'[q] = k /\ caller' = q
    BY DEF Become, Enter, FlowTypes
  <1>3. \A r \in Req \ {q} : task'[r] = task[r]
    BY <1>2 DEF FlowTypes
  <1>4. caller = NoTask
    BY DEF Enter, OneCaller
  <1>5. /\ call'[Server].op = op /\ call'[Server].id = id
        /\ call'[Server].tenant = t /\ call'[Server].resource = d
        /\ call'[Server] # NoCall
    <2>1. Server \in Proc
      BY DEF Proc
    <2>2. PICK rq \in ApprovalRequest \cup {NoRecord},
               pc \in {"resolve", "return"}, res \in Result :
            call' = [call EXCEPT ![Server] =
                       [op |-> op, id |-> id, tenant |-> t, resource |-> d,
                        req |-> rq, pc |-> pc, result |-> res]]
      <3>1. /\ store[id] \in ApprovalRequest \cup {NoRecord}
            /\ "none" \in Result /\ Unavailable \in Result
        BY DEF TypeOK, Stores, Result, Error, Unavailable
      <3> QED
        BY <3>1 DEF Enter, Get, GetFails
    <2>3. [op |-> op, id |-> id, tenant |-> t, resource |-> d,
           req |-> rq, pc |-> pc, result |-> res] \in Call
      BY DEF Call
    <2> QED
      BY <2>1, <2>2, <2>3, NoCallAssumption DEF TypeOK
  <1>6. ASSUME NEW r \in Req, task'[r] # NoTask, task'[r].pc \in InService
        PROVE  caller' = r
    BY <1>2, <1>3, <1>4, <1>6, TaskAssumption DEF OneCaller
  <1> QED
    BY <1>1, <1>2, <1>5, <1>6 DEF OneCaller, LoopFree

(* When it leaves the method, nobody is.                                   *)
LEMMA LeaveOneCaller ==
    ASSUME FlowTypes, OneCaller, TypeOK, NEW q \in Req,
           NEW k \in GoodTask \cup {NoTask}, Leave(q), Become(q, k),
           k = NoTask \/ k.pc \in Awaited
    PROVE  OneCaller'
  <1>1. caller = q /\ caller' = NoTask /\ call'[Server] = NoCall
    BY DEF Leave, Return, TypeOK, Proc
  <1>2. task'[q] = k /\ \A r \in Req \ {q} : task'[r] = task[r]
    BY DEF Become, FlowTypes
  <1>3. ASSUME NEW r \in Req, task'[r] # NoTask, task'[r].pc \in InService
        PROVE  FALSE
    BY <1>1, <1>2, <1>3 DEF OneCaller, Awaited, InService
  <1> QED
    BY <1>1, <1>3 DEF OneCaller, LoopFree

(* Starting and ending to wait for the provider is no call of the service. *)
LEMMA AwaitingOneCaller ==
    ASSUME FlowTypes, OneCaller, NEW q \in Req,
           NEW k \in GoodTask \cup {NoTask},
           task[q] = NoTask \/ task[q].pc \in Awaited,
           Become(q, k), k = NoTask \/ k.pc \in Awaited,
           UNCHANGED <<call, caller>>
    PROVE  OneCaller'
  <1>1. task'[q] = k /\ \A r \in Req \ {q} : task'[r] = task[r]
    BY DEF Become, FlowTypes
  <1>2. caller # q
    BY TaskAssumption DEF OneCaller, Awaited, InService
  <1>3. caller # NoTask => caller \in Req /\ task'[caller] = task[caller]
    BY <1>1, <1>2 DEF FlowTypes, FlowTypeOK
  <1>4. ASSUME NEW r \in Req, task'[r] # NoTask, task'[r].pc \in InService
        PROVE  caller = r
    BY <1>1, <1>4 DEF OneCaller, Awaited, InService
  <1> QED
    BY <1>3, <1>4 DEF OneCaller, LoopFree

(* The method in progress keeps its arguments until it ends.               *)
LEMMA SameCaller ==
    ASSUME OneCaller, UNCHANGED <<task, caller>>,
           call'[Server] = NoCall <=> call[Server] = NoCall,
           call[Server] # NoCall =>
             /\ call'[Server].op = call[Server].op
             /\ call'[Server].id = call[Server].id
             /\ call'[Server].tenant = call[Server].tenant
             /\ call'[Server].resource = call[Server].resource
    PROVE  OneCaller'
  BY DEF OneCaller, LoopFree

LEMMA ServerMethodGoesOn ==
    ASSUME IInv,
           ResolveFresh(Server) \/ ResolveExpired(Server) \/ Write(Server)
    PROVE  /\ call[Server] # NoCall /\ call'[Server] # NoCall
           /\ call[Server] \in Call
           /\ call'[Server].op = call[Server].op
           /\ call'[Server].id = call[Server].id
           /\ call'[Server].tenant = call[Server].tenant
           /\ call'[Server].resource = call[Server].resource
  <1>1. Server \in Proc
    BY DEF Proc
  <1>2. CASE ResolveFresh(Server)
    BY <1>1, <1>2, FreshGoesOn, NoCallAssumption DEF IInv, InProgress
  <1>3. CASE ResolveExpired(Server) \/ Write(Server)
    BY <1>1, <1>3, UpdateEnds, NoCallAssumption DEF IInv, InProgress
  <1> QED
    BY <1>2, <1>3

(* The service serves one coroutine at a time, and the right one.          *)
LEMMA OneCallerPreserved ==
    ASSUME FInv, [FlowNext]_vars
    PROVE  OneCaller'
  <1> USE DEF FInv, IInv
  <1>1. ASSUME NEW q \in Req, Arrival(q)
        PROVE  OneCaller'
    <2>1. ASSUME NEW t \in Tenant,
                 \/ \E c \in Written : CreateDraft(q, t, c)
                 \/ \E d \in Resource : RequestSendApproval(q, t, d)
          PROVE  OneCaller'
      <3>1. \A c \in Written :
              New("create_draft", "provider", t, Nil, Nil, NoEdits, c) \in GoodTask
        BY WrittenAssumption, NoEditsType DEF New, GoodTask, Task, Kind, Awaited
      <3>2. \A d \in Resource :
              New("request_send_approval", "provider", t, d, Nil, NoEdits, Nil)
                \in GoodTask
        BY NoEditsType DEF New, GoodTask, Task, Kind, Awaited
      <3>3. PICK k \in GoodTask :
              /\ task[q] = NoTask /\ Become(q, k) /\ k.pc = "provider"
              /\ UNCHANGED <<call, caller>>
        BY <2>1, <3>1, <3>2 DEF CreateDraft, RequestSendApproval, New, serviceVars
      <3> QED
        BY <3>3, AwaitingOneCaller DEF Awaited
    <2>2. ASSUME NEW t \in Tenant, NEW d \in Resource, NEW id \in ApprovalId,
                 SendEmail(q, t, d, id)
          PROVE  OneCaller'
      <3> DEFINE k == New("send_email", "service", t, d, id, NoEdits, Nil)
      <3>1. /\ k \in GoodTask /\ k.pc \in InService /\ OpOf(k) = "consume"
            /\ k.id = id /\ k.tenant = t /\ k.draft = d
        BY NoEditsType
           DEF New, GoodTask, Task, Kind, Awaited, InService, OpOf
      <3>2. "consume" \in Op /\ Enter(q, "consume", id, t, d) /\ Become(q, k)
        BY <2>2 DEF SendEmail, Op
      <3> HIDE DEF k
      <3> QED
        BY <3>1, <3>2, EnterOneCaller
    <2>3. ASSUME NEW t \in Tenant, NEW id \in ApprovalId,
                 NEW kind \in {"approve", "reject"},
                 DecideFromChannel(q, kind, t, id)
          PROVE  OneCaller'
      <3> DEFINE k == New(kind, "service", t, Nil, id, NoEdits, Nil)
      <3>1. /\ k \in GoodTask /\ k.pc \in InService
            /\ OpOf(k) = Decision(kind) /\ Decision(kind) \in Op
            /\ k.id = id /\ k.tenant = t /\ k.kind # "send_email"
        BY NoEditsType
           DEF New, GoodTask, Task, Kind, Awaited, InService, OpOf, Decision, Op
      <3>2. Enter(q, Decision(kind), id, t, AnyDraft) /\ Become(q, k)
        BY <2>3 DEF DecideFromChannel
      <3> HIDE DEF k
      <3> QED
        BY <3>1, <3>2, AnyDraftType, EnterOneCaller
    <2>4. ASSUME NEW t \in Tenant, NEW id \in ApprovalId, NEW e \in CardEdits,
                 ApproveWithEdits(q, t, id, e)
          PROVE  OneCaller'
      <3> DEFINE k == New("approve", "status", t, Nil, id, e, Nil)
      <3>1. /\ k \in GoodTask /\ k.pc \in InService
            /\ OpOf(k) = "get_status" /\ "get_status" \in Op
            /\ k.id = id /\ k.tenant = t /\ k.kind # "send_email"
        BY CardEditsAssumption
           DEF New, GoodTask, Task, Kind, Awaited, InService, OpOf, Op
      <3>2. Enter(q, "get_status", id, t, AnyDraft) /\ Become(q, k)
        BY <2>4 DEF ApproveWithEdits
      <3> HIDE DEF k
      <3> QED
        BY <3>1, <3>2, AnyDraftType, EnterOneCaller
    <2>5. ASSUME NEW t \in Tenant, NEW id \in ApprovalId,
                 GetApprovalStatus(q, t, id)
          PROVE  OneCaller'
      <3> DEFINE k == New("get_approval_status", "service", t, Nil, id, NoEdits,
                          Nil)
      <3>1. /\ k \in GoodTask /\ k.pc \in InService
            /\ OpOf(k) = "get_status" /\ "get_status" \in Op
            /\ k.id = id /\ k.tenant = t /\ k.kind # "send_email"
        BY NoEditsType
           DEF New, GoodTask, Task, Kind, Awaited, InService, OpOf, Op
      <3>2. Enter(q, "get_status", id, t, AnyDraft) /\ Become(q, k)
        BY <2>5 DEF GetApprovalStatus
      <3> HIDE DEF k
      <3> QED
        BY <3>1, <3>2, AnyDraftType, EnterOneCaller
    <2> QED
      BY <1>1, <2>1, <2>2, <2>3, <2>4, <2>5 DEF Arrival
  <1>2. ASSUME NEW q \in Req, Provider(q)
        PROVE  OneCaller'
    <2>1. PICK k \in GoodTask \cup {NoTask} :
            /\ task[q].pc \in Awaited /\ Become(q, k)
            /\ k = NoTask \/ k.pc \in Awaited
            /\ UNCHANGED <<call, caller>>
      <3>1. /\ task[q] \in GoodTask /\ task[q].pc \in {"provider", "replace"}
            /\ UNCHANGED <<call, caller>>
        BY <1>2, TaskAssumption
           DEF Provider, ProviderCreates, ProviderReads, ProviderSends,
               ProviderUpdates, ProviderCopies, ProviderReplaces, ProviderFails,
               At, FlowTypes, serviceVars
      <3>2. CASE End(q)
        BY <3>1, <3>2 DEF End, Awaited
      <3>3. CASE ProviderCreates(q)
        <4>1. PICK d \in Resource :
                Become(q, [task[q] EXCEPT !.pc = "resume", !.draft = d])
          BY <3>3 DEF ProviderCreates
        <4>2. /\ [task[q] EXCEPT !.pc = "resume", !.draft = d] \in GoodTask
              /\ [task[q] EXCEPT !.pc = "resume", !.draft = d].pc = "resume"
          BY <3>1, <3>3 DEF ProviderCreates, At, GoodTask, Task, Awaited
        <4> QED
          BY <3>1, <4>1, <4>2 DEF Awaited
      <3>4. CASE ProviderReads(q)
        <4> DEFINE k == [task[q] EXCEPT
                           !.pc = "resume",
                           !.content = mailbox[task[q].tenant][task[q].draft]]
        <4>1. k \in GoodTask /\ k.pc = "resume"
          BY <3>1, <3>4 DEF ProviderReads, At, GoodTask, Task, Awaited
        <4>2. Become(q, k)
          BY <3>4 DEF ProviderReads
        <4> HIDE DEF k
        <4> QED
          BY <3>1, <4>1, <4>2 DEF Awaited
      <3>5. CASE Become(q, [task[q] EXCEPT !.pc = "resume"])
                 /\ task[q].kind \in {"send_email", "approve"}
        <4>1. /\ [task[q] EXCEPT !.pc = "resume"] \in GoodTask
              /\ [task[q] EXCEPT !.pc = "resume"].pc = "resume"
          BY <3>1, <3>5 DEF GoodTask, Task, Awaited
        <4> QED
          BY <3>1, <3>5, <4>1 DEF Awaited
      <3>6. CASE ProviderCopies(q)
        <4> DEFINE k == [task[q] EXCEPT
                           !.pc = "replace",
                           !.content = mailbox[task[q].tenant][task[q].draft]]
        <4>1. k \in GoodTask /\ k.pc = "replace"
          BY <3>1, <3>6 DEF ProviderCopies, At, GoodTask, Task, Awaited
        <4>2. Become(q, k)
          BY <3>6 DEF ProviderCopies
        <4> HIDE DEF k
        <4> QED
          BY <3>1, <4>1, <4>2 DEF Awaited
      <3> QED
        BY <1>2, <3>2, <3>3, <3>4, <3>5, <3>6
           DEF Provider, ProviderSends, ProviderUpdates, ProviderReplaces,
               ProviderFails, At
    <2> QED
      BY <2>1, AwaitingOneCaller
  <1>3. ASSUME NEW q \in Req, Resume(q)
        PROVE  OneCaller'
    <2>1. CASE DecideEdited(q)
      <3> DEFINE k == [task[q] EXCEPT !.pc = "service"]
      <3>1. task[q] \in GoodTask /\ task[q].kind = "approve"
        BY <2>1, TaskAssumption DEF DecideEdited, At, FlowTypes
      <3>2. /\ k \in GoodTask /\ k.pc \in InService
            /\ OpOf(k) = "approve" /\ "approve" \in Op
            /\ k.id = task[q].id /\ k.tenant = task[q].tenant
            /\ k.kind # "send_email"
            /\ task[q].id \in ApprovalId /\ task[q].tenant \in Tenant
        BY <3>1 DEF GoodTask, Task, Awaited, InService, OpOf, Op
      <3>3. /\ Enter(q, "approve", task[q].id, task[q].tenant, AnyDraft)
            /\ Become(q, k)
        BY <2>1 DEF DecideEdited
      <3> HIDE DEF k
      <3> QED
        BY <3>2, <3>3, AnyDraftType, EnterOneCaller
    <2>2. CASE \/ RecordCreated(q) \/ SaveFails(q) \/ RecordSent(q)
               \/ \E id \in ApprovalId : SaveRequest(q, id)
      <3>1. /\ task[q].pc = "resume" /\ Become(q, NoTask)
            /\ UNCHANGED <<call, caller>>
        BY <2>2 DEF RecordCreated, SaveFails, RecordSent, SaveRequest,
                    RequestApproval, At, End, serviceVars
      <3> QED
        BY <3>1, AwaitingOneCaller DEF Awaited
    <2> QED
      BY <1>3, <2>1, <2>2 DEF Resume
  <1>4. ASSUME NEW q \in Req, Finish(q)
        PROVE  OneCaller'
    <2>1. task[q] \in GoodTask \cup {NoTask} /\ Leave(q)
      BY <1>4 DEF FlowTypes, Finish, SendDenied, SendGranted, NothingToEdit,
                  FoundToEdit, Answer
    <2>2. CASE Become(q, NoTask)
      BY <2>1, <2>2, LeaveOneCaller
    <2>3. CASE SendGranted(q)
      <3>1. /\ [task[q] EXCEPT !.pc = "provider"] \in GoodTask
            /\ [task[q] EXCEPT !.pc = "provider"].pc = "provider"
        BY <2>1, <2>3 DEF SendGranted, At, GoodTask, Task, Awaited
      <3> QED
        BY <2>1, <2>3, <3>1, LeaveOneCaller DEF SendGranted, Awaited
    <2>4. CASE FoundToEdit(q)
      <3> DEFINE k == [task[q] EXCEPT !.pc = "provider",
                                      !.draft = call[Server].req.resource]
      <3>1. /\ call[Server] \in Call /\ call[Server] # NoCall
            /\ call[Server].req # NoRecord
        BY <2>4 DEF FoundToEdit, Outcome, KnownReq, Proc, Leave, Return, TypeOK
      <3>2. call[Server].req.resource \in Resource
        BY <3>1 DEF Call, ApprovalRequest
      <3>3. k \in GoodTask /\ k.pc = "provider"
        BY <2>1, <2>4, <3>2 DEF FoundToEdit, At, GoodTask, Task, Awaited
      <3>4. Become(q, k)
        BY <2>4 DEF FoundToEdit
      <3> HIDE DEF k
      <3> QED
        BY <2>1, <3>3, <3>4, LeaveOneCaller DEF Awaited
    <2> QED
      BY <1>4, <2>2, <2>3, <2>4
         DEF Finish, SendDenied, NothingToEdit, Answer, End
  <1>5. CASE ServerStep \/ WriteStep(Server)
    <2>1. /\ ResolveFresh(Server) \/ ResolveExpired(Server) \/ Write(Server)
          /\ UNCHANGED <<task, caller>>
      BY <1>5 DEF ServerStep, WriteStep, flowVars
    <2> QED
      BY <2>1, ServerMethodGoesOn, SameCaller
  <1>6. ASSUME NEW p \in Cli, CliStep(p) \/ WriteStep(p)
        PROVE  OneCaller'
    <2>1. p # Server /\ Server \in Proc
      BY ServerAssumption DEF Proc
    <2>2. call'[Server] = call[Server] /\ UNCHANGED <<task, caller>>
      BY <1>6, <2>1
         DEF CliStep, WriteStep, flowVars, TypeOK, Get, GetFails, ResolveFresh,
             ResolveExpired, Write, Return, Crash, CrashInUpdate
    <2> QED
      BY <2>2, SameCaller
  <1>7. CASE ServerCrash
    <2>1. call'[Server] = NoCall
      BY <1>7 DEF ServerCrash, LoopFree, Crash, CrashInUpdate, CrashInSave,
                  TypeOK, Proc, serviceVars
    <2>2. caller' = NoTask /\ \A q \in Req : task'[q] = NoTask
      BY <1>7 DEF ServerCrash
    <2> QED
      BY <2>1, <2>2 DEF OneCaller, LoopFree
  <1>8. CASE Clock \/ UNCHANGED vars
    BY <1>8, SameCaller DEF Clock, Tick, vars, flowVars, serviceVars
  <1> QED
    BY <1>1, <1>2, <1>3, <1>4, <1>5, <1>6, <1>7, <1>8 DEF FlowNext

----------------------------------------------------------------------------
LEMMA InitFInv == FlowInit => FInv
  <1> SUFFICES ASSUME FlowInit PROVE FInv
    OBVIOUS
  <1>1. Init /\ IInv
    BY InitIInv DEF FlowInit
  <1>2. KnownReq
    BY <1>1 DEF Init, KnownReq
  <1>3. FlowTypes
    BY DEF FlowInit, FlowTypes, FlowTypeOK
  <1>4. OneCaller
    <2>1. LoopFree
      BY <1>1 DEF Init, LoopFree, Proc
    <2> QED
      BY <2>1 DEF FlowInit, OneCaller
  <1> QED
    BY <1>1, <1>2, <1>3, <1>4 DEF FInv

LEMMA FInvPreserved ==
    ASSUME FInv, [FlowNext]_vars
    PROVE  FInv' /\ [Next]_serviceVars
  <1>1. [Next]_serviceVars
    <2>1. CASE FlowNext
      BY <2>1, FlowStepMaps DEF FInv
    <2>2. CASE UNCHANGED vars
      BY <2>2 DEF vars
    <2> QED
      BY <2>1, <2>2
  <1>2. IInv' /\ TypeOK'
    BY <1>1, IInvPreserved DEF FInv, IInv
  <1>3. KnownReq'
    BY <1>1, KnownReqPreserved DEF FInv
  <1>4. FlowTypes'
    BY <1>2, FlowTypesPreserved
  <1>5. OneCaller'
    BY OneCallerPreserved
  <1> QED
    BY <1>1, <1>2, <1>3, <1>4, <1>5 DEF FInv

(* What every reachable state of the send flow satisfies.                  *)
THEOREM FlowInvariance == FlowSpec => []FInv
  <1>1. FInv /\ [FlowNext]_vars => FInv'
    BY FInvPreserved
  <1> QED
    BY <1>1, InitFInv, PTL DEF FlowSpec

(* EmailService, the routes and the command line use the approval store    *)
(* only in ways ApprovalService allows: what is proved of the service      *)
(* holds while coroutines, provider threads and crashes surround it.       *)
THEOREM FlowUsesTheService == FlowSpec => Spec
  <1>1. FlowInit => Init
    BY DEF FlowInit
  <1>2. FInv /\ [FlowNext]_vars => [Next]_serviceVars
    BY FInvPreserved
  <1> QED
    BY <1>1, <1>2, FlowInvariance, PTL DEF FlowSpec, Spec

(* With the requests' coroutines around it, the service still makes one    *)
(* store call at a time, and nothing else touches the records.             *)
COROLLARY FlowUsesPort == FlowSpec => UsesPort
  BY FlowUsesTheService, ServiceUsesPort, PTL

(* So, while no two calls on one request overlap, the life of a request is *)
(* as the abstract specification has it, whatever the coroutines and the   *)
(* command line do.                                                        *)
THEOREM SerialFlowImplementsLifecycle ==
    FlowSpec /\ []NoOverlap => ImplementsLifecycle
  BY FlowUsesTheService, SerialImplementsLifecycle, PTL

(* Without a command line nothing has to be assumed: the event loop runs   *)
(* each method of the service in one piece.                                *)
THEOREM FlowImplementsLifecycle ==
    ASSUME Cli = {}
    PROVE  FlowSpec => ImplementsLifecycle
  BY FlowUsesTheService, SoloImplementsLifecycle, PTL

(* The variables of the send flow keep their types.                        *)
THEOREM FlowTypesCorrect == FlowSpec => []FlowTypeOK
  <1>1. FInv => FlowTypeOK
    BY DEF FInv, FlowTypes
  <1> QED
    BY <1>1, FlowInvariance, PTL
=============================================================================
