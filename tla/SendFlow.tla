------------------------------ MODULE SendFlow ------------------------------
(***************************************************************************)
(* From a draft to a sent message: EmailService and the approve and reject *)
(* routes of mcp/server.py, running as coroutines of one server beside the *)
(* command line, on top of ApprovalService and a mailbox.                  *)
(*                                                                         *)
(* A coroutine gives way only where it awaits the provider.  Everything    *)
(* else (a whole ApprovalService method with its two store calls, the      *)
(* audit line after a reply) runs without another coroutine in between, so *)
(* a coroutine starts or resumes only while LoopFree.  The provider's work *)
(* runs in threads and takes effect whatever the event loop is doing, and  *)
(* the command line's processes run at any time.                           *)
(***************************************************************************)
EXTENDS ApprovalService, FiniteSets

CONSTANTS
    Req,          \* tool calls and HTTP requests the server can serve at once
    NoTask,       \* the slot serves no request
    Nil,          \* an argument a task does not have (yet)
    NoDraft,      \* the mailbox has no draft under this id, and never had
    SentDraft,    \* the draft was sent and is no longer a draft
    Text,         \* what people and agents write
    NoText,       \* the empty string
    Written,      \* the drafts the agent writes
    CardEdits,    \* the edits a reviewer submits with an approval card
    Gmail         \* the tenants whose mailbox is at Gmail

(* A draft as a reviewer sees it (subject, and the first 500 characters of *)
(* the body) and the rest of its body, which the card does not show.       *)
Content == [subject : Text, body : Text, rest : Text \cup {NoText}]
Preview(c) == [subject |-> c.subject, body |-> c.body]

(* _EDITABLE_FIELDS: the subject, and `body_preview' for the whole body.   *)
(* A field the card leaves out or empty is no edit.                        *)
Edit == [subject : Text \cup {NoText}, body : Text \cup {NoText}]
NoEdits == [subject |-> NoText, body |-> NoText]

Replaced(old, new) == IF new = NoText THEN old ELSE new

(* Mutations of Edited: a field left out is blanked; the two fields of     *)
(* _EDITABLE_FIELDS are crossed.                                           *)
EditedBlanks(c, e) ==
    [subject |-> e.subject, body |-> e.body, rest |-> NoText]

EditedCrossed(c, e) ==
    [subject |-> Replaced(c.subject, e.body),
     body |-> Replaced(c.body, e.subject),
     rest |-> IF e.subject = NoText THEN c.rest ELSE NoText]

Edited(c, e) ==
    [subject |-> Replaced(c.subject, e.subject),
     body |-> Replaced(c.body, e.body),
     rest |-> IF e.body = NoText THEN c.rest ELSE NoText]

ASSUME TextAssumption == NoText \notin Text
ASSUME WrittenAssumption == Written \subseteq Content
ASSUME CardEditsAssumption == CardEdits \subseteq Edit \ {NoEdits}
ASSUME GmailAssumption == Gmail \subseteq Tenant
ASSUME PayloadAssumption == Payload = {Preview(c) : c \in Content}
ASSUME DraftAssumption ==
    {NoDraft, SentDraft} \cap Content = {} /\ NoDraft # SentDraft

VARIABLES
    mailbox,      \* the drafts of each tenant's mailbox
    task,         \* the coroutine in each slot
    caller,       \* the coroutine inside the service method in progress
    audit,        \* the lines of the audit log
    delivered,    \* history: how many messages left under each approval
    sent,         \* history: the messages that left
    applied,      \* history: the edits made to drafts
    overwritten,  \* history: the requests whose card undid other edits
    approvedViews \* history: what a human saw, edits included, when approving

flowVars == <<mailbox, task, caller, audit, delivered, sent, applied,
              overwritten, approvedViews>>
vars == <<serviceVars, flowVars>>

Kind == {"create_draft", "request_send_approval", "send_email", "approve",
         "reject", "get_approval_status"}

(* "provider": awaiting the provider.  "replace": awaiting it again, with a *)
(* copy of the draft in hand.  "resume": the reply is there.               *)
(* "status", "service": inside get_status, inside the method itself.        *)
Task ==
    [kind : Kind, pc : {"provider", "replace", "resume", "status", "service"},
     tenant : Tenant, draft : Resource \cup {Nil}, id : ApprovalId \cup {Nil},
     edits : Edit, content : Content \cup {Nil}]

Line ==
    [action : Kind \cup {"update_draft"}, tenant : Tenant, draft : Resource,
     id : ApprovalId \cup {Nil}, result : {"ok", "denied", "sent"}]

ASSUME TaskAssumption == NoTask \notin Task /\ NoTask \notin Req
ASSUME ReqAssumption == IsFiniteSet(Req)
ASSUME ResourceAssumption == Resource # {}

Message == [id : ApprovalId, tenant : Tenant, draft : Resource,
            content : Content]

FlowTypeOK ==
    /\ mailbox \in [Tenant -> [Resource -> Content \cup {NoDraft, SentDraft}]]
    /\ task \in [Req -> Task \cup {NoTask}]
    /\ caller \in Req \cup {NoTask}
    /\ audit \subseteq Line
    /\ delivered \in [ApprovalId -> Nat]
    /\ sent \subseteq Message
    /\ applied \subseteq [tenant : Tenant, draft : Resource, edits : Edit]
    /\ overwritten \subseteq ApprovalId
    /\ approvedViews \in [ApprovalId -> SUBSET Payload]

FlowInit ==
    /\ Init
    /\ mailbox = [t \in Tenant |-> [d \in Resource |-> NoDraft]]
    /\ task = [q \in Req |-> NoTask]
    /\ caller = NoTask
    /\ audit = {}
    /\ delivered = [id \in ApprovalId |-> 0]
    /\ sent = {}
    /\ applied = {}
    /\ overwritten = {}
    /\ approvedViews = [id \in ApprovalId |-> {}]

----------------------------------------------------------------------------
LoopFree == call[Server] = NoCall

At(q, kind, pc) ==
    task[q] # NoTask /\ task[q].kind = kind /\ task[q].pc = pc

New(kind, pc, t, d, id, e, c) ==
    [kind |-> kind, pc |-> pc, tenant |-> t, draft |-> d, id |-> id,
     edits |-> e, content |-> c]

Become(q, new) == task' = [task EXCEPT ![q] = new]
End(q) == Become(q, NoTask)

Log(action, t, d, id, result) ==
    audit' = audit \cup {[action |-> action, tenant |-> t, draft |-> d,
                          id |-> id, result |-> result]}

(* The draft id is an argument of consume_if_approved alone.               *)
AnyDraft == CHOOSE d \in Resource : TRUE

(* Coroutine q enters a method of ApprovalService, as far as its store.get. *)
Enter(q, op, id, t, d) ==
    /\ LoopFree
    /\ Get(Server, op, id, t, d) \/ GetFails(Server, op, id, t, d)
    /\ caller' = q

(* The method in progress ends and hands coroutine q its result.           *)
Leave(q) ==
    /\ caller = q
    /\ Return(Server)
    /\ caller' = NoTask

Outcome == call[Server].result

----------------------------------------------------------------------------
(* create_draft, and request_send_approval up to its await.                *)
CreateDraft(q, t, c) ==
    /\ task[q] = NoTask /\ LoopFree
    /\ Become(q, New("create_draft", "provider", t, Nil, Nil, NoEdits, c))
    /\ UNCHANGED <<serviceVars, mailbox, caller, audit, delivered, sent,
                   applied, overwritten, approvedViews>>

ProviderCreates(q) ==
    /\ At(q, "create_draft", "provider")
    /\ \E d \in Resource :
          /\ mailbox[task[q].tenant][d] = NoDraft
          /\ mailbox' = [mailbox EXCEPT ![task[q].tenant][d] = task[q].content]
          /\ Become(q, [task[q] EXCEPT !.pc = "resume", !.draft = d])
    /\ UNCHANGED <<serviceVars, caller, audit, delivered, sent, applied,
                   overwritten, approvedViews>>

RecordCreated(q) ==
    /\ At(q, "create_draft", "resume") /\ LoopFree
    /\ Log("create_draft", task[q].tenant, task[q].draft, Nil, "ok")
    /\ End(q)
    /\ UNCHANGED <<serviceVars, mailbox, caller, delivered, sent, applied,
                   overwritten, approvedViews>>

(* Bound: uuid4 never runs out, ApprovalId does.                           *)
IdLeft ==
    Cardinality({id \in ApprovalId : asked[id] = NoRecord}) >
    Cardinality({q \in Req : task[q] # NoTask
                             /\ task[q].kind = "request_send_approval"})

RequestSendApproval(q, t, d) ==
    /\ task[q] = NoTask /\ LoopFree
    /\ IdLeft
    /\ Become(q, New("request_send_approval", "provider", t, d, Nil, NoEdits,
                     Nil))
    /\ UNCHANGED <<serviceVars, mailbox, caller, audit, delivered, sent,
                   applied, overwritten, approvedViews>>

ProviderReads(q) ==
    /\ At(q, "request_send_approval", "provider")
    /\ mailbox[task[q].tenant][task[q].draft] \in Content
    /\ Become(q, [task[q] EXCEPT
                    !.pc = "resume",
                    !.content = mailbox[task[q].tenant][task[q].draft]])
    /\ UNCHANGED <<serviceVars, mailbox, caller, audit, delivered, sent,
                   applied, overwritten, approvedViews>>

(* The preview saved is that of the draft as the provider returned it.     *)
SaveRequest(q, id) ==
    /\ At(q, "request_send_approval", "resume")
    /\ RequestApproval(id, task[q].tenant, task[q].draft,
                       Preview(task[q].content))
    /\ Log("request_send_approval", task[q].tenant, task[q].draft, Nil, "ok")
    /\ End(q)
    /\ UNCHANGED <<mailbox, caller, delivered, sent, applied, overwritten,
                   approvedViews>>

SaveFails(q) ==
    /\ At(q, "request_send_approval", "resume") /\ LoopFree
    /\ ~intact
    /\ End(q)
    /\ UNCHANGED <<serviceVars, mailbox, caller, audit, delivered, sent,
                   applied, overwritten, approvedViews>>

(* Mutation of ProviderFails: the line is written in a `finally'.          *)
ProviderFailsButLogged(q) ==
    /\ task[q] # NoTask /\ task[q].pc \in {"provider", "replace"}
    /\ IF task[q].kind = "send_email"
       THEN Log("send_email", task[q].tenant, task[q].draft, task[q].id, "sent")
       ELSE UNCHANGED audit
    /\ End(q)
    /\ UNCHANGED <<serviceVars, mailbox, caller, delivered, sent, applied,
                   overwritten, approvedViews>>

(* Any awaited provider call may raise without having done anything: no    *)
(* such draft, no credentials, no network.  The coroutine ends there; only *)
(* the two denials of send_email and update_draft's 400 are told anybody.  *)
ProviderFails(q) ==
    /\ task[q] # NoTask /\ task[q].pc \in {"provider", "replace"}
    /\ End(q)
    /\ UNCHANGED <<serviceVars, mailbox, caller, audit, delivered, sent,
                   applied, overwritten, approvedViews>>

----------------------------------------------------------------------------
(* send_email: consume first, then send, then write the audit line.        *)
SendEmail(q, t, d, id) ==
    /\ task[q] = NoTask
    /\ Enter(q, "consume", id, t, d)
    /\ Become(q, New("send_email", "service", t, d, id, NoEdits, Nil))
    /\ UNCHANGED <<mailbox, audit, delivered, sent, applied, overwritten,
                   approvedViews>>

SendDenied(q) ==
    /\ At(q, "send_email", "service")
    /\ Leave(q) /\ Outcome # "ok"
    /\ Log("send_email", task[q].tenant, task[q].draft, task[q].id, "denied")
    /\ End(q)
    /\ UNCHANGED <<mailbox, delivered, sent, applied, overwritten,
                   approvedViews>>

(* Mutation of SendGranted: only one of the errors stops the send.         *)
SendUnlessNotGranted(q) ==
    /\ At(q, "send_email", "service")
    /\ Leave(q) /\ Outcome # "not_granted"
    /\ Become(q, [task[q] EXCEPT !.pc = "provider"])
    /\ UNCHANGED <<mailbox, audit, delivered, sent, applied, overwritten,
                   approvedViews>>

SendGranted(q) ==
    /\ At(q, "send_email", "service")
    /\ Leave(q) /\ Outcome = "ok"
    /\ Become(q, [task[q] EXCEPT !.pc = "provider"])
    /\ UNCHANGED <<mailbox, audit, delivered, sent, applied, overwritten,
                   approvedViews>>

(* Mutation of ProviderSends: a send whose reply is lost is tried again.   *)
ProviderSendsAgain(q) ==
    /\ At(q, "send_email", "provider")
    /\ LET t == task[q].tenant  d == task[q].draft  a == task[q].id IN
       /\ mailbox[t][d] \in Content
       /\ delivered' = [delivered EXCEPT ![a] = @ + 1]
       /\ delivered[a] < 3
       /\ sent' = sent \cup {[id |-> a, tenant |-> t, draft |-> d,
                              content |-> mailbox[t][d]]}
       /\ UNCHANGED <<mailbox, task>>
    /\ UNCHANGED <<serviceVars, caller, audit, applied, overwritten,
                   approvedViews>>

(* send_draft delivers the draft as it is now.  The reply may be lost, or, *)
(* with IMAP, a later step fail: the message is out and the caller sees an *)
(* error.  The draft may stay where it is with either answer: IMAP deletes *)
(* it last, does not look whether EXPUNGE was refused, and another send of *)
(* the draft may have fetched it before.                                   *)
ProviderSends(q) ==
    /\ At(q, "send_email", "provider")
    /\ LET t == task[q].tenant  d == task[q].draft  a == task[q].id IN
       /\ mailbox[t][d] \in Content
       /\ delivered' = [delivered EXCEPT ![a] = @ + 1]
       /\ sent' = sent \cup {[id |-> a, tenant |-> t, draft |-> d,
                              content |-> mailbox[t][d]]}
       /\ \/ mailbox' = [mailbox EXCEPT ![t][d] = SentDraft]
          \/ UNCHANGED mailbox
    /\ Become(q, [task[q] EXCEPT !.pc = "resume"]) \/ End(q)
    /\ UNCHANGED <<serviceVars, caller, audit, applied, overwritten,
                   approvedViews>>

RecordSent(q) ==
    /\ At(q, "send_email", "resume") /\ LoopFree
    /\ Log("send_email", task[q].tenant, task[q].draft, task[q].id, "sent")
    /\ End(q)
    /\ UNCHANGED <<serviceVars, mailbox, caller, delivered, sent, applied,
                   overwritten, approvedViews>>

----------------------------------------------------------------------------
(* The routes approve_via_channel and reject_via_channel.                  *)
Decision(kind) == IF kind = "approve" THEN "approve" ELSE "reject"

DecideFromChannel(q, kind, t, id) ==
    /\ task[q] = NoTask
    /\ Enter(q, Decision(kind), id, t, AnyDraft)
    /\ Become(q, New(kind, "service", t, Nil, id, NoEdits, Nil))
    /\ UNCHANGED <<mailbox, audit, delivered, sent, applied, overwritten,
                   approvedViews>>

(* A card with edits: get_status first, to learn the draft's id.           *)
ApproveWithEdits(q, t, id, e) ==
    /\ task[q] = NoTask
    /\ Enter(q, "get_status", id, t, AnyDraft)
    /\ Become(q, New("approve", "status", t, Nil, id, e, Nil))
    /\ UNCHANGED <<mailbox, audit, delivered, sent, applied, overwritten,
                   approvedViews>>

(* Mutation of NothingToEdit: an unreadable file is never answered.        *)
OnlyNotFound(q) ==
    /\ At(q, "approve", "status")
    /\ Leave(q) /\ Outcome = "not_found"
    /\ End(q)
    /\ UNCHANGED <<mailbox, audit, delivered, sent, applied, overwritten,
                   approvedViews>>

(* 404 without a request, 500 when the file cannot be read.                *)
NothingToEdit(q) ==
    /\ At(q, "approve", "status")
    /\ Leave(q) /\ Outcome \notin Status
    /\ End(q)
    /\ UNCHANGED <<mailbox, audit, delivered, sent, applied, overwritten,
                   approvedViews>>

(* Mutation of FoundToEdit: decide without waiting for the edit.           *)
FoundAndSkipped(q) ==
    /\ At(q, "approve", "status")
    /\ Leave(q) /\ Outcome \in Status
    /\ Become(q, [task[q] EXCEPT !.pc = "resume",
                                 !.draft = call[Server].req.resource])
    /\ UNCHANGED <<mailbox, audit, delivered, sent, applied, overwritten,
                   approvedViews>>

(* Whatever the status is, the route goes on to edit the draft.            *)
FoundToEdit(q) ==
    /\ At(q, "approve", "status")
    /\ Leave(q) /\ Outcome \in Status
    /\ Become(q, [task[q] EXCEPT !.pc = "provider",
                                 !.draft = call[Server].req.resource])
    /\ UNCHANGED <<mailbox, audit, delivered, sent, applied, overwritten,
                   approvedViews>>

(* update_draft of Graph, one PATCH of the fields given (IMAP's only       *)
(* raises: ProviderFails).  Its reply may be lost; the route answers 400.  *)
ProviderUpdates(q) ==
    /\ At(q, "approve", "provider") /\ task[q].tenant \notin Gmail
    /\ LET t == task[q].tenant  d == task[q].draft  e == task[q].edits IN
       /\ mailbox[t][d] \in Content
       /\ mailbox' = [mailbox EXCEPT ![t][d] = Edited(@, e)]
       /\ applied' = applied \cup {[tenant |-> t, draft |-> d, edits |-> e]}
    /\ Become(q, [task[q] EXCEPT !.pc = "resume"]) \/ End(q)
    /\ UNCHANGED <<serviceVars, caller, audit, delivered, sent, overwritten,
                   approvedViews>>

(* update_draft of Gmail reads the draft, waits, and replaces the whole     *)
(* message by that copy with the edits, whatever the draft has become.     *)
ProviderCopies(q) ==
    /\ At(q, "approve", "provider") /\ task[q].tenant \in Gmail
    /\ mailbox[task[q].tenant][task[q].draft] \in Content
    /\ Become(q, [task[q] EXCEPT
                    !.pc = "replace",
                    !.content = mailbox[task[q].tenant][task[q].draft]])
    /\ UNCHANGED <<serviceVars, mailbox, caller, audit, delivered, sent,
                   applied, overwritten, approvedViews>>

ProviderReplaces(q) ==
    /\ At(q, "approve", "replace")
    /\ LET t == task[q].tenant  d == task[q].draft  e == task[q].edits IN
       /\ mailbox[t][d] \in Content
       /\ mailbox' = [mailbox EXCEPT ![t][d] = Edited(task[q].content, e)]
       /\ applied' = applied \cup {[tenant |-> t, draft |-> d, edits |-> e]}
       /\ overwritten' = IF mailbox[t][d] = task[q].content THEN overwritten
                         ELSE overwritten \cup {task[q].id}
    /\ Become(q, [task[q] EXCEPT !.pc = "resume"]) \/ End(q)
    /\ UNCHANGED <<serviceVars, caller, audit, delivered, sent, approvedViews>>

(* The audit line of update_draft, and on into decide without a pause.     *)
DecideEdited(q) ==
    /\ At(q, "approve", "resume")
    /\ Enter(q, "approve", task[q].id, task[q].tenant, AnyDraft)
    /\ Log("update_draft", task[q].tenant, task[q].draft, Nil, "ok")
    /\ Become(q, [task[q] EXCEPT !.pc = "service"])
    /\ UNCHANGED <<mailbox, delivered, sent, applied, overwritten,
                   approvedViews>>

(* 200, 404 or 409: the card's edits stay whatever decide said.            *)
Answer(q) ==
    /\ \E kind \in {"approve", "reject", "get_approval_status"} :
          At(q, kind, "service")
    /\ Leave(q)
    /\ End(q)
    /\ UNCHANGED <<mailbox, audit, delivered, sent, applied, overwritten,
                   approvedViews>>

GetApprovalStatus(q, t, id) ==
    /\ task[q] = NoTask
    /\ Enter(q, "get_status", id, t, AnyDraft)
    /\ Become(q, New("get_approval_status", "service", t, Nil, id, NoEdits,
                     Nil))
    /\ UNCHANGED <<mailbox, audit, delivered, sent, applied, overwritten,
                   approvedViews>>

----------------------------------------------------------------------------
(* The method in progress in the server goes on.                           *)
ServerStep ==
    /\ ResolveFresh(Server) \/ ResolveExpired(Server)
    /\ UNCHANGED <<flowVars>>

(* What process p's approver saw: the request's preview, with the edits    *)
(* submitted on the card.                                                  *)
ViewOf(p) ==
    LET e == IF p = Server THEN task[caller].edits ELSE NoEdits
        shown == call[p].req.payload
    IN  [subject |-> Replaced(shown.subject, e.subject),
         body |-> Replaced(shown.body, e.body)]

WriteStep(p) ==
    /\ Write(p)
    /\ approvedViews' =
          IF grants' = grants THEN approvedViews
          ELSE [approvedViews EXCEPT ![call[p].id] = @ \cup {ViewOf(p)}]
    /\ UNCHANGED <<mailbox, task, caller, audit, delivered, sent, applied,
                   overwritten>>

CliStep(p) ==
    /\ \/ \E op \in {"get_status", "approve", "reject"}, id \in ApprovalId,
             t \in Tenant :
             Get(p, op, id, t, AnyDraft) \/ GetFails(p, op, id, t, AnyDraft)
       \/ ResolveFresh(p) \/ ResolveExpired(p) \/ Return(p) \/ Crash(p)
       \/ CrashInUpdate(p)
    /\ UNCHANGED flowVars

(* The server dies and comes back: every coroutine is gone.                *)
ServerCrash ==
    /\ \/ UNCHANGED serviceVars /\ LoopFree
       \/ Crash(Server) \/ CrashInUpdate(Server)
       \/ /\ \E q \in Req : At(q, "request_send_approval", "resume")
          /\ CrashInSave
    /\ \E q \in Req : task[q] # NoTask
    /\ task' = [q \in Req |-> NoTask]
    /\ caller' = NoTask
    /\ UNCHANGED <<mailbox, audit, delivered, sent, applied, overwritten,
                   approvedViews>>

Clock == Tick /\ UNCHANGED flowVars

----------------------------------------------------------------------------
Arrival(q) ==
    \E t \in Tenant :
        \/ \E c \in Written : CreateDraft(q, t, c)
        \/ \E d \in Resource : RequestSendApproval(q, t, d)
        \/ \E id \in ApprovalId :
              \/ \E d \in Resource : SendEmail(q, t, d, id)
              \/ \E kind \in {"approve", "reject"} :
                    DecideFromChannel(q, kind, t, id)
              \/ \E e \in CardEdits : ApproveWithEdits(q, t, id, e)
              \/ GetApprovalStatus(q, t, id)

Provider(q) ==
    \/ ProviderCreates(q) \/ ProviderReads(q) \/ ProviderSends(q)
    \/ ProviderUpdates(q) \/ ProviderCopies(q) \/ ProviderReplaces(q)
    \/ ProviderFails(q)

Resume(q) ==
    \/ RecordCreated(q) \/ SaveFails(q) \/ RecordSent(q) \/ DecideEdited(q)
    \/ \E id \in ApprovalId : SaveRequest(q, id)

Finish(q) ==
    \/ SendDenied(q) \/ SendGranted(q) \/ NothingToEdit(q) \/ FoundToEdit(q)
    \/ Answer(q)

FlowNext ==
    \/ \E q \in Req : Arrival(q) \/ Provider(q) \/ Resume(q) \/ Finish(q)
    \/ ServerStep \/ WriteStep(Server)
    \/ \E p \in Cli : CliStep(p) \/ WriteStep(p)
    \/ ServerCrash
    \/ Clock

FlowSpec == FlowInit /\ [][FlowNext]_vars

(* Every coroutine the loop can run gets its turn (the loop's ready queue  *)
(* is first in, first out), the method in progress is plain code, and the  *)
(* provider answers each call sooner or later, if only with an error.      *)
Fairness ==
    /\ WF_vars(ServerStep \/ WriteStep(Server))
    /\ \A q \in Req :
          /\ WF_vars(Provider(q))
          /\ SF_vars(Resume(q))
          /\ WF_vars(Finish(q))

FairFlowSpec == FlowSpec /\ Fairness

----------------------------------------------------------------------------
(* The messages that leave under one approval never outnumber the times a  *)
(* human's approval was written, whatever fails between the consume and    *)
(* the send, and whoever asks again.                                       *)
InFlight(id) ==
    {q \in Req :
        /\ task[q] # NoTask /\ task[q].kind = "send_email" /\ task[q].id = id
        /\ \/ task[q].pc = "provider"
           \/ task[q].pc = "service" /\ caller = q /\ Outcome = "ok"}

DeliveredWithinOpenings ==
    \A id \in ApprovalId :
        delivered[id] + Cardinality(InFlight(id)) <= openings[id]

DeliveredWithinGrants ==
    \A id \in ApprovalId : delivered[id] <= grants[id]

(* A message leaves only from the mailbox and the draft its approval was   *)
(* asked for.                                                              *)
SentOnlyWhatWasAsked ==
    \A m \in sent :
        /\ asked[m.id] # NoRecord
        /\ asked[m.id].tenant = m.tenant /\ asked[m.id].resource = m.draft

(* What people typed for a draft, and what the requests showed whose card  *)
(* put an older copy of it back.                                           *)
Typed(t, d) == {l.edits : l \in {x \in applied : x.tenant = t /\ x.draft = d}}

PutBack(t, d) ==
    {asked[id].payload : id \in {x \in overwritten : /\ asked[x].tenant = t
                                                    /\ asked[x].resource = d}}

Sources(shown, t, d) == {shown} \cup Typed(t, d) \cup PutBack(t, d)

From(texts, c) ==
    /\ c.subject \in {x.subject : x \in texts}
    /\ c.body \in {x.body : x \in texts}

(* Every field of a message that a reviewer could see holds what the       *)
(* reviewer of this approval was shown, or what a human typed for that     *)
(* draft on some approval card, or, at Gmail, where a card's edits were    *)
(* written over other edits from a copy older than these, what the         *)
(* reviewer of that card was shown of the draft.                           *)
SentFieldsReviewedOrTyped ==
    \A m \in sent :
        From(Sources(asked[m.id].payload, m.tenant, m.draft), m.content)

(* mcp/server.py: a card's edits are applied to the draft BEFORE the       *)
(* approval is recorded.  What a human approved is the preview with edits  *)
(* that have reached the draft.                                            *)
ApprovedTextWasApplied ==
    \A id \in ApprovalId : \A v \in approvedViews[id] :
        \E e \in {NoEdits} \cup Typed(asked[id].tenant, asked[id].resource) :
            /\ v.subject = Replaced(asked[id].payload.subject, e.subject)
            /\ v.body = Replaced(asked[id].payload.body, e.body)

(* The flow as its users see it, SendPromise: the terms of the requests,   *)
(* the edits made, the approvals, and the messages that left.              *)
Terms(id) ==
    [id |-> id, tenant |-> asked[id].tenant, draft |-> asked[id].resource,
     shown |-> asked[id].payload]

Requests == {Terms(id) : id \in {i \in ApprovalId : asked[i] # NoRecord}}

Promise == INSTANCE SendPromise
    WITH requests <- Requests, typed <- applied, undoing <- overwritten,
         approvals <- grants, views <- approvedViews

(* Run and theorem: whatever coroutines, processes, providers, expiry and  *)
(* crashes do, each step of the flow is a request, an edit, an approval or *)
(* a delivery as promised, or none of them.                                *)
KeepsPromise == Promise!Spec

(* An audit line that says a message was sent tells the truth.             *)
SentLinesAreTrue ==
    \A l \in audit :
        l.result = "sent" =>
            \E m \in sent : m.id = l.id /\ m.tenant = l.tenant
                             /\ m.draft = l.draft

(* Every request the server takes up is answered, or the server dies.      *)
EveryTaskEnds == \A q \in Req : task[q] # NoTask ~> task[q] = NoTask

----------------------------------------------------------------------------
(* ports/email_provider.py: "whatever the human approved is still exactly  *)
(* what gets sent".                                                        *)
SentAsApproved ==
    \A m \in sent : Preview(m.content) \in approvedViews[m.id]
=============================================================================
