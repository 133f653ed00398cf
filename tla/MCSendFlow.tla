---------------------------- MODULE MCSendFlow ----------------------------
(* Instances of SendFlow for TLC: one kind of draft written by the agent,  *)
(* and reviewers who retype the part of the body they are shown, or the    *)
(* subject.                                                                *)
EXTENDS SendFlow, TLC

CONSTANTS a1, a2, q1, q2

Original == CHOOSE x \in Text : TRUE
Retyped == CHOOSE x \in Text : x # Original

MCWritten == {[subject |-> Original, body |-> Original, rest |-> Original]}
BodyEdits == {[subject |-> NoText, body |-> Retyped]}
SubjectEdits == {[subject |-> Retyped, body |-> NoText]}
BothEdits == BodyEdits \cup SubjectEdits
MCPayload == {Preview(c) : c \in Content}

(* Approval ids and request slots are only compared for equality.          *)
Symmetry == Permutations(ApprovalId) \cup Permutations(Req)

(* All but what no action and no property of a run with this VIEW reads:   *)
(* the audit log, and the history of what was sent, edited and shown.      *)
WithoutHistory == <<serviceVars, mailbox, task, caller, delivered>>

(* The same where of the audit log the lines that say sent are read.       *)
WithoutOtherLines ==
    <<serviceVars, mailbox, task, caller, delivered, sent, applied,
      overwritten, approvedViews, {l \in audit : l.result = "sent"}>>

(* Two bounds of one run.  A step out of them is still checked, but no     *)
(* step after it.  The first: one request, of either draft, and cards that *)
(* edit the body.                                                          *)
Pending == {q \in Req : /\ task[q] # NoTask
                        /\ task[q].kind = "request_send_approval"}
Requested == {id \in ApprovalId : asked[id] # NoRecord}
Named == {task[q].id : q \in {x \in Req : task[x] # NoTask}} \ {Nil}

OneRequest ==
    /\ Cardinality(Requested) + Cardinality(Pending) <= 1
    /\ Cardinality(Requested \cup Named) <= 1
    /\ {l.edits : l \in applied} \subseteq BodyEdits
    /\ \A q \in Req : task[q] # NoTask =>
          task[q].edits \in BodyEdits \cup {NoEdits}

(* The second: two requests of one draft, and cards that edit any field.   *)
(* Nothing expires, the file keeps what is in it, one of the requests is   *)
(* approved and none rejected, no card of an approved request edits its    *)
(* draft, and no message has left.                                         *)
TwoCardsOneMessage ==
    /\ now = 0 /\ intact /\ sent = {}
    /\ \A id \in Requested :
          store[id] # NoRecord /\ store[id].status # "rejected"
    /\ Cardinality({id \in ApprovalId : grants[id] > 0}) <= 1
    /\ \A t \in Tenant, d \in Resource \ {AnyDraft} : mailbox[t][d] = NoDraft
    /\ \A q \in Req : task[q] # NoTask =>
          /\ task[q].draft \in {Nil, AnyDraft}
          /\ \/ task[q].kind = "request_send_approval"
             \/ /\ task[q].kind = "approve"
                /\ task[q].pc = "service" \/ grants[task[q].id] = 0
             \/ task[q].kind = "send_email" /\ grants[task[q].id] > 0
             \/ /\ task[q].kind = "create_draft"
                /\ \/ task[q].pc = "resume"
                   \/ \A t \in Tenant : mailbox[t][AnyDraft] = NoDraft

OneOrTwoRequests == OneRequest \/ TwoCardsOneMessage
=============================================================================
