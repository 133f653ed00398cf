---------------------------- MODULE SendPromise ----------------------------
(***************************************************************************)
(* What the server promises the people it sends mail for, with no store,   *)
(* no coroutine and no mailbox.  A request is made once, for one draft of  *)
(* one tenant, and shows a preview of it.  People approve a request as it  *)
(* was shown, or with edits that are already in the draft.  A message      *)
(* leaves only under an approval that is not spent, from the draft the     *)
(* request was made for, and each field a reviewer can see holds what was  *)
(* shown or what somebody typed for that draft.  One exception has to be   *)
(* made: an edit may undo others, and put back in their place what the     *)
(* request it was made on shows.                                           *)
(***************************************************************************)
EXTENDS Naturals

CONSTANTS
    ApprovalId, Tenant, Resource,
    Text, NoText  \* what people and agents write; a field left out

VARIABLES
    requests,     \* the requests made
    typed,        \* the edits people made, by tenant and draft
    undoing,      \* the requests on which an edit was made that undid others
    approvals,    \* how often each request was approved
    views,        \* what the approvers of each request approved
    delivered,    \* how many messages left under each request
    sent          \* the messages that left

promiseVars == <<requests, typed, undoing, approvals, views, delivered, sent>>

(* What a reviewer sees of a draft, the draft itself, and a card's edits.  *)
Card == [subject : Text, body : Text]
Draft == [subject : Text, body : Text, rest : Text \cup {NoText}]
Edit == [subject : Text \cup {NoText}, body : Text \cup {NoText}]
NoEdits == [subject |-> NoText, body |-> NoText]

Init ==
    /\ requests = {}
    /\ typed = {}
    /\ undoing = {}
    /\ approvals = [id \in ApprovalId |-> 0]
    /\ views = [id \in ApprovalId |-> {}]
    /\ delivered = [id \in ApprovalId |-> 0]
    /\ sent = {}

Ask(id, t, d, card) ==
    /\ \A r \in requests : r.id # id
    /\ requests' = requests \cup
                     {[id |-> id, tenant |-> t, draft |-> d, shown |-> card]}
    /\ UNCHANGED <<typed, undoing, approvals, views, delivered, sent>>

Type(t, d, e) ==
    /\ typed' = typed \cup {[tenant |-> t, draft |-> d, edits |-> e]}
    /\ UNCHANGED <<requests, undoing, approvals, views, delivered, sent>>

(* The edits made to the draft of request r.                               *)
TypedFor(r) ==
    {l.edits : l \in {x \in typed : x.tenant = r.tenant /\ x.draft = r.draft}}

(* An edit on the card of request r, of a draft that has been edited, that  *)
(* keeps only what its own reviewer knew of.                               *)
TypeOver(r, e) ==
    /\ TypedFor(r) # {}
    /\ typed' = typed \cup {[tenant |-> r.tenant, draft |-> r.draft,
                             edits |-> e]}
    /\ undoing' = undoing \cup {r.id}
    /\ UNCHANGED <<requests, approvals, views, delivered, sent>>

With(text, edit) == IF edit = NoText THEN text ELSE edit

Approve(r, e) ==
    /\ e \in {NoEdits} \cup TypedFor(r)
    /\ approvals' = [approvals EXCEPT ![r.id] = @ + 1]
    /\ views' = [views EXCEPT ![r.id] = @ \cup
                   {[subject |-> With(r.shown.subject, e.subject),
                     body |-> With(r.shown.body, e.body)]}]
    /\ UNCHANGED <<requests, typed, undoing, delivered, sent>>

(* What the requests of the same draft show whose edits undid others.      *)
ShownBefore(r) ==
    {s.shown : s \in {x \in requests : /\ x.id \in undoing
                                       /\ x.tenant = r.tenant
                                       /\ x.draft = r.draft}}

Deliver(r, c) ==
    /\ delivered[r.id] < approvals[r.id]
    /\ LET texts == {r.shown} \cup TypedFor(r) \cup ShownBefore(r) IN
       /\ c.subject \in {x.subject : x \in texts}
       /\ c.body \in {x.body : x \in texts}
    /\ delivered' = [delivered EXCEPT ![r.id] = @ + 1]
    /\ sent' = sent \cup {[id |-> r.id, tenant |-> r.tenant,
                           draft |-> r.draft, content |-> c]}
    /\ UNCHANGED <<requests, typed, undoing, approvals, views>>

Next ==
    \/ \E id \in ApprovalId, t \in Tenant, d \in Resource, card \in Card :
          Ask(id, t, d, card)
    \/ \E t \in Tenant, d \in Resource, e \in Edit : Type(t, d, e)
    \/ \E r \in requests :
          \/ \E e \in Edit : Approve(r, e) \/ TypeOver(r, e)
          \/ \E c \in Draft : Deliver(r, c)

Spec == Init /\ [][Next]_promiseVars
=============================================================================
