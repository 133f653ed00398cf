-------------------------- MODULE ApprovalRecords --------------------------
(***************************************************************************)
(* The data of the approval gate: the records of the approval store and    *)
(* what each method of FileApprovalStore does to the dictionary it has     *)
(* loaded, as operators on that dictionary.  No state lives here.          *)
(*                                                                         *)
(* A store is a function from every approval id to its record, or NoRecord *)
(* for a key the JSON object does not have.  The only action the program   *)
(* ever asks approval for is "send_email", so the field `resource' stands  *)
(* for the pair (action, resource_id).                                     *)
(***************************************************************************)
EXTENDS Naturals

CONSTANTS
    ApprovalId,   \* ids handed out by uuid4()
    Tenant,       \* tenant ids
    Resource,     \* draft ids, unique within a tenant only
    Payload,      \* what a reviewer is shown of a draft
    Ttl,          \* approval_ttl_minutes
    NoRecord      \* the value of a missing key

Status == {"pending", "approved", "rejected", "expired", "consumed"}

ApprovalRequest ==
    [tenant : Tenant, resource : Resource, payload : Payload,
     status : Status, expires : Nat]

ASSUME TtlAssumption == Ttl \in Nat \ {0}
ASSUME NoRecordAssumption == NoRecord \notin ApprovalRequest

Stores == [ApprovalId -> ApprovalRequest \cup {NoRecord}]

EmptyStore == [id \in ApprovalId |-> NoRecord]

(* Mutation of Visible: a record of any tenant will do.                    *)
VisibleToAll(s, id, t) == s[id] # NoRecord

(* The test both `get' and `update_status' make: a record of another       *)
(* tenant is as absent as one that was never saved.                        *)
Visible(s, id, t) == s[id] # NoRecord /\ s[id].tenant = t

NewRequest(t, r, pl, time) ==
    [tenant |-> t, resource |-> r, payload |-> pl,
     status |-> "pending", expires |-> time + Ttl]

(* Mutation of Save: a new request is stored with a status of its own.     *)
SaveAsNew(s, id, request) == [s EXCEPT ![id] = [request EXCEPT !.status = "new"]]

Save(s, id, request) == [s EXCEPT ![id] = request]

(* Mutation of UpdateStatus: every status change starts the deadline anew. *)
UpdateRenews(s, id, st) ==
    [s EXCEPT ![id].status = st, ![id].expires = @ + Ttl]

UpdateStatus(s, id, st) == [s EXCEPT ![id].status = st]

(* Mutation of Expired: an approval, once given, never lapses.             *)
ExpiredPending(request, time) ==
    request.status = "pending" /\ time > request.expires

(* The condition of _resolve_expiry: strictly after expires_at, and only   *)
(* for a request that could still lead to a send.                          *)
Expired(request, time) ==
    request.status \in {"pending", "approved"} /\ time > request.expires
=============================================================================
