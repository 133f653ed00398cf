--------------------------- MODULE ApprovalStore ---------------------------
(***************************************************************************)
(* What ports/approval_store.py promises its callers: a dictionary of      *)
(* approval records on which every call takes effect at once.  A process   *)
(* killed in the middle of a write may leave no records, or a store that   *)
(* answers nobody any more.                                                *)
(***************************************************************************)
EXTENDS ApprovalRecords

CONSTANTS
    Client,           \* the processes that use the store
    Saved             \* the requests they save

VARIABLES
    store,            \* the records
    readable,         \* FALSE: every call raises
    reply             \* what each client's last call returned ("none" is also
                      \* what a save returns)

storeVars == <<store, readable, reply>>

Answered(kind, request) == [kind |-> kind, request |-> request]
NoReply == Answered("none", NoRecord)

Reply ==
    [kind : {"none", "request", "not_found", "unreadable"},
     request : ApprovalRequest \cup {NoRecord}]

Init ==
    /\ store = EmptyStore
    /\ readable = TRUE
    /\ reply = [p \in Client |-> NoReply]

SaveRequest(p, id, request) ==
    /\ readable
    /\ store' = Save(store, id, request)
    /\ reply' = [reply EXCEPT ![p] = NoReply]
    /\ UNCHANGED readable

GetRequest(p, id, t) ==
    /\ readable
    /\ reply' = [reply EXCEPT ![p] =
                   IF Visible(store, id, t) THEN Answered("request", store[id])
                   ELSE Answered("not_found", NoRecord)]
    /\ UNCHANGED <<store, readable>>

UpdateRequest(p, id, t, st) ==
    /\ readable
    /\ Visible(store, id, t)
    /\ store' = UpdateStatus(store, id, st)
    /\ reply' = [reply EXCEPT ![p] = Answered("request", store'[id])]
    /\ UNCHANGED readable

UpdateFails(p, id, t) ==
    /\ readable
    /\ ~Visible(store, id, t)
    /\ reply' = [reply EXCEPT ![p] = Answered("not_found", NoRecord)]
    /\ UNCHANGED <<store, readable>>

Unreadable(p) ==
    /\ ~readable
    /\ reply' = [reply EXCEPT ![p] = Answered("unreadable", NoRecord)]
    /\ UNCHANGED <<store, readable>>

(* The client goes on to its next call, or is gone.                        *)
Forget(p) ==
    /\ reply' = [reply EXCEPT ![p] = NoReply]
    /\ UNCHANGED <<store, readable>>

KilledInWrite(p) ==
    /\ store' = EmptyStore
    /\ readable' \in BOOLEAN
    /\ reply' = [reply EXCEPT ![p] = NoReply]

Next ==
    \E p \in Client :
        \/ \E id \in ApprovalId :
              \/ \E request \in Saved : SaveRequest(p, id, request)
              \/ \E t \in Tenant :
                    \/ GetRequest(p, id, t)
                    \/ \E st \in Status : UpdateRequest(p, id, t, st)
                    \/ UpdateFails(p, id, t)
        \/ Unreadable(p) \/ Forget(p) \/ KilledInWrite(p)

Spec == Init /\ [][Next]_storeVars
=============================================================================
