-------------------------- MODULE ApprovalService --------------------------
(***************************************************************************)
(* The human-approval gate, at the granularity of the store's file lock.   *)
(*                                                                         *)
(* Several operating-system processes call ApprovalService on one JSON     *)
(* file: the MCP server, and every run of scripts/approve_request.py.      *)
(* FileApprovalStore holds an exclusive flock during each of its methods   *)
(* and nowhere else, so one step of this module is one such critical       *)
(* section, and a method of ApprovalService that makes two store calls     *)
(* (get, then update_status) is two steps with the lock free in between.   *)
(*                                                                         *)
(* Inside the server the methods are synchronous code on one event loop:   *)
(* no second call starts while one is in progress, so the server is one    *)
(* process here however many requests it serves.                           *)
(***************************************************************************)
EXTENDS ApprovalRecords

CONSTANTS
    Server,       \* the MCP server process
    Cli,          \* runs of scripts/approve_request.py
    NoCall,       \* the process is in no ApprovalService method
    MaxTime       \* bound: the clock stops there

Proc == Cli \cup {Server}

ASSUME ServerAssumption == Server \notin Cli
ASSUME MaxTimeAssumption == MaxTime \in Nat

VARIABLES
    store,        \* the dictionary in the file
    intact,       \* FALSE: the file holds half a JSON text and cannot be parsed
    now,          \* the clock
    call,         \* the method each process is executing
    asked,        \* history: every request as request_approval saved it
    grants,       \* history: how often APPROVED was written, per id
    openings      \* history: how often CONSUMED was written, that is, how often
                  \* the gate let a send through, per id

serviceVars == <<store, intact, now, call, asked, grants, openings>>

Op == {"get_status", "approve", "reject", "consume"}
Error == {"not_found", "mismatch", "expired", "not_granted", "unreadable"}
Result == Status \cup Error \cup {"none", "proceed", "ok"}

(* Locals of a method in progress: its arguments, the request as the store  *)
(* last returned it (req) and, once it is over, what the method returned or *)
(* raised (result).                                                         *)
Call ==
    [op : Op, id : ApprovalId, tenant : Tenant, resource : Resource,
     req : ApprovalRequest \cup {NoRecord},
     pc : {"resolve", "write", "return"}, result : Result]

ASSUME NoCallAssumption == NoCall \notin Call

TypeOK ==
    /\ store \in Stores
    /\ intact \in BOOLEAN
    /\ now \in Nat
    /\ call \in [Proc -> Call \cup {NoCall}]
    /\ asked \in Stores
    /\ grants \in [ApprovalId -> Nat]
    /\ openings \in [ApprovalId -> Nat]

Init ==
    /\ store = EmptyStore
    /\ intact = TRUE
    /\ now = 0
    /\ call = [p \in Proc |-> NoCall]
    /\ asked = EmptyStore
    /\ grants = [id \in ApprovalId |-> 0]
    /\ openings = [id \in ApprovalId |-> 0]

----------------------------------------------------------------------------
(* request_approval: one critical section.  uuid4 never repeats an id.     *)
RequestApproval(id, t, r, pl) ==
    /\ call[Server] = NoCall
    /\ intact
    /\ asked[id] = NoRecord
    /\ LET request == NewRequest(t, r, pl, now) IN
       /\ store' = Save(store, id, request)
       /\ asked' = Save(asked, id, request)
    /\ UNCHANGED <<intact, now, call, grants, openings>>

(* Only the server consumes; the command line shows, approves and rejects. *)
MayCall(p, op) == op = "consume" => p = Server

(* Every method starts with get_status, and that with store.get.           *)
Get(p, op, id, t, r) ==
    /\ call[p] = NoCall
    /\ MayCall(p, op)
    /\ intact /\ Visible(store, id, t)
    /\ call' = [call EXCEPT ![p] =
                  [op |-> op, id |-> id, tenant |-> t, resource |-> r,
                   req |-> store[id], pc |-> "resolve", result |-> "none"]]
    /\ UNCHANGED <<store, intact, now, asked, grants, openings>>

(* Mutation of Unavailable: a file nobody can read passes for an empty one. *)
NothingUnreadable == "not_found"

(* ApprovalNotFoundError, or json.loads raising on a half-written file.    *)
Unavailable == IF intact THEN "not_found" ELSE "unreadable"

GetFails(p, op, id, t, r) ==
    /\ call[p] = NoCall
    /\ MayCall(p, op)
    /\ ~(intact /\ Visible(store, id, t))
    /\ call' = [call EXCEPT ![p] =
                  [op |-> op, id |-> id, tenant |-> t, resource |-> r,
                   req |-> NoRecord, pc |-> "return", result |-> Unavailable]]
    /\ UNCHANGED <<store, intact, now, asked, grants, openings>>

(* What a method makes of the request get_status gave it: "proceed" to its *)
(* own update_status, or the status or error it ends with.  Before         *)
(* each comes its mutation: a rejected request can still be approved, a    *)
(* consumed one is granted again, the draft is not compared.               *)
DecideAgain(request) ==
    IF request.status \in {"pending", "rejected"} THEN "proceed" ELSE "mismatch"

DecideVerdict(request) ==
    IF request.status = "pending" THEN "proceed" ELSE "mismatch"

ConsumeReplays(request, d) ==
    IF request.resource # d THEN "mismatch"
    ELSE IF request.status = "expired" THEN "expired"
    ELSE IF request.status \in {"pending", "rejected"} THEN "not_granted"
    ELSE "proceed"

ConsumeAnyDraft(request, d) ==
    IF request.status = "expired" THEN "expired"
    ELSE IF request.status # "approved" THEN "not_granted"
    ELSE "proceed"

ConsumeVerdict(request, d) ==
    IF request.resource # d THEN "mismatch"
    ELSE IF request.status = "expired" THEN "expired"
    ELSE IF request.status # "approved" THEN "not_granted"
    ELSE "proceed"

Verdict(c, request) ==
    CASE c.op = "get_status" -> request.status
      [] c.op \in {"approve", "reject"} -> DecideVerdict(request)
      [] c.op = "consume" -> ConsumeVerdict(request, c.resource)

(* _resolve_expiry finds the request still good, and the method goes on    *)
(* with the copy it read.                                                  *)
ResolveFresh(p) ==
    /\ call[p] # NoCall
    /\ call[p].pc = "resolve"
    /\ ~Expired(call[p].req, now)
    /\ LET verdict == Verdict(call[p], call[p].req) IN
       call' = [call EXCEPT ![p] =
                   [@ EXCEPT
                      !.pc = IF verdict = "proceed" THEN "write" ELSE "return",
                      !.result = verdict]]
    /\ UNCHANGED <<store, intact, now, asked, grants, openings>>

(* _resolve_expiry writes EXPIRED over whatever the record holds by now.   *)
ResolveExpired(p) ==
    /\ call[p] # NoCall
    /\ call[p].pc = "resolve"
    /\ Expired(call[p].req, now)
    /\ LET c == call[p] IN
       \/ /\ intact /\ Visible(store, c.id, c.tenant)
          /\ store' = UpdateStatus(store, c.id, "expired")
          /\ call' = [call EXCEPT ![p] =
                         [@ EXCEPT !.pc = "return",
                                   !.req = store'[c.id],
                                   !.result = Verdict(c, store'[c.id])]]
       \/ /\ ~(intact /\ Visible(store, c.id, c.tenant))
          /\ store' = store
          /\ call' = [call EXCEPT ![p] =
                         [@ EXCEPT !.pc = "return", !.result = Unavailable]]
    /\ UNCHANGED <<intact, now, asked, grants, openings>>

(* Mutation of NewStatus: a status no reader of the file knows.            *)
UnknownStatus(op) ==
    CASE op = "approve" -> "approved"
      [] op = "reject" -> "rejected"
      [] op = "consume" -> "used"

NewStatus(op) ==
    CASE op = "approve" -> "approved"
      [] op = "reject" -> "rejected"
      [] op = "consume" -> "consumed"

(* The update_status call of decide and of consume_if_approved.            *)
Write(p) ==
    /\ call[p] # NoCall
    /\ call[p].pc = "write"
    /\ LET c == call[p] IN
       \/ /\ intact /\ Visible(store, c.id, c.tenant)
          /\ store' = UpdateStatus(store, c.id, NewStatus(c.op))
          /\ grants' = IF c.op = "approve"
                       THEN [grants EXCEPT ![c.id] = @ + 1] ELSE grants
          /\ openings' = IF c.op = "consume"
                         THEN [openings EXCEPT ![c.id] = @ + 1] ELSE openings
          /\ call' = [call EXCEPT ![p] =
                         [@ EXCEPT !.pc = "return",
                                   !.req = store'[c.id],
                                   !.result = "ok"]]
       \/ /\ ~(intact /\ Visible(store, c.id, c.tenant))
          /\ call' = [call EXCEPT ![p] =
                         [@ EXCEPT !.pc = "return", !.result = Unavailable]]
          /\ UNCHANGED <<store, grants, openings>>
    /\ UNCHANGED <<intact, now, asked>>

(* The caller takes the result; a command-line run prints it and exits.    *)
Return(p) ==
    /\ call[p] # NoCall
    /\ call[p].pc = "return"
    /\ call' = [call EXCEPT ![p] = NoCall]
    /\ UNCHANGED <<store, intact, now, asked, grants, openings>>

----------------------------------------------------------------------------
(* A process dies outside the store's critical sections.                   *)
Crash(p) ==
    /\ call[p] # NoCall
    /\ call' = [call EXCEPT ![p] = NoCall]
    /\ UNCHANGED <<store, intact, now, asked, grants, openings>>

(* _write truncates the file before it writes the new text.  A process     *)
(* that dies in between leaves an empty file, which the next open reads as *)
(* no records at all, or the first part of the text, which nobody can read.*)
Truncated ==
    \/ store' = EmptyStore /\ UNCHANGED intact
    \/ intact' = FALSE /\ UNCHANGED store

AboutToWrite(c) ==
    \/ c.pc = "write"
    \/ c.pc = "resolve" /\ Expired(c.req, now)

CrashInUpdate(p) ==
    /\ call[p] # NoCall
    /\ AboutToWrite(call[p])
    /\ intact /\ Visible(store, call[p].id, call[p].tenant)
    /\ Truncated
    /\ call' = [call EXCEPT ![p] = NoCall]
    /\ UNCHANGED <<now, asked, grants, openings>>

CrashInSave ==
    /\ call[Server] = NoCall
    /\ intact
    /\ Truncated
    /\ UNCHANGED <<now, call, asked, grants, openings>>

Tick ==
    /\ now < MaxTime
    /\ now' = now + 1
    /\ UNCHANGED <<store, intact, call, asked, grants, openings>>

----------------------------------------------------------------------------
Begin(p) ==
    \E op \in Op, id \in ApprovalId, t \in Tenant, r \in Resource :
        Get(p, op, id, t, r) \/ GetFails(p, op, id, t, r)

Next ==
    \/ \E id \in ApprovalId, t \in Tenant, r \in Resource, pl \in Payload :
          RequestApproval(id, t, r, pl)
    \/ \E p \in Proc :
          \/ Begin(p) \/ ResolveFresh(p) \/ ResolveExpired(p) \/ Write(p)
          \/ Return(p) \/ Crash(p) \/ CrashInUpdate(p)
    \/ CrashInSave
    \/ Tick

Spec == Init /\ [][Next]_serviceVars

----------------------------------------------------------------------------
InProgress(p) == call[p] # NoCall /\ call[p].pc \in {"resolve", "write"}

(* A go-ahead nobody has used yet: the record says APPROVED, or the server *)
(* holds a copy that says so and is about to consume it.                   *)
Spendable(id) ==
    \/ store[id] # NoRecord /\ store[id].status = "approved"
    \/ /\ InProgress(Server)
       /\ call[Server].op = "consume" /\ call[Server].id = id
       /\ call[Server].req.status = "approved"

(* What a method knows of the copy it read by the time it writes.  Only    *)
(* with this are the invariants below inductive.                           *)
CallOK ==
    \A p \in Proc :
        call[p] # NoCall =>
            /\ MayCall(p, call[p].op)
            /\ call[p].pc = "write" =>
                  Verdict(call[p], call[p].req) = "proceed"

(* The gate never opens more often than a human's approval was written,    *)
(* whatever the server, the command line, expiry and crashes do to the     *)
(* record between the two store calls of each method.  The second conjunct *)
(* counts the go-ahead still to be spent.                                  *)
GateWithinGrants ==
    \A id \in ApprovalId :
        /\ openings[id] <= grants[id]
        /\ Spendable(id) => openings[id] < grants[id]

(* update_status replaces the status and nothing else, so what a request   *)
(* is for, who owns it, what the reviewer was shown and when it lapses stay *)
(* as request_approval saved them, in the store and in every copy a method *)
(* holds across its two store calls.                                       *)
SameTerms(request, id) ==
    /\ asked[id] # NoRecord
    /\ request = [asked[id] EXCEPT !.status = request.status]

TermsKept ==
    /\ \A id \in ApprovalId : store[id] # NoRecord => SameTerms(store[id], id)
    /\ \A p \in Proc :
          InProgress(p) =>
            /\ call[p].req # NoRecord
            /\ SameTerms(call[p].req, call[p].id)
            /\ call[p].req.tenant = call[p].tenant

(* consume_if_approved returns normally only for the tenant and the draft  *)
(* the request was made for, and only after a human approved it.           *)
GateOpensForItsOwn ==
    \A p \in Proc :
        call[p] # NoCall /\ call[p].op = "consume" /\ call[p].result = "ok" =>
            LET c == call[p] IN
            /\ asked[c.id] # NoRecord
            /\ asked[c.id].tenant = c.tenant
            /\ asked[c.id].resource = c.resource
            /\ grants[c.id] >= 1

(* No method decides or consumes a request whose deadline had passed when  *)
(* _resolve_expiry looked: neither a reviewer's late approve nor a late    *)
(* send of an approved request gets as far as its write.                   *)
Writing(p) == call[p] # NoCall /\ call[p].pc = "write"

NoLateStep ==
    \A p \in Proc :
        Writing(p)' /\ ~Writing(p) => now <= asked[call'[p].id].expires

NoLateVerdict == [][NoLateStep]_serviceVars

(* What domain/enums.py says of CONSUMED, that it "can never be replayed   *)
(* to trigger a second send": one request opens the gate at most once.     *)
(* The code keeps this only while a single process decides and consumes.   *)
AtMostOnceUse == \A id \in ApprovalId : openings[id] <= 1

----------------------------------------------------------------------------
(* The store as its port shows it: what is in the file, whether it can be  *)
(* read, and what the last call of each process returned.                  *)
Records == IF intact THEN store ELSE EmptyStore

PortAnswer(c) ==
    IF c = NoCall THEN [kind |-> "none", request |-> NoRecord]
    ELSE IF c.result \in {"not_found", "unreadable"}
    THEN [kind |-> c.result, request |-> NoRecord]
    ELSE [kind |-> "request", request |-> c.req]

PortAnswers == [p \in Proc |-> PortAnswer(call[p])]

Saveable ==
    {NewRequest(t, r, pl, time) :
        t \in Tenant, r \in Resource, pl \in Payload, time \in 0..MaxTime}

Port == INSTANCE ApprovalStore
    WITH Client <- Proc, Saved <- Saveable, store <- Records,
         readable <- intact, reply <- PortAnswers

(* Run and theorem: every step of the service, of a crash in it, and of    *)
(* expiry, is one call of ports/approval_store.py with what that call      *)
(* returns, or none; ApprovalStoreFile shows that the file keeps the port. *)
UsesPort == Port!Spec

----------------------------------------------------------------------------
(* With the server as the only process, the two store calls of a method    *)
(* have nothing between them, and the service implements the lifecycle.    *)
Phase ==
    [id \in ApprovalId |->
        IF asked[id] = NoRecord THEN "none"
        ELSE IF ~intact \/ store[id] = NoRecord THEN "lost"
        ELSE store[id].status]

Lifecycle == INSTANCE ApprovalLifecycle WITH phase <- Phase, uses <- openings

(* Run and theorem: when no command-line decision ever runs beside the     *)
(* server, every step of the service is a step of a request's life or none *)
(* (no request is decided twice, revived, or used twice).                  *)
ImplementsLifecycle == Lifecycle!Spec
=============================================================================
