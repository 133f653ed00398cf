------------------------- MODULE ApprovalStoreFile -------------------------
(***************************************************************************)
(* FileApprovalStore, one system call at a time: several processes, each   *)
(* of which first runs the constructor and then save, get and update_status *)
(* on one JSON file.  The methods hold an exclusive flock from before they *)
(* read the file until after they have written it; the constructor, which  *)
(* creates the file, holds no lock.                                        *)
(*                                                                         *)
(* The module refines ApprovalStore, the port: each method takes effect at *)
(* once, in its last read or with the last byte of its write.              *)
(***************************************************************************)
EXTENDS ApprovalRecords

CONSTANTS
    Server,       \* the MCP server, the only process that saves requests
    Cli,          \* runs of scripts/approve_request.py
    Saved,        \* the requests for approval the server saves
    Nobody,       \* the lock is free
    NoRequest     \* the process is in no method

Proc == Cli \cup {Server}

ASSUME ProcAssumption == Nobody \notin Proc
ASSUME SavedAssumption == Saved \subseteq ApprovalRequest

VARIABLES
    form,         \* what the file's text is
    text,         \* the dictionary it spells, when it is whole
    lock,         \* who holds the flock
    pc,           \* where each process is
    request,      \* the method each process executes, and its arguments
    loaded,       \* the dictionary each process has parsed, under the lock
    reply,        \* what each process's last method returned
    last,         \* history: the dictionary last written under the lock
    killed,       \* history: a process was killed while it wrote
    clobbered     \* history: the constructor wrote over what others had written

fileVars == <<form, text, lock, pc, request, loaded, reply, last, killed,
              clobbered>>

(* "part": the holder of the lock has written the first of its buffers.    *)
(* "torn": a text json.loads rejects, and nobody is about to complete it.  *)
Form == {"absent", "empty", "part", "whole", "torn"}

Pc == {"down", "creating", "created", "ready", "waiting", "locked", "loaded",
       "truncated", "writing", "written"}

Request ==
    [op : {"save"}, id : ApprovalId, record : Saved]
        \cup [op : {"get"}, id : ApprovalId, tenant : Tenant]
        \cup [op : {"update"}, id : ApprovalId, tenant : Tenant,
              status : Status]

ASSUME NoRequestAssumption == NoRequest \notin Request

(* Between its truncate and its last byte a method has not taken effect:   *)
(* the port's store is then what the method has loaded.                    *)
InWrite == lock # Nobody /\ pc[lock] \in {"truncated", "writing"}

Held ==
    IF InWrite THEN loaded[lock]
    ELSE IF form = "whole" THEN text ELSE EmptyStore

Parsable == InWrite \/ form \notin {"part", "torn"}

Store == INSTANCE ApprovalStore
    WITH Client <- Proc, store <- Held, readable <- Parsable, reply <- reply

FileTypeOK ==
    /\ form \in Form
    /\ text \in Stores
    /\ lock \in Proc \cup {Nobody}
    /\ pc \in [Proc -> Pc]
    /\ request \in [Proc -> Request \cup {NoRequest}]
    /\ loaded \in [Proc -> Stores]
    /\ reply \in [Proc -> Store!Reply]
    /\ last \in Stores
    /\ killed \in BOOLEAN /\ clobbered \in BOOLEAN

Init ==
    /\ form \in {"absent", "whole"}
    /\ text = EmptyStore
    /\ lock = Nobody
    /\ pc = [p \in Proc |-> "down"]
    /\ request = [p \in Proc |-> NoRequest]
    /\ loaded = [p \in Proc |-> EmptyStore]
    /\ reply = [p \in Proc |-> Store!NoReply]
    /\ last = EmptyStore
    /\ killed = FALSE /\ clobbered = FALSE

----------------------------------------------------------------------------
Goto(p, label) == pc' = [pc EXCEPT ![p] = label]

(* __init__: exists(), then open(..., "w"), which truncates, then the      *)
(* write of "{}" at the start of whatever the file holds by then.          *)
Start(p) ==
    /\ pc[p] = "down"
    /\ Goto(p, IF form = "absent" THEN "creating" ELSE "ready")
    /\ UNCHANGED <<form, text, lock, request, loaded, reply, last, killed,
                   clobbered>>

Inhabited == form = "part" \/ (form = "whole" /\ text # EmptyStore)

Create(p) ==
    /\ pc[p] = "creating"
    /\ form' = "empty" /\ text' = EmptyStore
    /\ clobbered' = (clobbered \/ Inhabited)
    /\ Goto(p, "created")
    /\ UNCHANGED <<lock, request, loaded, reply, last, killed>>

FillIn(p) ==
    /\ pc[p] = "created"
    /\ form' = IF Inhabited \/ form = "torn" THEN "torn" ELSE "whole"
    /\ text' = EmptyStore
    /\ clobbered' = (clobbered \/ Inhabited)
    /\ Goto(p, "ready")
    /\ UNCHANGED <<lock, request, loaded, reply, last, killed>>

----------------------------------------------------------------------------
(* The command line saves nothing.                                         *)
MayAsk(p, op) == op = "save" => p = Server

(* Mutation of Ask: the file is opened for writing, and so truncated,       *)
(* before there is a lock on it.                                           *)
AskTruncating(p, r) ==
    /\ pc[p] = "ready"
    /\ MayAsk(p, r.op)
    /\ request' = [request EXCEPT ![p] = r]
    /\ reply' = [reply EXCEPT ![p] = Store!NoReply]
    /\ Goto(p, "waiting")
    /\ IF r.op = "get" THEN UNCHANGED <<form, text>>
       ELSE form' = "empty" /\ text' = EmptyStore
    /\ UNCHANGED <<lock, loaded, last, killed, clobbered>>

(* A process calls a method, which opens the file and waits for the lock.  *)
Ask(p, r) ==
    /\ pc[p] = "ready"
    /\ MayAsk(p, r.op)
    /\ request' = [request EXCEPT ![p] = r]
    /\ reply' = [reply EXCEPT ![p] = Store!NoReply]
    /\ Goto(p, "waiting")
    /\ UNCHANGED <<form, text, lock, loaded, last, killed, clobbered>>

Lock(p) ==
    /\ pc[p] = "waiting"
    /\ lock = Nobody
    /\ lock' = p
    /\ Goto(p, "locked")
    /\ UNCHANGED <<form, text, request, loaded, reply, last, killed, clobbered>>

(* Mutation of Load: what cannot be parsed is taken for no records.        *)
LoadAnything(p) ==
    /\ pc[p] = "locked"
    /\ loaded' = [loaded EXCEPT ![p] = text]
    /\ Goto(p, "loaded")
    /\ UNCHANGED <<form, text, lock, request, reply, last, killed, clobbered>>

(* __enter__: an empty file is an empty dictionary.                        *)
Load(p) ==
    /\ pc[p] = "locked"
    /\ form \in {"empty", "whole"}
    /\ loaded' = [loaded EXCEPT ![p] = text]
    /\ Goto(p, "loaded")
    /\ UNCHANGED <<form, text, lock, request, reply, last, killed, clobbered>>

Give(p, kind, record) ==
    reply' = [reply EXCEPT ![p] = Store!Answered(kind, record)]

Release(p) ==
    /\ lock' = Nobody
    /\ loaded' = [loaded EXCEPT ![p] = EmptyStore]
    /\ request' = [request EXCEPT ![p] = NoRequest]
    /\ Goto(p, "ready")

(* Mutation of LoadFails: the exception leaves the file open and locked.   *)
LoadFailsLocked(p) ==
    /\ pc[p] = "locked"
    /\ form \notin {"empty", "whole"}
    /\ Give(p, "unreadable", NoRecord)
    /\ Goto(p, "ready")
    /\ UNCHANGED <<form, text, lock, request, loaded, last, killed, clobbered>>

(* json.loads raises inside __enter__, so __exit__ does not run; the file  *)
(* object goes with the exception, and the lock with the file object.      *)
LoadFails(p) ==
    /\ pc[p] = "locked"
    /\ form \notin {"empty", "whole"}
    /\ Give(p, "unreadable", NoRecord)
    /\ Release(p)
    /\ UNCHANGED <<form, text, last, killed, clobbered>>

(* get returns, or update_status raises ApprovalNotFoundError.             *)
Look(p) ==
    LET r == request[p] IN
    /\ pc[p] = "loaded"
    /\ \/ /\ r.op = "get" /\ Visible(loaded[p], r.id, r.tenant)
          /\ Give(p, "request", loaded[p][r.id])
       \/ /\ r.op # "save" /\ ~Visible(loaded[p], r.id, r.tenant)
          /\ Give(p, "not_found", NoRecord)
    /\ Release(p)
    /\ UNCHANGED <<form, text, last, killed, clobbered>>

(* save, and update_status of a record it found, compute the dictionary to *)
(* write, and write it: truncate, then the buffers one after the other.    *)
NewStore(p) ==
    LET r == request[p] IN
    IF r.op = "save" THEN Save(loaded[p], r.id, r.record)
    ELSE UpdateStatus(loaded[p], r.id, r.status)

Truncate(p) ==
    LET r == request[p] IN
    /\ pc[p] = "loaded"
    /\ \/ r.op = "save"
       \/ r.op = "update" /\ Visible(loaded[p], r.id, r.tenant)
    /\ form' = "empty" /\ text' = EmptyStore
    /\ Goto(p, "truncated")
    /\ UNCHANGED <<lock, request, loaded, reply, last, killed, clobbered>>

WriteSome(p) ==
    /\ pc[p] = "truncated"
    /\ form' = "part" /\ text' = EmptyStore
    /\ Goto(p, "writing")
    /\ UNCHANGED <<lock, request, loaded, reply, last, killed, clobbered>>

(* What the constructor did to the file in between is not undone: its rest *)
(* follows a hole, or a text that already had an end.                      *)
WriteRest(p) ==
    /\ pc[p] = "writing"
    /\ IF form = "part"
       THEN form' = "whole" /\ text' = NewStore(p)
       ELSE form' = "torn" /\ text' = EmptyStore
    /\ last' = NewStore(p)
    /\ IF request[p].op = "save" THEN Give(p, "none", NoRecord)
       ELSE Give(p, "request", NewStore(p)[request[p].id])
    /\ Goto(p, "written")
    /\ UNCHANGED <<lock, request, loaded, killed, clobbered>>

Unlock(p) ==
    /\ pc[p] = "written"
    /\ Release(p)
    /\ UNCHANGED <<form, text, reply, last, killed, clobbered>>

----------------------------------------------------------------------------
(* A process ends, or is killed anywhere; the kernel drops its lock.       *)
Stop(p) ==
    /\ pc[p] # "down"
    /\ Goto(p, "down")
    /\ reply' = [reply EXCEPT ![p] = Store!NoReply]
    /\ request' = [request EXCEPT ![p] = NoRequest]
    /\ lock' = IF lock = p THEN Nobody ELSE lock
    /\ loaded' = [loaded EXCEPT ![p] = EmptyStore]
    /\ form' = IF pc[p] = "writing" /\ form = "part" THEN "torn" ELSE form
    /\ killed' = (killed \/ pc[p] \in {"truncated", "writing"})
    /\ UNCHANGED <<text, last, clobbered>>

Step(p) ==
    \/ Start(p) \/ Create(p) \/ FillIn(p)
    \/ Lock(p) \/ Load(p) \/ LoadFails(p) \/ Look(p)
    \/ Truncate(p) \/ WriteSome(p) \/ WriteRest(p) \/ Unlock(p)

Next ==
    \E p \in Proc :
        Step(p) \/ Stop(p) \/ \E r \in Request : Ask(p, r)

Spec == Init /\ [][Next]_fileVars

(* A process that may run goes on; flock itself promises no order.         *)
FairSpec == Spec /\ \A p \in Proc : WF_fileVars(Step(p))

----------------------------------------------------------------------------
(* The lock orders every read-modify-write: unless a process was killed in *)
(* the middle of one, or the constructor wrote without the lock into a     *)
(* file others were using, the file holds what was last written whenever   *)
(* the lock is free, and a method that is about to write has loaded just   *)
(* that.                                                                   *)
UpdatesKept ==
    ~killed /\ ~clobbered =>
        /\ lock = Nobody => form \notin {"part", "torn"} /\ text = last
        /\ \A p \in Proc :
              pc[p] \in {"loaded", "truncated", "writing"} => loaded[p] = last

(* infrastructure/approval_store_file.py: every read-modify-write is done  *)
(* under the lock "to avoid a lost update".  Without the proviso about the *)
(* constructor, the code does not keep this.                               *)
NoLostUpdate ==
    ~killed /\ lock = Nobody => form \notin {"part", "torn"} /\ text = last

(* Whatever is read, written or raised under the lock, the lock is given   *)
(* back, also when the file cannot be parsed.                              *)
LockIsReleased == \A p \in Proc : lock = p ~> lock # p

(* Every method takes effect at once, as the port promises, as long as the *)
(* constructor has not written over a file in use.                         *)
ImplementsStore ==
    Store!Init /\ [][clobbered' \/ Store!Next]_(Store!storeVars)
=============================================================================
