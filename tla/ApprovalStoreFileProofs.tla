---------------------- MODULE ApprovalStoreFileProofs ----------------------
(***************************************************************************)
(* Proofs about the approval store's file: the invariant of the flock      *)
(* protocol, that no update is lost, and that the methods implement the    *)
(* port, for any number of processes.  The two provisos, a process killed  *)
(* while it writes and an unlocked creation over a file in use, are the    *)
(* history variables killed and clobbered.                                 *)
(***************************************************************************)
EXTENDS ApprovalStoreFile, TLAPS

LockedPc == {"locked", "loaded", "truncated", "writing", "written"}

(* The holder of the lock is the one process between its flock and its     *)
(* close, and a process in a method has its arguments.                     *)
Exclusive ==
    \A p \in Proc :
        /\ pc[p] \in LockedPc <=> lock = p
        /\ pc[p] \in LockedPc \cup {"waiting"} => request[p] \in Request
        /\ pc[p] = "truncated" \/ pc[p] = "writing" =>
              \/ request[p].op = "save"
              \/ /\ request[p].op = "update"
                 /\ Visible(loaded[p], request[p].id, request[p].tenant)
        /\ pc[p] \in {"down", "creating", "created"} =>
              reply[p] = Store!NoReply

(* The file, as long as nothing was written into it without the lock.      *)
FileOK ==
    /\ form # "whole" => text = EmptyStore
    /\ form = "absent" => \A p \in Proc : pc[p] \in {"down", "creating"}
    /\ ~clobbered =>
        /\ form = "part" => InWrite /\ pc[lock] = "writing"
        /\ \A p \in Proc :
              /\ pc[p] = "loaded" =>
                    form \in {"empty", "whole"} /\ text = loaded[p]
              /\ pc[p] = "truncated" =>
                    form \in {"empty", "whole"} /\ text = EmptyStore
              /\ pc[p] = "writing" => form = "part"

(* What is on its way to the file is what was last written, or its         *)
(* successor.                                                              *)
LastOK ==
    ~killed /\ ~clobbered =>
        IF InWrite THEN loaded[lock] = last
        ELSE form \notin {"part", "torn"} /\ text = last

FileInv == FileTypeOK /\ Exclusive /\ FileOK /\ LastOK

----------------------------------------------------------------------------
LEMMA NewStoreType ==
    ASSUME FileTypeOK, Exclusive, NEW p \in Proc,
           pc[p] = "truncated" \/ pc[p] = "writing"
    PROVE  /\ NewStore(p) \in Stores
           /\ request[p].id \in ApprovalId
           /\ NewStore(p)[request[p].id] \in ApprovalRequest
  <1> DEFINE r == request[p]
  <1>1. r \in Request
    BY DEF Exclusive, LockedPc
  <1>2. loaded[p] \in Stores
    BY DEF FileTypeOK
  <1>3. CASE r.op = "save"
    <2>1. r.id \in ApprovalId /\ r.record \in ApprovalRequest
      BY <1>1, <1>3, SavedAssumption DEF Request
    <2> QED
      BY <1>2, <1>3, <2>1 DEF NewStore, Save, Stores
  <1>4. CASE r.op = "update"
    <2>1. r.id \in ApprovalId /\ r.status \in Status
      BY <1>1, <1>4 DEF Request
    <2>2. loaded[p][r.id] \in ApprovalRequest
      BY <1>2, <1>4, <2>1 DEF Exclusive, Visible, Stores
    <2>3. [loaded[p][r.id] EXCEPT !.status = r.status] \in ApprovalRequest
      BY <2>1, <2>2 DEF ApprovalRequest
    <2> QED
      BY <1>2, <1>4, <2>1, <2>2, <2>3 DEF NewStore, UpdateStatus, Stores
  <1> QED
    BY <1>3, <1>4 DEF Exclusive

LEMMA EmptyStoreType == EmptyStore \in Stores
  BY DEF EmptyStore, Stores

LEMMA ReplyTypes ==
    /\ Store!NoReply \in Store!Reply
    /\ \A kind \in {"none", "request", "not_found", "unreadable"},
          record \in ApprovalRequest \cup {NoRecord} :
          Store!Answered(kind, record) \in Store!Reply
  BY DEF Store!NoReply, Store!Answered, Store!Reply, Store!ApprovalRequest,
         Store!Status, ApprovalRequest, Status

(* The part of FileTypeOK a step of process p can disturb only at p.       *)
LEMMA FileTypePreserved ==
    ASSUME FileTypeOK, Exclusive, [Next]_fileVars
    PROVE  FileTypeOK'
  <1> USE DEF FileTypeOK, Goto
  <1>1. ASSUME NEW p \in Proc, Start(p)
        PROVE  FileTypeOK'
    BY <1>1 DEF Start, Pc
  <1>2. ASSUME NEW p \in Proc, Create(p)
        PROVE  FileTypeOK'
    BY <1>2, EmptyStoreType DEF Create, Pc, Form
  <1>3. ASSUME NEW p \in Proc, FillIn(p)
        PROVE  FileTypeOK'
    BY <1>3, EmptyStoreType DEF FillIn, Pc, Form
  <1>4. ASSUME NEW p \in Proc, NEW r \in Request, Ask(p, r)
        PROVE  FileTypeOK'
    BY <1>4, ReplyTypes DEF Ask, Pc
  <1>5. ASSUME NEW p \in Proc, Lock(p)
        PROVE  FileTypeOK'
    BY <1>5 DEF Lock, Pc
  <1>6. ASSUME NEW p \in Proc, Load(p)
        PROVE  FileTypeOK'
    BY <1>6 DEF Load, Pc
  <1>7. ASSUME NEW p \in Proc, LoadFails(p)
        PROVE  FileTypeOK'
    BY <1>7, EmptyStoreType, ReplyTypes DEF LoadFails, Give, Release, Pc
  <1>8. ASSUME NEW p \in Proc, Look(p)
        PROVE  FileTypeOK'
    <2> DEFINE r == request[p]
    <2>1. pc[p] = "loaded" /\ Release(p)
          /\ UNCHANGED <<form, text, last, killed, clobbered>>
      BY <1>8 DEF Look
    <2>2. CASE r.op = "get" /\ Visible(loaded[p], r.id, r.tenant)
               /\ Give(p, "request", loaded[p][r.id])
      <3>1. r \in Request
        BY <2>1 DEF Exclusive, LockedPc
      <3>2. r.id \in ApprovalId
        BY <3>1 DEF Request
      <3>3. loaded[p][r.id] \in ApprovalRequest
        BY <2>2, <3>2 DEF Visible, Stores
      <3>4. reply' \in [Proc -> Store!Reply]
        BY <2>2, <3>3, ReplyTypes DEF Give
      <3> QED
        BY <2>1, <3>4, EmptyStoreType DEF Release, Pc
    <2>3. CASE Give(p, "not_found", NoRecord)
      <3>1. reply' \in [Proc -> Store!Reply]
        BY <2>3, ReplyTypes DEF Give
      <3> QED
        BY <2>1, <3>1, EmptyStoreType DEF Release, Pc
    <2> QED
      BY <1>8, <2>2, <2>3 DEF Look
  <1>9. ASSUME NEW p \in Proc, Truncate(p)
        PROVE  FileTypeOK'
    BY <1>9, EmptyStoreType DEF Truncate, Pc, Form
  <1>10. ASSUME NEW p \in Proc, WriteSome(p)
         PROVE  FileTypeOK'
    BY <1>10, EmptyStoreType DEF WriteSome, Pc, Form
  <1>11. ASSUME NEW p \in Proc, WriteRest(p)
         PROVE  FileTypeOK'
    <2>1. /\ NewStore(p) \in Stores
          /\ NewStore(p)[request[p].id] \in ApprovalRequest
      BY <1>11, NewStoreType DEF WriteRest
    <2>2. reply' \in [Proc -> Store!Reply]
      BY <1>11, <2>1, ReplyTypes DEF WriteRest, Give
    <2> QED
      BY <1>11, <2>1, <2>2, EmptyStoreType DEF WriteRest, Pc, Form
  <1>12. ASSUME NEW p \in Proc, Unlock(p)
         PROVE  FileTypeOK'
    BY <1>12, EmptyStoreType DEF Unlock, Release, Pc
  <1>13. ASSUME NEW p \in Proc, Stop(p)
         PROVE  FileTypeOK'
    BY <1>13, EmptyStoreType, ReplyTypes DEF Stop, Pc, Form
  <1>14. CASE UNCHANGED fileVars
    BY <1>14 DEF fileVars
  <1> QED
    BY <1>1, <1>2, <1>3, <1>4, <1>5, <1>6, <1>7, <1>8, <1>9, <1>10, <1>11,
       <1>12, <1>13, <1>14 DEF Next, Step

----------------------------------------------------------------------------
(* A step of one process moves no other, and takes the lock from nobody.   *)
LEMMA ExclusivePreserved ==
    ASSUME FileTypeOK, Exclusive, [Next]_fileVars
    PROVE  Exclusive'
  <1> USE ProcAssumption DEF FileTypeOK, Exclusive, Goto, LockedPc
  <1>1. ASSUME NEW p \in Proc, Start(p)
        PROVE  Exclusive'
    BY <1>1 DEF Start
  <1>2. ASSUME NEW p \in Proc, Create(p)
        PROVE  Exclusive'
    BY <1>2 DEF Create
  <1>3. ASSUME NEW p \in Proc, FillIn(p)
        PROVE  Exclusive'
    BY <1>3 DEF FillIn
  <1>4. ASSUME NEW p \in Proc, NEW r \in Request, Ask(p, r)
        PROVE  Exclusive'
    BY <1>4 DEF Ask
  <1>5. ASSUME NEW p \in Proc, Lock(p)
        PROVE  Exclusive'
    BY <1>5 DEF Lock
  <1>6. ASSUME NEW p \in Proc, Load(p)
        PROVE  Exclusive'
    BY <1>6 DEF Load
  <1>7. ASSUME NEW p \in Proc, LoadFails(p)
        PROVE  Exclusive'
    BY <1>7 DEF LoadFails, Give, Release
  <1>8. ASSUME NEW p \in Proc, Look(p)
        PROVE  Exclusive'
    <2>1. /\ pc[p] = "loaded" /\ Release(p)
          /\ \A q \in Proc : q # p => reply'[q] = reply[q]
      BY <1>8 DEF Look, Give
    <2> QED
      BY <2>1 DEF Release
  <1>9. ASSUME NEW p \in Proc, Truncate(p)
        PROVE  Exclusive'
    BY <1>9 DEF Truncate
  <1>10. ASSUME NEW p \in Proc, WriteSome(p)
         PROVE  Exclusive'
    BY <1>10 DEF WriteSome
  <1>11. ASSUME NEW p \in Proc, WriteRest(p)
         PROVE  Exclusive'
    BY <1>11 DEF WriteRest, Give
  <1>12. ASSUME NEW p \in Proc, Unlock(p)
         PROVE  Exclusive'
    BY <1>12 DEF Unlock, Release
  <1>13. ASSUME NEW p \in Proc, Stop(p)
         PROVE  Exclusive'
    BY <1>13 DEF Stop
  <1>14. CASE UNCHANGED fileVars
    BY <1>14 DEF fileVars
  <1> QED
    BY <1>1, <1>2, <1>3, <1>4, <1>5, <1>6, <1>7, <1>8, <1>9, <1>10, <1>11,
       <1>12, <1>13, <1>14 DEF Next, Step

(* The lock keeps every other method out of the file while one is between  *)
(* its read and its last byte.                                             *)
LEMMA FileOKPreserved ==
    ASSUME FileTypeOK, Exclusive, FileOK, [Next]_fileVars
    PROVE  FileOK'
  <1> USE ProcAssumption DEF FileTypeOK, Exclusive, FileOK, Goto, LockedPc,
          InWrite
  <1>1. ASSUME NEW p \in Proc, Start(p)
        PROVE  FileOK'
    BY <1>1 DEF Start
  <1>2. ASSUME NEW p \in Proc, Create(p)
        PROVE  FileOK'
    BY <1>2 DEF Create, Inhabited, Form
  <1>3. ASSUME NEW p \in Proc, FillIn(p)
        PROVE  FileOK'
    BY <1>3 DEF FillIn, Inhabited, Form
  <1>4. ASSUME NEW p \in Proc, NEW r \in Request, Ask(p, r)
        PROVE  FileOK'
    BY <1>4 DEF Ask
  <1>5. ASSUME NEW p \in Proc, Lock(p)
        PROVE  FileOK'
    BY <1>5 DEF Lock
  <1>6. ASSUME NEW p \in Proc, Load(p)
        PROVE  FileOK'
    BY <1>6 DEF Load
  <1>7. ASSUME NEW p \in Proc, LoadFails(p)
        PROVE  FileOK'
    BY <1>7 DEF LoadFails, Give, Release
  <1>8. ASSUME NEW p \in Proc, Look(p)
        PROVE  FileOK'
    BY <1>8 DEF Look, Release
  <1>9. ASSUME NEW p \in Proc, Truncate(p)
        PROVE  FileOK'
    BY <1>9 DEF Truncate
  <1>10. ASSUME NEW p \in Proc, WriteSome(p)
         PROVE  FileOK'
    BY <1>10 DEF WriteSome
  <1>11. ASSUME NEW p \in Proc, WriteRest(p)
         PROVE  FileOK'
    BY <1>11 DEF WriteRest
  <1>12. ASSUME NEW p \in Proc, Unlock(p)
         PROVE  FileOK'
    BY <1>12 DEF Unlock, Release
  <1>13. ASSUME NEW p \in Proc, Stop(p)
         PROVE  FileOK'
    BY <1>13 DEF Stop
  <1>14. CASE UNCHANGED fileVars
    BY <1>14 DEF fileVars
  <1> QED
    BY <1>1, <1>2, <1>3, <1>4, <1>5, <1>6, <1>7, <1>8, <1>9, <1>10, <1>11,
       <1>12, <1>13, <1>14 DEF Next, Step

LEMMA LastOKPreserved ==
    ASSUME FileTypeOK, Exclusive, FileOK, LastOK, [Next]_fileVars
    PROVE  LastOK'
  <1> USE ProcAssumption DEF FileTypeOK, Exclusive, FileOK, LastOK, Goto,
          LockedPc, InWrite
  <1>1. ASSUME NEW p \in Proc, Start(p)
        PROVE  LastOK'
    BY <1>1 DEF Start
  <1>2. ASSUME NEW p \in Proc, Create(p)
        PROVE  LastOK'
    BY <1>2 DEF Create, Inhabited, Form
  <1>3. ASSUME NEW p \in Proc, FillIn(p)
        PROVE  LastOK'
    BY <1>3 DEF FillIn, Inhabited, Form
  <1>4. ASSUME NEW p \in Proc, NEW r \in Request, Ask(p, r)
        PROVE  LastOK'
    BY <1>4 DEF Ask
  <1>5. ASSUME NEW p \in Proc, Lock(p)
        PROVE  LastOK'
    BY <1>5 DEF Lock
  <1>6. ASSUME NEW p \in Proc, Load(p)
        PROVE  LastOK'
    BY <1>6 DEF Load
  <1>7. ASSUME NEW p \in Proc, LoadFails(p)
        PROVE  LastOK'
    BY <1>7 DEF LoadFails, Give, Release
  <1>8. ASSUME NEW p \in Proc, Look(p)
        PROVE  LastOK'
    BY <1>8 DEF Look, Release
  <1>9. ASSUME NEW p \in Proc, Truncate(p)
        PROVE  LastOK'
    BY <1>9 DEF Truncate
  <1>10. ASSUME NEW p \in Proc, WriteSome(p)
         PROVE  LastOK'
    BY <1>10 DEF WriteSome
  <1>11. ASSUME NEW p \in Proc, WriteRest(p)
         PROVE  LastOK'
    BY <1>11 DEF WriteRest
  <1>12. ASSUME NEW p \in Proc, Unlock(p)
         PROVE  LastOK'
    BY <1>12 DEF Unlock, Release
  <1>13. ASSUME NEW p \in Proc, Stop(p)
         PROVE  LastOK'
    BY <1>13 DEF Stop
  <1>14. CASE UNCHANGED fileVars
    BY <1>14 DEF fileVars
  <1> QED
    BY <1>1, <1>2, <1>3, <1>4, <1>5, <1>6, <1>7, <1>8, <1>9, <1>10, <1>11,
       <1>12, <1>13, <1>14 DEF Next, Step

LEMMA InitFileInv == Init => FileInv
  <1> SUFFICES ASSUME Init PROVE FileInv
    OBVIOUS
  <1>1. FileTypeOK
    BY EmptyStoreType, ReplyTypes DEF Init, FileTypeOK, Form, Pc
  <1>2. Exclusive
    BY ProcAssumption DEF Init, Exclusive, LockedPc
  <1>3. FileOK /\ LastOK
    BY DEF Init, FileOK, LastOK, InWrite
  <1> QED
    BY <1>1, <1>2, <1>3 DEF FileInv

(* The invariant of the file, in every reachable state.                    *)
THEOREM FileInvariance == Spec => []FileInv
  <1>1. FileInv /\ [Next]_fileVars => FileInv'
    BY FileTypePreserved, ExclusivePreserved, FileOKPreserved, LastOKPreserved
       DEF FileInv
  <1> QED
    BY <1>1, InitFileInv, PTL DEF Spec

(* The file's state keeps its type.                                        *)
THEOREM FileTypesCorrect == Spec => []FileTypeOK
  <1>1. FileInv => FileTypeOK
    BY DEF FileInv
  <1> QED
    BY <1>1, FileInvariance, PTL

(* No update is lost but by a kill in the middle of a write, or by the     *)
(* constructor's write without the lock.                                   *)
THEOREM NoUpdateIsLost == Spec => []UpdatesKept
  <1>1. FileInv => UpdatesKept
    BY ProcAssumption DEF FileInv, FileTypeOK, Exclusive, FileOK, LastOK,
       UpdatesKept, InWrite, LockedPc
  <1> QED
    BY <1>1, FileInvariance, PTL

----------------------------------------------------------------------------
(* Refinement of the port.  In each step, what becomes of the port's three *)
(* variables, and the action of the port that does it.                     *)
SameStore == Held' = Held /\ Parsable' = Parsable

LEMMA ForgetStep ==
    ASSUME NEW p \in Proc, SameStore,
           reply' = [reply EXCEPT ![p] = Store!NoReply]
    PROVE  Store!Next
  <1>1. Store!Forget(p)
    BY DEF SameStore, Store!Forget
  <1> QED
    BY <1>1 DEF Store!Next

LEMMA KilledStep ==
    ASSUME NEW p \in Proc, Held' = EmptyStore,
           reply' = [reply EXCEPT ![p] = Store!NoReply]
    PROVE  Store!Next
  <1>1. Held' = Store!EmptyStore /\ Parsable' \in BOOLEAN
    BY DEF EmptyStore, Store!EmptyStore, Parsable
  <1>2. Store!KilledInWrite(p)
    BY <1>1 DEF Store!KilledInWrite
  <1> QED
    BY <1>2 DEF Store!Next

(* The constructor changes nothing the port shows, except that it makes a  *)
(* torn file readable.                                                     *)
LEMMA ConstructorRefines ==
    ASSUME FileInv, NEW p \in Proc, ~clobbered',
           Start(p) \/ Create(p) \/ FillIn(p)
    PROVE  Store!Next \/ UNCHANGED Store!storeVars
  <1> USE ProcAssumption DEF FileInv, FileTypeOK, Exclusive, FileOK, LockedPc,
          Goto, InWrite, Held, Parsable
  <1>1. CASE Start(p)
    <2>1. SameStore /\ UNCHANGED reply
      BY <1>1 DEF Start, SameStore
    <2> QED
      BY <2>1 DEF SameStore, Store!storeVars
  <1>2. CASE Create(p) /\ form = "torn"
    <2>1. Held' = EmptyStore
      BY <1>2 DEF Create
    <2>2. reply' = [reply EXCEPT ![p] = Store!NoReply]
      BY <1>2 DEF Create
    <2> QED
      BY <2>1, <2>2, KilledStep
  <1>3. CASE Create(p) /\ form # "torn"
    <2>1. SameStore /\ UNCHANGED reply
      BY <1>3 DEF Create, Inhabited, SameStore
    <2> QED
      BY <2>1 DEF SameStore, Store!storeVars
  <1>4. CASE FillIn(p)
    <2>1. SameStore /\ UNCHANGED reply
      BY <1>4 DEF FillIn, Inhabited, SameStore
    <2> QED
      BY <2>1 DEF SameStore, Store!storeVars
  <1> QED
    BY <1>1, <1>2, <1>3, <1>4

(* Until its last byte, and after it, a method shows the port nothing.     *)
LEMMA UnseenSteps ==
    ASSUME FileInv, NEW p \in Proc, ~clobbered',
           \/ Lock(p) \/ Load(p) \/ Truncate(p) \/ WriteSome(p) \/ Unlock(p)
    PROVE  UNCHANGED Store!storeVars
  <1> USE ProcAssumption DEF FileInv, FileTypeOK, Exclusive, FileOK, LockedPc,
          Goto, InWrite, Held, Parsable
  <1>1. SameStore /\ UNCHANGED reply
    <2>1. CASE Lock(p)
      BY <2>1 DEF Lock, SameStore
    <2>2. CASE Load(p)
      BY <2>2 DEF Load, SameStore
    <2>3. CASE Truncate(p)
      BY <2>3 DEF Truncate, SameStore
    <2>4. CASE WriteSome(p)
      BY <2>4 DEF WriteSome, SameStore
    <2>5. CASE Unlock(p)
      BY <2>5 DEF Unlock, Release, SameStore
    <2> QED
      BY <2>1, <2>2, <2>3, <2>4, <2>5
  <1> QED
    BY <1>1 DEF SameStore, Store!storeVars

(* Ask and Stop: the reply is forgotten; a kill within a write leaves no   *)
(* records, or half of a text.                                             *)
LEMMA AskStopRefines ==
    ASSUME FileInv, NEW p \in Proc, ~clobbered',
           Stop(p) \/ \E r \in Request : Ask(p, r)
    PROVE  Store!Next
  <1> USE ProcAssumption DEF FileInv, FileTypeOK, Exclusive, FileOK, LockedPc,
          Goto, InWrite
  <1>1. CASE \E r \in Request : Ask(p, r)
    <2>1. SameStore /\ reply' = [reply EXCEPT ![p] = Store!NoReply]
      BY <1>1 DEF Ask, SameStore, Held, Parsable
    <2> QED
      BY <2>1, ForgetStep
  <1>2. CASE Stop(p) /\ pc[p] \in {"truncated", "writing"}
    <2>1. Held' = EmptyStore
      BY <1>2 DEF Stop, Held
    <2>2. reply' = [reply EXCEPT ![p] = Store!NoReply]
      BY <1>2 DEF Stop
    <2> QED
      BY <2>1, <2>2, KilledStep
  <1>3. CASE Stop(p) /\ pc[p] \notin {"truncated", "writing"}
    <2>1. SameStore /\ reply' = [reply EXCEPT ![p] = Store!NoReply]
      BY <1>3 DEF Stop, SameStore, Held, Parsable
    <2> QED
      BY <2>1, ForgetStep
  <1> QED
    BY <1>1, <1>2, <1>3

(* A method that writes nothing: what it has loaded is what the port has.  *)
LEMMA LookRefines ==
    ASSUME FileInv, NEW p \in Proc, ~clobbered', Look(p) \/ LoadFails(p)
    PROVE  Store!Next
  <1> USE ProcAssumption DEF FileInv, FileTypeOK, Exclusive, FileOK, LockedPc,
          Goto, InWrite
  <1>1. SameStore
    BY DEF Look, LoadFails, Release, SameStore, Held, Parsable
  <1>2. CASE LoadFails(p)
    <2>1. ~Parsable /\ Give(p, "unreadable", NoRecord)
      <3>1. form # "absent" /\ ~InWrite /\ form \in {"part", "torn"}
        BY <1>2 DEF LoadFails, Form
      <3> QED
        BY <1>2, <3>1 DEF LoadFails, Parsable
    <2>2. Store!Unreadable(p)
      BY <1>1, <2>1 DEF SameStore, Store!Unreadable, Give
    <2> QED
      BY <2>2 DEF Store!Next
  <1>3. CASE Look(p)
    <2> DEFINE r == request[p]
    <2>1. Parsable /\ Held = loaded[p]
      BY <1>3 DEF Look, Held, Parsable
    <2>2. r \in Request
      BY <1>3 DEF Look
    <2>3. CASE r.op = "get" /\ Visible(loaded[p], r.id, r.tenant)
               /\ Give(p, "request", loaded[p][r.id])
      <3>1. r.id \in ApprovalId /\ r.tenant \in Tenant
        BY <2>2, <2>3 DEF Request
      <3>2. Store!GetRequest(p, r.id, r.tenant)
        BY <1>1, <2>1, <2>3
           DEF SameStore, Store!GetRequest, Give, Visible, Store!Visible
      <3> QED
        BY <3>1, <3>2 DEF Store!Next
    <2>4. CASE r.op # "save" /\ ~Visible(loaded[p], r.id, r.tenant)
               /\ Give(p, "not_found", NoRecord)
      <3>1. r.id \in ApprovalId /\ r.tenant \in Tenant
        BY <2>2, <2>4 DEF Request
      <3>2. Store!UpdateFails(p, r.id, r.tenant)
        BY <1>1, <2>1, <2>4
           DEF SameStore, Store!UpdateFails, Give, Visible, Store!Visible
      <3> QED
        BY <3>1, <3>2 DEF Store!Next
    <2> QED
      BY <1>3, <2>3, <2>4 DEF Look
  <1> QED
    BY <1>2, <1>3

(* The last byte of a write is the port's save, or its update_status.      *)
LEMMA WriteRefines ==
    ASSUME FileInv, NEW p \in Proc, ~clobbered', WriteRest(p)
    PROVE  Store!Next
  <1> DEFINE r == request[p]
  <1> USE ProcAssumption DEF FileInv, FileTypeOK, Exclusive, FileOK, LockedPc,
          Goto, InWrite
  <1>1. /\ lock = p /\ InWrite
        /\ form = "part"
        /\ form' = "whole" /\ text' = NewStore(p)
        /\ lock' = lock /\ pc' = [pc EXCEPT ![p] = "written"]
    BY DEF WriteRest
  <1>2. Parsable /\ Held = loaded[p]
    BY <1>1 DEF Parsable, Held
  <1>3. Parsable' /\ Held' = NewStore(p)
    BY <1>1 DEF Parsable, Held
  <1>4. /\ r \in Request
        /\ r.op = "save" => reply' = [reply EXCEPT ![p] = Store!NoReply]
        /\ r.op = "update" => reply' = [reply EXCEPT ![p] =
                                 Store!Answered("request", NewStore(p)[r.id])]
    BY DEF WriteRest, Give, Store!NoReply
  <1>5. loaded[p] \in Stores
    OBVIOUS
  <1>6. CASE r.op = "save"
    <2>1. r.id \in ApprovalId /\ r.record \in Saved
      BY <1>4, <1>6 DEF Request
    <2>2. NewStore(p) = Store!Save(Held, r.id, r.record)
      BY <1>2, <1>6 DEF NewStore, Save, Store!Save
    <2>3. Store!SaveRequest(p, r.id, r.record)
      BY <1>2, <1>3, <1>4, <1>6, <2>2 DEF Store!SaveRequest
    <2> QED
      BY <2>1, <2>3 DEF Store!Next
  <1>7. CASE r.op = "update"
    <2>1. r.id \in ApprovalId /\ r.tenant \in Tenant /\ r.status \in Status
      BY <1>4, <1>7 DEF Request
    <2>2. NewStore(p) = Store!UpdateStatus(Held, r.id, r.status)
      BY <1>2, <1>7 DEF NewStore, UpdateStatus, Store!UpdateStatus
    <2>3. Store!Visible(Held, r.id, r.tenant)
      BY <1>2, <1>7 DEF WriteRest, Visible, Store!Visible
    <2>4. Store!UpdateRequest(p, r.id, r.tenant, r.status)
      BY <1>2, <1>3, <1>4, <1>7, <2>2, <2>3 DEF Store!UpdateRequest
    <2>5. r.status \in Store!Status
      BY <2>1 DEF Status, Store!Status
    <2> QED
      BY <2>1, <2>4, <2>5 DEF Store!Next
  <1> QED
    BY <1>6, <1>7 DEF WriteRest

LEMMA StepRefines ==
    ASSUME FileInv, [Next]_fileVars
    PROVE  [clobbered' \/ Store!Next]_(Store!storeVars)
  <1> SUFFICES ASSUME ~clobbered', ~UNCHANGED fileVars
               PROVE  Store!Next \/ UNCHANGED Store!storeVars
    BY DEF fileVars, Store!storeVars, Held, Parsable, InWrite
  <1>1. PICK p \in Proc : Step(p) \/ Stop(p) \/ \E r \in Request : Ask(p, r)
    BY DEF Next
  <1> QED
    BY <1>1, ConstructorRefines, UnseenSteps, AskStopRefines, LookRefines,
       WriteRefines DEF Step

(* The methods implement the port: each takes effect at once, for any      *)
(* number of processes, as long as the constructor does not write into a   *)
(* file in use.                                                            *)
THEOREM FileImplementsStore == Spec => ImplementsStore
  <1>1. Init => Store!Init
    BY DEF Init, Store!Init, Held, Parsable, InWrite, EmptyStore,
       Store!EmptyStore
  <1> QED
    BY <1>1, StepRefines, FileInvariance, PTL DEF Spec, ImplementsStore

----------------------------------------------------------------------------
(* Where "to avoid a lost update" of infrastructure/approval_store_file.py *)
(* holds: the process that creates the file does it before any other has   *)
(* started.                                                                *)
CreatesAlone ==
    \A p, q \in Proc :
        pc[p] \in {"creating", "created"} /\ pc[q] # "down" => p = q

(* Nothing has been written yet when the file is created.                  *)
CreatesNew ==
    /\ ~clobbered
    /\ \A p \in Proc : /\ pc[p] = "creating" => form = "absent"
                       /\ pc[p] = "created" => form = "empty"

LEMMA CreatesNewPreserved ==
    ASSUME FileInv, CreatesAlone, CreatesNew, [Next]_fileVars
    PROVE  CreatesNew'
  <1> USE DEF FileInv, FileTypeOK, CreatesNew, Goto
  <1>1. ASSUME NEW p \in Proc, Start(p)
        PROVE  CreatesNew'
    BY <1>1 DEF Start
  <1>2. ASSUME NEW p \in Proc, Create(p) \/ FillIn(p)
        PROVE  CreatesNew'
    <2>1. pc[p] \in {"creating", "created"} /\ ~Inhabited
      BY <1>2 DEF Create, FillIn, Inhabited
    <2>2. \A q \in Proc \ {p} : pc[q] = "down"
      BY <2>1 DEF CreatesAlone
    <2> QED
      BY <1>2, <2>1, <2>2 DEF Create, FillIn
  <1>3. ASSUME NEW p \in Proc,
               \/ Lock(p) \/ Load(p) \/ LoadFails(p) \/ Look(p) \/ Truncate(p)
               \/ WriteSome(p) \/ WriteRest(p) \/ Unlock(p)
               \/ \E r \in Request : Ask(p, r)
        PROVE  CreatesNew'
    <2>1. pc[p] \notin {"down", "creating", "created"}
          /\ UNCHANGED clobbered
      BY <1>3 DEF Lock, Load, LoadFails, Look, Truncate, WriteSome, WriteRest,
                  Unlock, Ask
    <2>2. \A q \in Proc : pc[q] \notin {"creating", "created"}
      BY <2>1 DEF CreatesAlone
    <2>3. \A q \in Proc : pc'[q] \notin {"creating", "created"}
      BY <1>3, <2>2 DEF Lock, Load, LoadFails, Look, Truncate, WriteSome,
                        WriteRest, Unlock, Ask, Release
    <2> QED
      BY <2>1, <2>3
  <1>4. ASSUME NEW p \in Proc, Stop(p)
        PROVE  CreatesNew'
    BY <1>4 DEF Stop
  <1>5. CASE UNCHANGED fileVars
    BY <1>5 DEF fileVars
  <1> QED
    BY <1>1, <1>2, <1>3, <1>4, <1>5 DEF Next, Step

LEMMA CreationHarmless == Spec /\ []CreatesAlone => []CreatesNew
  <1>1. Init => CreatesNew
    BY DEF Init, CreatesNew
  <1>2. FileInv /\ CreatesAlone /\ CreatesNew /\ [Next]_fileVars
          => CreatesNew'
    BY CreatesNewPreserved
  <1> QED
    BY <1>1, <1>2, FileInvariance, PTL DEF Spec

(* Run LostCreation shows two first starts that lose an update; with the   *)
(* first start alone no update is lost short of a kill in a write, and the *)
(* file is the port's store without exception.                             *)
THEOREM CreatedAloneNoneLost == Spec /\ []CreatesAlone => []NoLostUpdate
  <1>1. CreatesNew /\ UpdatesKept => NoLostUpdate
    BY DEF CreatesNew, UpdatesKept, NoLostUpdate
  <1> QED
    BY <1>1, CreationHarmless, NoUpdateIsLost, PTL

THEOREM CreatedAloneIsTheStore == Spec /\ []CreatesAlone => Store!Spec
  <1>1. /\ CreatesNew => ~clobbered
        /\ ~clobbered' /\ [clobbered' \/ Store!Next]_(Store!storeVars)
             => [Store!Next]_(Store!storeVars)
    BY DEF CreatesNew
  <1> QED
    BY <1>1, CreationHarmless, FileImplementsStore, PTL
       DEF ImplementsStore, Store!Spec

(* A server that finds its file there has nothing to create.               *)
LEMMA FilePersists == Spec /\ form = "whole" => []CreatesAlone
  <1> DEFINE Exists == /\ form # "absent"
                       /\ \A p \in Proc : pc[p] \notin {"creating", "created"}
  <1>1. Init /\ form = "whole" => Exists
    BY DEF Init
  <1>2. FileInv /\ Exists /\ [Next]_fileVars => Exists'
    <2> SUFFICES ASSUME FileInv, Exists, [Next]_fileVars
                 PROVE  Exists'
      OBVIOUS
    <2> USE DEF FileInv, FileTypeOK, Goto
    <2>1. ASSUME NEW p \in Proc, Start(p) \/ Stop(p)
          PROVE  Exists'
      BY <2>1 DEF Start, Stop
    <2>2. ASSUME NEW p \in Proc, \E r \in Request : Ask(p, r)
          PROVE  Exists'
      BY <2>2 DEF Ask
    <2>3. ASSUME NEW p \in Proc,
                 Lock(p) \/ Load(p) \/ LoadFails(p) \/ Look(p) \/ Unlock(p)
          PROVE  Exists'
      BY <2>3 DEF Lock, Load, LoadFails, Look, Unlock, Release
    <2>4. ASSUME NEW p \in Proc, Truncate(p) \/ WriteSome(p) \/ WriteRest(p)
          PROVE  Exists'
      BY <2>4 DEF Truncate, WriteSome, WriteRest
    <2>5. \A p \in Proc : ~Create(p) /\ ~FillIn(p)
      BY DEF Create, FillIn
    <2>6. CASE UNCHANGED fileVars
      BY <2>6 DEF fileVars
    <2> QED
      BY <2>1, <2>2, <2>3, <2>4, <2>5, <2>6 DEF Next, Step
  <1>3. Exists => CreatesAlone
    BY DEF CreatesAlone
  <1> HIDE DEF Exists
  <1> QED
    BY <1>1, <1>2, <1>3, FileInvariance, PTL DEF Spec

COROLLARY KeptFileNoneLost == Spec /\ form = "whole" => []NoLostUpdate
  BY FilePersists, CreatedAloneNoneLost, PTL

COROLLARY KeptFileIsTheStore == Spec /\ form = "whole" => Store!Spec
  BY FilePersists, CreatedAloneIsTheStore, PTL
=============================================================================
