---------------------------- MODULE ImapMailbox ----------------------------
(***************************************************************************)
(* ImapEmailProvider and ImapSmtpClient on one mailbox, one IMAP or SMTP   *)
(* command at a time.  Calls run in worker threads, each on connections of *)
(* its own, beside each other and beside the mail client of the mailbox's  *)
(* owner.  A draft is sent in five commands and more: fetch, SMTP, append  *)
(* to Sent and find there, mark in Drafts, expunge.                        *)
(*                                                                         *)
(* IMAP's CLOSE, with which _disconnect ends every connection, expunges    *)
(* the folder unless it was opened read-only.                              *)
(***************************************************************************)
EXTENDS Naturals, FiniteSets

CONSTANTS
    Thread,       \* calls the provider can execute at once
    Text,         \* contents of messages
    MessageId,    \* values of Message-ID headers
    NoId,         \* the message has no such header
    NoMessage,    \* no message has this uid
    MaxUid,       \* bound: messages each folder ever sees
    MaxMarks      \* bound: marks of the owner and of mark_as_read

Role == {"inbox", "drafts", "sent"}

ASSUME MaxUidAssumption == MaxUid \in [Role -> Nat]
ASSUME MaxMarksAssumption == MaxMarks \in Nat
ASSUME NoIdAssumption == NoId \notin MessageId

Uid(role) == 1..MaxUid[role]

Raw == [mid : MessageId \cup {NoId}, text : Text]

Message == [raw : Raw, seen : BOOLEAN, deleted : BOOLEAN]

ASSUME NoMessageAssumption == NoMessage \notin Raw \cup Message

VARIABLES
    box,          \* the folders, by uid
    uidnext,      \* a folder never uses a uid again
    call,         \* what each thread executes
    handed,       \* history: the drafts an SMTP server has accepted
    filed,        \* history: the drafts a copy of which is in Sent
    trash         \* history: what the owner has marked as deleted

vars == <<box, uidnext, call, handed, filed, trash>>

Pc == {"idle", "fetch", "smtp", "append", "locate", "close", "seen", "flag",
       "expunge"}

Call ==
    [op : {"none", "create", "read", "send", "mark"}, pc : Pc,
     role : Role, uid : Nat, raw : Raw \cup {NoMessage}, found : Nat,
     failed : BOOLEAN]

Present(role, u) == u \in Uid(role) /\ box[role][u] # NoMessage

New(raw) == [raw |-> raw, seen |-> FALSE, deleted |-> FALSE]

MailTypeOK ==
    /\ box = [role \in Role |-> box[role]]
    /\ uidnext \in [Role -> Nat]
    /\ \A role \in Role :
          /\ box[role] \in [Uid(role) -> Message \cup {NoMessage}]
          /\ uidnext[role] \in 1..(MaxUid[role] + 1)
          /\ \A u \in Uid(role) : Present(role, u) => u < uidnext[role]
    /\ call \in [Thread -> Call]
    /\ handed \cup filed \subseteq Uid("drafts")
    /\ \A gone \in trash : gone[1] \in Role /\ gone[2] \in Uid(gone[1])

NoCall ==
    [op |-> "none", pc |-> "idle", role |-> "inbox", uid |-> 0,
     raw |-> NoMessage, found |-> 0, failed |-> FALSE]

Init ==
    /\ box = [role \in Role |-> [u \in Uid(role) |-> NoMessage]]
    /\ uidnext = [role \in Role |-> 1]
    /\ call = [q \in Thread |-> NoCall]
    /\ handed = {} /\ filed = {} /\ trash = {}

----------------------------------------------------------------------------
(* The server.                                                             *)
Room(role) == uidnext[role] <= MaxUid[role]

Add(role, raw) ==
    /\ Room(role)
    /\ box' = [box EXCEPT ![role][uidnext[role]] = New(raw)]
    /\ uidnext' = [uidnext EXCEPT ![role] = @ + 1]

Expunged(role) ==
    [box EXCEPT ![role] =
        [u \in Uid(role) |-> IF Present(role, u) /\ box[role][u].deleted
                             THEN NoMessage ELSE box[role][u]]]

(* SEARCH HEADER Message-ID: an empty string matches every message that    *)
(* has the header.                                                         *)
HasId(message, mid) ==
    IF mid = NoId THEN message.raw.mid # NoId ELSE message.raw.mid = mid

Matching(role, mid) ==
    {u \in Uid(role) : Present(role, u) /\ HasId(box[role][u], mid)}

(* A Message-ID nobody else uses: make_msgid, here and in the owner's mail *)
(* client, and in those who write to the owner.                            *)
Fresh(mid) ==
    /\ \A role \in Role : \A u \in Uid(role) :
          Present(role, u) => box[role][u].raw.mid # mid
    /\ \A q \in Thread : call[q].raw # NoMessage => call[q].raw.mid # mid

----------------------------------------------------------------------------
(* The provider's methods, up to their first command.                      *)
Begin(q, op, pc, role, uid, raw) ==
    /\ call[q].pc = "idle"
    /\ call' = [call EXCEPT ![q] =
                  [op |-> op, pc |-> pc, role |-> role, uid |-> uid,
                   raw |-> raw, found |-> 0, failed |-> FALSE]]
    /\ UNCHANGED <<box, uidnext, handed, filed, trash>>

CreateDraft(q, mid, text) ==
    /\ Fresh(mid)
    /\ Begin(q, "create", "append", "drafts", 0, [mid |-> mid, text |-> text])

(* get_email, get_draft and get_attachment.                                *)
GetMessage(q, role, u) == Begin(q, "read", "fetch", role, u, NoMessage)

SendDraft(q, u) == Begin(q, "send", "fetch", "drafts", u, NoMessage)

(* The bound on marks: the owner's, and those mark_as_read leaves or is    *)
(* about to make.                                                          *)
Seen ==
    UNION {{<<role, u>> : u \in {v \in Uid(role) :
                                    Present(role, v) /\ box[role][v].seen}} :
           role \in Role}

MarkLeft ==
    Cardinality(trash) + Cardinality(Seen)
        + Cardinality({q \in Thread : call[q].op = "mark"}) < MaxMarks

MarkAsRead(q, role, u) ==
    /\ MarkLeft
    /\ Begin(q, "mark", "seen", role, u, NoMessage)

----------------------------------------------------------------------------
Goto(q, pc) == call' = [call EXCEPT ![q].pc = pc]

(* The method returns, or raises.                                          *)
End(q) == call' = [call EXCEPT ![q] = NoCall]

(* Mutations of Fetch: the folder is selected, not examined; a draft that  *)
(* is being sent is marked at once, so that nobody else sends it.          *)
FetchSelected(q) ==
    LET c == call[q] IN
    /\ c.pc = "fetch"
    /\ IF Present(c.role, c.uid)
       THEN box' = [box EXCEPT ![c.role][c.uid].seen = TRUE] ELSE UNCHANGED box
    /\ End(q)
    /\ UNCHANGED <<uidnext, handed, filed, trash>>

FetchClaims(q) ==
    LET c == call[q] IN
    /\ c.pc = "fetch" /\ c.op = "send" /\ Present("drafts", c.uid)
    /\ box' = [box EXCEPT !["drafts"][c.uid].deleted = TRUE]
    /\ call' = [call EXCEPT ![q] =
                   [@ EXCEPT !.raw = box["drafts"][c.uid].raw,
                             !.pc = "smtp"]]
    /\ UNCHANGED <<uidnext, handed, filed, trash>>

(* EXAMINE and FETCH RFC822: the folder is open read-only, so the message  *)
(* is not marked as seen.                                                  *)
Fetch(q) ==
    LET c == call[q] IN
    /\ c.pc = "fetch"
    /\ \/ (~Present(c.role, c.uid) \/ c.op = "read") /\ End(q)
       \/ /\ Present(c.role, c.uid) /\ c.op = "send"
          /\ call' = [call EXCEPT ![q] =
                         [@ EXCEPT !.raw = box[c.role][c.uid].raw,
                                   !.pc = "smtp"]]
    /\ UNCHANGED <<box, uidnext, handed, filed, trash>>

(* Mutation of Smtp: an error of the SMTP server is swallowed.             *)
SmtpSwallows(q) ==
    /\ call[q].pc = "smtp"
    /\ handed' \in {handed, handed \cup {call[q].uid}}
    /\ Goto(q, "append")
    /\ UNCHANGED <<box, uidnext, filed, trash>>

Smtp(q) ==
    /\ call[q].pc = "smtp"
    /\ handed' = handed \cup {call[q].uid}
    /\ Goto(q, "append")
    /\ UNCHANGED <<box, uidnext, filed, trash>>

(* append_and_locate, in Drafts or in Sent.                                *)
Folder(q) == IF call[q].op = "send" THEN "sent" ELSE call[q].role

Append(q) ==
    /\ call[q].pc = "append"
    /\ Add(Folder(q), call[q].raw)
    /\ filed' = IF call[q].op = "send" THEN filed \cup {call[q].uid} ELSE filed
    /\ Goto(q, "locate")
    /\ UNCHANGED <<handed, trash>>

(* Mutations of Locate: the newest message of the folder; no test for an   *)
(* empty result.                                                           *)
LocateNewest(q) ==
    /\ call[q].pc = "locate"
    /\ call' = [call EXCEPT ![q] =
                   [@ EXCEPT !.pc = "close",
                             !.found = uidnext[Folder(q)] - 1]]
    /\ UNCHANGED <<box, uidnext, handed, filed, trash>>

LocateUntested(q) ==
    /\ call[q].pc = "locate"
    /\ Matching(Folder(q), call[q].raw.mid) = {}
    /\ call' = [call EXCEPT ![q] =
                   [@ EXCEPT !.pc = "close", !.found = NoMessage]]
    /\ UNCHANGED <<box, uidnext, handed, filed, trash>>

Locate(q) ==
    LET uids == Matching(Folder(q), call[q].raw.mid) IN
    /\ call[q].pc = "locate"
    /\ IF uids = {}
       THEN call' = [call EXCEPT ![q] =
                        [@ EXCEPT !.pc = "close", !.failed = TRUE]]
       ELSE \E u \in uids :
               /\ \A v \in uids : v <= u
               /\ call' = [call EXCEPT ![q] =
                              [@ EXCEPT !.pc = "close", !.found = u]]
    /\ UNCHANGED <<box, uidnext, handed, filed, trash>>

SetSeen(q) ==
    LET c == call[q] IN
    /\ c.pc = "seen"
    /\ box' = IF Present(c.role, c.uid)
              THEN [box EXCEPT ![c.role][c.uid].seen = TRUE] ELSE box
    /\ Goto(q, "close")
    /\ UNCHANGED <<uidnext, handed, filed, trash>>

(* _disconnect of a connection that had its folder open for writing.       *)
Close(q) ==
    LET c == call[q] IN
    /\ c.pc = "close"
    /\ box' = Expunged(Folder(q))
    /\ IF c.op = "send" /\ ~c.failed THEN Goto(q, "flag") ELSE End(q)
    /\ UNCHANGED <<uidnext, handed, filed, trash>>

(* delete: a uid that is gone is stored to without complaint.              *)
Flag(q) ==
    LET u == call[q].uid IN
    /\ call[q].pc = "flag"
    /\ box' = IF Present("drafts", u)
              THEN [box EXCEPT !["drafts"][u].deleted = TRUE] ELSE box
    /\ Goto(q, "expunge")
    /\ UNCHANGED <<uidnext, handed, filed, trash>>

(* EXPUNGE and CLOSE.  Nobody looks at EXPUNGE's status: a server may      *)
(* refuse it.                                                              *)
Expunge(q) ==
    /\ call[q].pc = "expunge"
    /\ box' \in {Expunged("drafts"), box}
    /\ End(q)
    /\ UNCHANGED <<uidnext, handed, filed, trash>>

(* A command is refused, or the connection breaks before it or after it:   *)
(* in the first case the folder is still closed.                           *)
Fails(q) ==
    LET c == call[q] IN
    /\ c.pc # "idle"
    /\ \/ End(q) /\ UNCHANGED box
       \/ c.pc \in {"append", "locate", "seen"}
          /\ call' = [call EXCEPT ![q] =
                         [@ EXCEPT !.pc = "close", !.failed = TRUE]]
          /\ UNCHANGED box
       \/ c.pc = "flag" /\ End(q) /\ box' = Expunged("drafts")
    /\ UNCHANGED <<uidnext, handed, filed, trash>>

----------------------------------------------------------------------------
(* The owner, in a mail client of their own, and those who write to them.  *)
Arrives(role, mid, text) ==
    /\ role # "sent"
    /\ mid = NoId \/ Fresh(mid)
    /\ Add(role, [mid |-> mid, text |-> text])
    /\ UNCHANGED <<call, handed, filed, trash>>

OwnerMarks(role, u) ==
    /\ Present(role, u) /\ ~box[role][u].deleted
    /\ MarkLeft
    /\ box' = [box EXCEPT ![role][u].deleted = TRUE]
    /\ trash' = trash \cup {<<role, u>>}
    /\ UNCHANGED <<uidnext, call, handed, filed>>

Step(q) ==
    \/ Fetch(q) \/ Smtp(q) \/ Append(q) \/ Locate(q) \/ SetSeen(q)
    \/ Close(q) \/ Flag(q) \/ Expunge(q) \/ Fails(q)

Method(q) ==
    \/ \E mid \in MessageId, text \in Text : CreateDraft(q, mid, text)
    \/ \E role \in Role : \E u \in Uid(role) :
          GetMessage(q, role, u) \/ MarkAsRead(q, role, u)
    \/ \E u \in Uid("drafts") : SendDraft(q, u)

Owner ==
    \/ \E role \in Role, mid \in MessageId \cup {NoId}, text \in Text :
          Arrives(role, mid, text)
    \/ \E role \in Role : \E u \in Uid(role) :
          OwnerMarks(role, u)

Next == Owner \/ \E q \in Thread : Method(q) \/ Step(q)

Spec == Init /\ [][Next]_vars

----------------------------------------------------------------------------
(* A call that has sent answers with the copy it filed, and one that has   *)
(* created answers with the draft it made, whatever the other threads and  *)
(* the owner put into the folder meanwhile; except for a draft without a   *)
(* Message-ID, which the provider looks for with an empty one.             *)
LocatedIsOwn ==
    \A q \in Thread :
        LET c == call[q] IN
        c.op \in {"create", "send"} /\ c.found # 0 /\ c.raw.mid # NoId
            /\ Present(Folder(q), c.found)
        => box[Folder(q)][c.found].raw = c.raw

(* A send that returns, which it does from its last command only, has      *)
(* handed its message over and filed it.                                   *)
SentMeansSent ==
    [][\A q \in Thread : Expunge(q) => call[q].uid \in handed \cap filed]_vars

Vanishes(role, u) == Present(role, u) /\ ~Present(role, u)'

(* Nothing leaves a folder but what the owner has marked, and drafts that  *)
(* were handed over and filed before: no failure in between loses a draft. *)
NothingIsLost ==
    [][\A role \in Role : \A u \in Uid(role) :
          Vanishes(role, u) =>
              \/ <<role, u>> \in trash
              \/ role = "drafts" /\ u \in handed \cap filed]_vars

(* A message becomes read only when mark_as_read was called for it: the    *)
(* reading tools, and a send, read without a trace.                        *)
SeenOnlyIfAsked ==
    [][\A role \in Role : \A u \in Uid(role) :
          Present(role, u) /\ Present(role, u)'
              /\ box[role][u].seen # box'[role][u].seen =>
                  \E q \in Thread : /\ call[q].op = "mark"
                                    /\ call[q].role = role
                                    /\ call[q].uid = u]_vars

(* mcp/tools.py: send_email is the only tool marked destructive.           *)
OnlySendDestroys ==
    [][\A role \in Role : \A u \in Uid(role) :
          Vanishes(role, u) => \E q \in Thread : call[q].op = "send"]_vars
=============================================================================
