--------------------------- MODULE ProviderDrafts ---------------------------
(***************************************************************************)
(* Drafts and threads behind the EmailProvider port, for each adapter:     *)
(* create_draft, update_draft and send_draft of GmailEmailProvider and     *)
(* GraphEmailProvider one HTTP request at a time, beside each other and    *)
(* beside the owner's own mail client; FakeEmailProvider in one step; and, *)
(* for the threads it builds out of headers, ImapEmailProvider, whose      *)
(* commands ImapMailbox takes apart.                                       *)
(*                                                                         *)
(* Gmail replaces the whole message of a draft: update_draft reads it,     *)
(* waits, and writes it all back.  Graph makes a reply's draft itself and  *)
(* has its content overwritten by a second request.                        *)
(***************************************************************************)
EXTENDS Naturals, Sequences, FiniteSets

CONSTANTS
    Adapter,      \* the adapters an account may be behind
    Req,          \* calls of several requests the provider can have open
    DraftId,
    Text,         \* what people and agents write
    NoText,       \* None: the argument that leaves a field as it is
    Quoted,       \* what Graph writes into a reply's draft by itself
    Letters,      \* what agents write
    Edits,        \* the edits reviewers and the owner make
    NoDraft,      \* no draft has had this id
    GoneDraft,    \* the draft was sent or deleted
    NoCall,       \* the slot executes nothing
    MaxMail       \* bound: messages the mailbox ever sees

ASSUME AdapterAssumption == Adapter \subseteq {"gmail", "graph", "imap", "fake"}
ASSUME MaxMailAssumption == MaxMail \in Nat /\ MaxMail >= 2
ASSUME TextAssumption == NoText \notin Text /\ Quoted \notin Text

(* Messages are numbered as they arrive; 0 is no message.                  *)
Id == 0..MaxMail
None == 0

(* A thread as the provider's server keeps it, the message answered        *)
(* (In-Reply-To), and its References.  `origin' is history: the message    *)
(* whose id the agent gave as reply_to_email_id.                           *)
Place == [thread : Id, parent : Id, refs : Seq(Id), origin : Id]
NoPlace == [thread |-> None, parent |-> None, refs |-> <<>>, origin |-> None]

Message == [at : {"inbox", "sent"}, place : Place]

(* `extra': what only the owner's client adds (attachments, Bcc, HTML).    *)
Draft ==
    [subject : Text \cup {Quoted}, body : Text \cup {Quoted},
     to : {"asked", "quoted"}, place : Place, extra : BOOLEAN]

Edit == [subject : Text \cup {NoText}, body : Text \cup {NoText}]

NoEdit == [subject |-> NoText, body |-> NoText]

ASSUME EditsAssumption == Edits \subseteq Edit
ASSUME LettersAssumption == Letters \subseteq [subject : Text, body : Text]
ASSUME NoDraftAssumption ==
    NoDraft \notin Draft /\ GoneDraft \notin Draft /\ NoDraft # GoneDraft

VARIABLES
    adapter,      \* the account's provider
    mail,         \* every message, in order of arrival
    gone,         \* those deleted since
    drafts,       \* the drafts, by id
    call,         \* what each slot executes
    ideal,        \* history: the drafts if every call took one step
    spoiled       \* history: drafts Gmail wrote from a copy out of date

draftVars == <<adapter, mail, gone, drafts, call, ideal, spoiled>>

(* A call between its first request and its last: `held' is the message a  *)
(* reply is made of, or the copy of the draft an update goes on with, and  *)
(* stale says that draft has changed since.                                *)
Call ==
    [op : {"reply", "update"}, draft : DraftId \cup {NoDraft}, text : Edit,
     held : Draft, stale : BOOLEAN]

ASSUME NoCallAssumption == NoCall \notin Call

DraftsTypeOK ==
    /\ adapter \in Adapter
    /\ mail \in Seq(Message) /\ Len(mail) <= MaxMail
    /\ gone \subseteq DOMAIN mail
    /\ drafts \in [DraftId -> Draft \cup {NoDraft, GoneDraft}]
    /\ call \in [Req -> Call \cup {NoCall}]
    /\ ideal \in [DraftId -> Draft \cup {NoDraft}]
    /\ spoiled \subseteq DraftId

(* A first message, and the answer the fake provider is born with.         *)
First == [at |-> "inbox", place |-> [NoPlace EXCEPT !.thread = 1]]
Second == [First EXCEPT !.at = "sent"]

DraftsInit ==
    /\ adapter \in Adapter
    /\ mail = IF adapter = "fake" THEN <<First, Second>> ELSE <<First>>
    /\ gone = {}
    /\ drafts = [d \in DraftId |-> NoDraft]
    /\ call = [q \in Req |-> NoCall]
    /\ ideal = [d \in DraftId |-> NoDraft]
    /\ spoiled = {}

----------------------------------------------------------------------------
(* Threads.                                                                *)
Present == DOMAIN mail \ gone

(* RFC 5322: a reply's References are those of the message answered,       *)
(* followed by that message.                                               *)
Chain(m) ==
    LET p == mail[m].place
    IN  Append(IF p.refs = <<>> /\ p.parent # None THEN <<p.parent>>
               ELSE p.refs, m)

(* Mutation of ImapChain: only the message answered.                       *)
ImapLastOnly(m) == <<m>>

(* create_draft of the IMAP provider, and of Gmail's: the latter takes the *)
(* References of the message answered as they are.                         *)
ImapChain(m) == Append(mail[m].place.refs, m)
GmailChain(m) ==
    IF mail[m].place.refs = <<>> THEN <<m>> ELSE mail[m].place.refs

ReplyPlace(m) ==
    [thread |-> mail[m].place.thread, parent |-> m, origin |-> m,
     refs |-> CASE adapter = "imap" -> ImapChain(m)
                [] adapter = "gmail" -> GmailChain(m)
                [] OTHER -> Chain(m)]

(* thread_id: the server's, or with IMAP _thread_id_for the headers.       *)
ThreadOf(m) ==
    LET p == mail[m].place
    IN  IF adapter # "imap" THEN p.thread
        ELSE CASE p.refs # <<>> -> Head(p.refs)
               [] p.refs = <<>> /\ p.parent # None -> p.parent
               [] OTHER -> m

(* What get_thread finds.  IMAP: the Message-ID is t, or References has t. *)
InThread(t, m) ==
    IF adapter = "imap"
    THEN m = t \/ \E i \in DOMAIN mail[m].place.refs : mail[m].place.refs[i] = t
    ELSE mail[m].place.thread = t

----------------------------------------------------------------------------
Exists(d) == drafts[d] \notin {NoDraft, GoneDraft}

(* The calls.  One request takes effect at one instant, so a call that     *)
(* makes only one is a step; a call of two holds a slot in between.        *)
Open(q, op, d, text, held) ==
    call' = [call EXCEPT ![q] = [op |-> op, draft |-> d, text |-> text,
                                 held |-> held, stale |-> FALSE]]

Opens(q) == call[q] = NoCall
Goes(q, op) == call[q] # NoCall /\ call[q].op = op

(* What a step does to draft d is news to the calls that hold a copy.      *)
Noticed(d) ==
    [x \in Req |-> IF Goes(x, "update") /\ call[x].draft = d
                   THEN [call[x] EXCEPT !.stale = TRUE] ELSE call[x]]

Closes(q, d) == call' = [Noticed(d) EXCEPT ![q] = NoCall]

(* Any request may fail, before or after it took effect (a lost reply),    *)
(* and the server may die: the call ends where it is.                      *)
Fails(q) ==
    /\ call[q] # NoCall
    /\ call' = [call EXCEPT ![q] = NoCall]
    /\ UNCHANGED <<adapter, mail, gone, drafts, ideal, spoiled>>

Written(text, place) ==
    [subject |-> text.subject, body |-> text.body, to |-> "asked",
     place |-> place, extra |-> FALSE]

MakeDraft(d, new) ==
    /\ drafts[d] = NoDraft
    /\ drafts' = [drafts EXCEPT ![d] = new]

(* create_draft in one request: no reply, or the fake provider's.          *)
CreateAtOnce(d, text, m) ==
    /\ m = None \/ (m \in Present /\ adapter = "fake")
    /\ LET new == Written(text, IF m = None THEN NoPlace ELSE ReplyPlace(m))
       IN  MakeDraft(d, new) /\ ideal' = [ideal EXCEPT ![d] = new]
    /\ UNCHANGED <<adapter, mail, gone, call, spoiled>>

(* A reply, Gmail and IMAP: read the message answered for its headers ...  *)
ReadOriginal(q, text, m) ==
    /\ Opens(q) /\ adapter \in {"gmail", "imap"} /\ m \in Present
    /\ Open(q, "reply", NoDraft, NoEdit, Written(text, ReplyPlace(m)))
    /\ UNCHANGED <<adapter, mail, gone, drafts, ideal, spoiled>>

(* ... and make the draft.                                                 *)
CreateReply(q, d) ==
    /\ Goes(q, "reply") /\ adapter \in {"gmail", "imap"}
    /\ MakeDraft(d, call[q].held)
    /\ ideal' = [ideal EXCEPT ![d] = call[q].held]
    /\ Closes(q, d)
    /\ UNCHANGED <<adapter, mail, gone, spoiled>>

(* createReply: Graph makes a draft, with recipients and a quoted text of  *)
(* its own, and answers its id.                                            *)
GraphCreateReply(q, d, text, m) ==
    /\ Opens(q) /\ adapter = "graph" /\ m \in Present
    /\ MakeDraft(d, [subject |-> Quoted, body |-> Quoted, to |-> "quoted",
                     place |-> ReplyPlace(m), extra |-> FALSE])
    /\ Open(q, "reply", d, NoEdit, Written(text, ReplyPlace(m)))
    /\ UNCHANGED <<adapter, mail, gone, ideal, spoiled>>

(* Mutation of Overwritten: the recipients are left as they are.           *)
OverwrittenText(draft, new) ==
    [draft EXCEPT !.subject = new.subject, !.body = new.body]

(* The PATCH that follows sets subject, body and recipients.               *)
Overwritten(draft, new) ==
    [draft EXCEPT !.subject = new.subject, !.body = new.body, !.to = new.to]

GraphOverwrite(q) ==
    /\ Goes(q, "reply") /\ adapter = "graph"
    /\ LET d == call[q].draft IN
       /\ Exists(d)
       /\ drafts' = [drafts EXCEPT ![d] = Overwritten(@, call[q].held)]
       /\ ideal' = [ideal EXCEPT
             ![d] = [call[q].held EXCEPT !.extra = drafts[d].extra]]
       /\ Closes(q, d)
    /\ UNCHANGED <<adapter, mail, gone, spoiled>>

(* Mutation of Replaced: a field left out is emptied.                      *)
ReplacedAlways(old, new) == new

Replaced(old, new) == IF new = NoText THEN old ELSE new

Edited(draft, e) ==
    [draft EXCEPT !.subject = Replaced(@, e.subject),
                  !.body = Replaced(@, e.body)]

IdealEdited(d, e) ==
    IF ideal[d] = NoDraft THEN ideal
    ELSE [ideal EXCEPT ![d] = Edited(@, e)]

(* update_draft, Gmail: read the draft ...                                 *)
GmailRead(q, d, e) ==
    /\ Opens(q) /\ adapter = "gmail" /\ Exists(d)
    /\ Open(q, "update", d, e, drafts[d])
    /\ UNCHANGED <<adapter, mail, gone, drafts, ideal, spoiled>>

(* ... and replace the message by one built from that copy: recipients and *)
(* thread as read, no reply headers (gmail_draft_to_domain leaves          *)
(* reply_to_email_id out), nothing that the copy has no field for.         *)
Rebuilt(copy, e) ==
    [Edited(copy, e) EXCEPT !.place.parent = None, !.place.refs = <<>>,
                            !.extra = FALSE]

GmailReplace(q) ==
    /\ Goes(q, "update")
    /\ LET d == call[q].draft  e == call[q].text IN
       /\ Exists(d)
       /\ drafts' = [drafts EXCEPT ![d] = Rebuilt(call[q].held, e)]
       /\ ideal' = IdealEdited(d, e)
       /\ spoiled' = IF call[q].stale THEN spoiled \cup {d} ELSE spoiled
       /\ Closes(q, d)
    /\ UNCHANGED <<adapter, mail, gone>>

(* update_draft, Graph (a PATCH of the fields given) and the fake one.     *)
UpdateInPlace(d, e) ==
    /\ adapter \in {"graph", "fake"} /\ Exists(d)
    /\ drafts' = [drafts EXCEPT ![d] = Edited(@, e)]
    /\ ideal' = IdealEdited(d, e)
    /\ call' = Noticed(d)
    /\ UNCHANGED <<adapter, mail, gone, spoiled>>

(* The sent message joins the draft's thread or starts one; the fake       *)
(* provider leaves it without.                                             *)
Filed(place) ==
    [at |-> "sent",
     place |-> IF place.thread = None /\ adapter # "fake"
               THEN [place EXCEPT !.thread = Len(mail) + 1] ELSE place]

Leaves(d) ==
    /\ Exists(d)
    /\ drafts' = [drafts EXCEPT ![d] = GoneDraft]
    /\ ideal' = [ideal EXCEPT ![d] = NoDraft]
    /\ spoiled' = spoiled \ {d}
    /\ call' = Noticed(d)

Send(d) ==
    /\ Len(mail) < MaxMail
    /\ Leaves(d)
    /\ mail' = Append(mail, Filed(drafts[d].place))
    /\ UNCHANGED <<adapter, gone>>

----------------------------------------------------------------------------
(* The owner, who also sends from other programs, and those who write to   *)
(* the owner.  A reply has its References, or In-Reply-To alone.  Bound:   *)
(* one kind of arrival where the adapter looks at neither.                 *)
Arrive(at, m, chained) ==
    /\ adapter # "fake"
    /\ Len(mail) < MaxMail
    /\ m \in DOMAIN mail \cup {None}
    /\ adapter = "imap" \/ (at = "inbox" /\ chained)
    /\ mail' = Append(mail,
          [at |-> at,
           place |-> IF m = None
                     THEN [NoPlace EXCEPT !.thread = Len(mail) + 1]
                     ELSE [thread |-> mail[m].place.thread, parent |-> m,
                           refs |-> IF chained THEN Chain(m) ELSE <<>>,
                           origin |-> None]])
    /\ UNCHANGED <<adapter, gone, drafts, call, ideal, spoiled>>

OwnerDeletesMail(m) ==
    /\ adapter # "fake"
    /\ m \in Present
    /\ gone' = gone \cup {m}
    /\ UNCHANGED <<adapter, mail, drafts, call, ideal, spoiled>>

OwnerEdits(d, e) ==
    /\ adapter # "fake" /\ Exists(d)
    /\ drafts' = [drafts EXCEPT ![d] = [Edited(@, e) EXCEPT !.extra = TRUE]]
    /\ ideal' = IF ideal[d] = NoDraft THEN ideal
                ELSE [ideal EXCEPT ![d] = [Edited(@, e) EXCEPT !.extra = TRUE]]
    /\ call' = Noticed(d)
    /\ UNCHANGED <<adapter, mail, gone, spoiled>>

OwnerDeletesDraft(d) ==
    /\ adapter # "fake"
    /\ Leaves(d)
    /\ UNCHANGED <<adapter, mail, gone>>

----------------------------------------------------------------------------
Create(q, d) ==
    \/ CreateReply(q, d)
    \/ \E text \in Letters, m \in Id :
          CreateAtOnce(d, text, m) \/ ReadOriginal(q, text, m)
              \/ GraphCreateReply(q, d, text, m)

Update(q, d) ==
    \E e \in Edits : GmailRead(q, d, e) \/ UpdateInPlace(d, e)

Owner ==
    \/ \E at \in {"inbox", "sent"}, m \in Id, chained \in BOOLEAN :
          Arrive(at, m, chained)
    \/ \E m \in Id : OwnerDeletesMail(m)
    \/ \E d \in DraftId :
          OwnerDeletesDraft(d) \/ \E e \in Edits : OwnerEdits(d, e)

Provider(q) ==
    \/ \E d \in DraftId : Create(q, d) \/ Update(q, d) \/ Send(d)
    \/ GraphOverwrite(q) \/ GmailReplace(q) \/ Fails(q)

DraftsNext == (\E q \in Req : Provider(q)) \/ Owner

DraftsSpec == DraftsInit /\ [][DraftsNext]_draftVars

----------------------------------------------------------------------------
(* The drafts a tool has answered, and no update of which overlapped       *)
(* another change.                                                         *)
Settled == {d \in DraftId : Exists(d) /\ ideal[d] # NoDraft /\ d \notin spoiled}

(* Every field of a draft is what was last written into that field, by the *)
(* agent, a reviewer or the owner, and its thread the one it was made in,  *)
(* unless Gmail's read and replacement had another change in between.  A   *)
(* draft keeps what makes it a reply too, and what only the owner can add, *)
(* but with Gmail, whose rebuilt message has neither.                      *)
LatestEditStands ==
    \A d \in Settled :
        LET now == drafts[d]  due == ideal[d] IN
        /\ now.subject = due.subject /\ now.body = due.body /\ now.to = due.to
        /\ now.place.thread = due.place.thread
        /\ adapter # "gmail" => now = due

(* A reply, once sent, is in the thread of the message it answers, however *)
(* it was edited; IMAP, where that one has In-Reply-To alone, excepted.    *)
Threaded(m) ==
    adapter = "imap" =>
        mail[m].place.refs # <<>> \/ mail[m].place.parent = None

ReplyStaysInThread ==
    \A m \in DOMAIN mail :
        LET o == mail[m].place.origin
        IN  o # None /\ Threaded(o) /\ ThreadOf(o) # None
                => InThread(ThreadOf(o), m)
=============================================================================
