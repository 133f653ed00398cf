---------------------------- MODULE MailReading ----------------------------
(***************************************************************************)
(* The reading tools over a mailbox that changes while they read it:       *)
(* search_emails, get_thread, get_email and get_attachment of the four     *)
(* adapters, one request at a time, beside ProviderDrafts.                 *)
(*                                                                         *)
(* Gmail's search and both of IMAP's list first and then fetch each        *)
(* message by a request of its own (asyncio.gather), in any order, and one *)
(* failing fetch fails the call.  IMAP has no threads: get_thread searches *)
(* the Inbox, fetches, searches Sent, and fetches again.                   *)
(***************************************************************************)
EXTENDS ProviderDrafts

CONSTANTS
    Reader,       \* reading calls at once
    NoRead,       \* the slot reads nothing
    MaxLimit,     \* MAX_SEARCH_LIMIT
    Page,         \* the messages Graph answers when asked for no number
    Parts,        \* the sizes of the attachments of a message, in order
    MaxSize       \* MAX_ATTACHMENT_SIZE_BYTES

ASSUME MaxLimitAssumption == MaxLimit \in Nat \ {0} /\ Page \in Nat \ {0}
ASSUME PartsAssumption == Parts \in Seq(Nat) /\ MaxSize \in Nat

LimitParam == 1..MaxLimit

VARIABLE
    reader        \* what each slot reads

readVars == <<draftVars, reader>>

(* `arg' is a search's limit, a thread id, or a message's id; `folder' the *)
(* folder IMAP's get_thread is at.  History: `throughout' are the messages *)
(* the mailbox has had since the call began, `sometime' those it has had   *)
(* at any time since.                                                      *)
Read ==
    [op : {"search", "thread", "email", "attachment"},
     pc : {"list", "fetch", "ok", "not_found", "too_large"},
     arg : Nat, part : Nat, named : Nat, folder : {"inbox", "sent"},
     todo : SUBSET Id, found : SUBSET Id,
     throughout : SUBSET Id, sometime : SUBSET Id]

ASSUME NoReadAssumption == NoRead \notin Read

ReadingTypeOK == DraftsTypeOK /\ reader \in [Reader -> Read \cup {NoRead}]

ReadingInit == DraftsInit /\ reader = [r \in Reader |-> NoRead]

Goal(r, op) == reader[r] # NoRead /\ reader[r].op = op
Answered(r) ==
    reader[r] # NoRead /\ reader[r].pc \in {"ok", "not_found", "too_large"}

Become(r, new) == reader' = [reader EXCEPT ![r] = new]

----------------------------------------------------------------------------
(* A call begins.  Thread ids are those of messages the agent has seen,    *)
(* and so are the ids of messages and attachments.                         *)
Begin(r, op, pc, arg, part, todo) ==
    /\ reader[r] = NoRead
    /\ Become(r, [op |-> op, pc |-> pc, arg |-> arg, part |-> part,
                  named |-> 0, folder |-> "inbox", todo |-> todo,
                  found |-> {}, throughout |-> Present,
                  sometime |-> Present])
    /\ UNCHANGED draftVars

SearchEmails(r, limit) == Begin(r, "search", "list", limit, 0, {})

GetThread(r, m) ==
    ThreadOf(m) # None /\ Begin(r, "thread", "list", ThreadOf(m), 0, {})

GetEmail(r, m) == Begin(r, "email", "fetch", m, 0, {m})

GetAttachment(r, m, part) == Begin(r, "attachment", "list", m, part, {})

(* x comes before m in a search's answer: the later one does.  IMAP: uids  *)
(* sorted downwards; elsewhere the server's order, or the fake provider's  *)
(* sort, which leaves its first two, of one instant, in their order.       *)
Before(x, m) ==
    IF adapter = "fake" /\ x \in {1, 2} /\ m \in {1, 2} THEN x < m ELSE x > m

(* The first n: [:limit], maxResults, $top.                                *)
Newest(S, n) == {m \in S : Cardinality({x \in S : Before(x, m)}) < n}

(* IMAP searches its Inbox, the others everything.                         *)
Searched == {m \in Present : adapter = "imap" => mail[m].at = "inbox"}

Search(r) ==
    /\ Goal(r, "search") /\ reader[r].pc = "list"
    /\ LET hits == Newest(Searched, reader[r].arg) IN
       IF adapter \in {"gmail", "imap"}
       THEN Become(r, [reader[r] EXCEPT !.pc = "fetch", !.todo = hits])
       ELSE Become(r, [reader[r] EXCEPT !.pc = "ok", !.found = hits])
    /\ UNCHANGED draftVars

(* Graph's answer to a request without $top, oldest first: the first page. *)
(* list_thread_messages asks for no other.                                 *)
FirstPage(S) == {m \in S : Cardinality({x \in S : x < m}) < Page}

(* One request, except for IMAP.  Graph answers an empty thread, the       *)
(* others that there is none.                                              *)
Thread(r) ==
    /\ Goal(r, "thread") /\ reader[r].pc = "list"
    /\ LET hits == {m \in Present : InThread(reader[r].arg, m)} IN
       IF adapter = "imap"
       THEN Become(r, [reader[r] EXCEPT
                !.pc = "fetch",
                !.todo = {m \in hits : mail[m].at = reader[r].folder}])
       ELSE Become(r, [reader[r] EXCEPT
                !.pc = IF hits = {} /\ adapter # "graph"
                       THEN "not_found" ELSE "ok",
                !.found = IF adapter = "graph" THEN FirstPage(hits) ELSE hits])
    /\ UNCHANGED draftVars

Fetching(r) ==
    /\ reader[r] # NoRead /\ reader[r].pc = "fetch"
    /\ reader[r].op # "attachment"

(* Mutation of Fetch: a message that is gone is left out.                  *)
FetchIfThere(r, m) ==
    /\ Fetching(r) /\ m \in reader[r].todo
    /\ Become(r, [reader[r] EXCEPT
          !.todo = @ \ {m},
          !.found = IF m \in Present THEN @ \cup {m} ELSE @])
    /\ UNCHANGED draftVars

(* One of the gathered fetches; the first that fails ends the call.        *)
Fetch(r, m) ==
    /\ Fetching(r) /\ m \in reader[r].todo
    /\ IF m \in Present
       THEN Become(r, [reader[r] EXCEPT !.todo = @ \ {m},
                                        !.found = @ \cup {m}])
       ELSE Become(r, [reader[r] EXCEPT !.pc = "not_found"])
    /\ UNCHANGED draftVars

(* Mutations of Gathered: Sent is not searched; an Inbox without a message *)
(* of the thread ends the call.                                            *)
GatheredInbox(r) ==
    /\ Fetching(r) /\ reader[r].todo = {}
    /\ Become(r, [reader[r] EXCEPT !.pc = "ok"])
    /\ UNCHANGED draftVars

GatheredTooSoon(r) ==
    /\ Fetching(r) /\ reader[r].todo = {}
    /\ Become(r, [reader[r] EXCEPT !.pc = IF reader[r].found = {}
                                          THEN "not_found" ELSE "ok"])
    /\ UNCHANGED draftVars

(* All fetched: on to Sent, or to the listing of Graph's attachments, or   *)
(* done.                                                                   *)
Gathered(r) ==
    /\ Fetching(r) /\ reader[r].todo = {}
    /\ Become(r,
          IF reader[r].op # "thread"
          THEN [reader[r] EXCEPT
                   !.pc = IF reader[r].op = "email" /\ adapter = "graph"
                          THEN "list" ELSE "ok"]
          ELSE IF reader[r].folder = "inbox"
          THEN [reader[r] EXCEPT !.pc = "list", !.folder = "sent"]
          ELSE [reader[r] EXCEPT !.pc = IF reader[r].found = {}
                                        THEN "not_found" ELSE "ok"])
    /\ UNCHANGED draftVars

(* get_email of Graph asks for the attachments' names after the message.   *)
Attachments(r) ==
    /\ Goal(r, "email") /\ reader[r].pc = "list"
    /\ Become(r, [reader[r] EXCEPT
          !.pc = IF reader[r].arg \in Present THEN "ok" ELSE "not_found"])
    /\ UNCHANGED draftVars

(* Gmail's bytes come without a name; they get that of the first part of   *)
(* their size in a fresh listing.  IMAP counts parts, Graph and the fake   *)
(* one look up ids.                                                        *)
FirstOfSize(i, size) ==
    Parts[i] = size /\ \A j \in 1..(i - 1) : Parts[j] # size

(* Mutation of Bytes: the size is not looked at.                           *)
BytesOfAnySize(r) ==
    /\ Goal(r, "attachment") /\ reader[r].pc = "list"
    /\ Become(r,
          IF reader[r].arg \notin Present
          THEN [reader[r] EXCEPT !.pc = "not_found"]
          ELSE [reader[r] EXCEPT !.pc = "ok", !.named = reader[r].part])
    /\ UNCHANGED draftVars

(* The bytes, by the part's id, and in all but Gmail the name with them.   *)
Bytes(r) ==
    /\ Goal(r, "attachment") /\ reader[r].pc = "list"
    /\ LET part == reader[r].part IN
       Become(r,
          IF reader[r].arg \notin Present
          THEN [reader[r] EXCEPT !.pc = "not_found"]
          ELSE IF Parts[part] > MaxSize
          THEN [reader[r] EXCEPT !.pc = "too_large"]
          ELSE IF adapter = "gmail"
          THEN [reader[r] EXCEPT !.pc = "fetch"]
          ELSE [reader[r] EXCEPT !.pc = "ok", !.named = part])
    /\ UNCHANGED draftVars

Label(r) ==
    /\ Goal(r, "attachment") /\ reader[r].pc = "fetch"
    /\ IF reader[r].arg \notin Present
       THEN Become(r, [reader[r] EXCEPT !.pc = "not_found"])
       ELSE \E i \in DOMAIN Parts :
               /\ FirstOfSize(i, Parts[reader[r].part])
               /\ Become(r, [reader[r] EXCEPT !.pc = "ok", !.named = i])
    /\ UNCHANGED draftVars

(* The answer goes out; or a request fails otherwise, or the server dies.  *)
Ends(r) ==
    /\ reader[r] # NoRead
    /\ Become(r, NoRead)
    /\ UNCHANGED draftVars
----------------------------------------------------------------------------
ReadStep(r) ==
    \/ \E limit \in LimitParam : SearchEmails(r, limit)
    \/ \E m \in DOMAIN mail :
          \/ GetThread(r, m) \/ GetEmail(r, m)
          \/ \E part \in DOMAIN Parts : GetAttachment(r, m, part)
    \/ Search(r) \/ Thread(r) \/ Gathered(r) \/ Attachments(r) \/ Bytes(r)
    \/ Label(r) \/ Ends(r)
    \/ \E m \in Id : Fetch(r, m)

(* What a change of the mailbox means for the calls that are reading it.   *)
Noted ==
    [r \in Reader |->
        IF reader[r] = NoRead \/ Answered(r) THEN reader[r]
        ELSE [reader[r] EXCEPT !.throughout = @ \cap Present',
                               !.sometime = @ \cup Present']]

ReadingNext ==
    \/ DraftsNext /\ reader' = Noted
    \/ \E r \in Reader : ReadStep(r)

ReadingSpec == ReadingInit /\ [][ReadingNext]_readVars

----------------------------------------------------------------------------
Done(r, op) == Goal(r, op) /\ reader[r].pc = "ok"

(* A search answers at most as many messages as it was asked for, each one *)
(* in the mailbox at some time during the call, and leaves no gap: what it *)
(* left out is older than a full page of what it answers, or came or went  *)
(* meanwhile.                                                              *)
SearchIsNewest ==
    \A r \in Reader :
        Done(r, "search") =>
            /\ reader[r].found \subseteq reader[r].sometime
            /\ Cardinality(reader[r].found) <= reader[r].arg
            /\ \A m \in reader[r].throughout \ reader[r].found :
                  (adapter = "imap" => mail[m].at = "inbox") =>
                      Cardinality({x \in reader[r].found : Before(x, m)})
                          = reader[r].arg

(* get_thread by the thread id a message was shown with answers every      *)
(* message shown with that id, those sent by this server included, unless  *)
(* it came or went meanwhile or, with Graph, a full page comes before it;  *)
(* IMAP, a message with In-Reply-To alone excepted.                        *)
ThreadIsWhole ==
    \A r \in Reader :
        Done(r, "thread") =>
            /\ reader[r].found \subseteq reader[r].sometime
            /\ \A m \in reader[r].throughout :
                  Threaded(m) /\ ThreadOf(m) = reader[r].arg =>
                      \/ m \in reader[r].found
                      \/ /\ adapter = "graph"
                         /\ Cardinality({x \in reader[r].found : x < m}) = Page

(* EmailNotFoundError is the truth: the message asked for was not there    *)
(* all the time, no message of the thread was, or one that the call had    *)
(* listed was deleted before it was fetched.                               *)
NotFoundIsTrue ==
    \A r \in Reader :
        reader[r] # NoRead /\ reader[r].pc = "not_found" =>
            \/ /\ reader[r].op \in {"search", "thread"}
               /\ reader[r].todo \cap gone # {}
            \/ /\ reader[r].op \in {"email", "attachment"}
               /\ reader[r].arg \notin reader[r].throughout
            \/ /\ reader[r].op = "thread"
               /\ \A m \in reader[r].throughout : ~InThread(reader[r].arg, m)

(* An attachment within the limit comes under its own name, unless another *)
(* one of the message has the same size; none over the limit comes.        *)
AttachmentIsItsOwn ==
    \A r \in Reader :
        Done(r, "attachment") =>
            LET part == reader[r].part IN
            /\ Parts[part] <= MaxSize
            /\ \/ reader[r].named = part
               \/ \E i \in DOMAIN Parts : i # part /\ Parts[i] = Parts[part]
=============================================================================
