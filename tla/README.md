# TLA+ specifications of email-mcp-server

email-mcp-server gives an AI agent tools to read a mailbox, to write drafts and
to send them, and lets no draft out before a human has approved it. These
modules specify that promise as the code keeps it: the approval records and
their lock, the server's coroutines between a draft and its delivery, the
command line that decides beside the server, the store's file, the IMAP mailbox,
drafts, threads and searches behind every provider, and the tenants' records. TLC checks them on small instances;
TLAPS proves the central invariants for every size.

Paths below are relative to `src/` of this repository's checkout; `email_mcp/`
stands for `src/src/email_mcp/`.

## 1. Inventory

| Component | State it keeps | Operations | Talks to |
|---|---|---|---|
| Approval service, `email_mcp/application/approval_service.py` | none (everything is in the store) | request_approval, get_status, decide, consume_if_approved, list_pending | the store, the clock |
| Approval store, `infrastructure/approval_store_file.py` | one JSON file of records, an flock on it | save, get, update_status, list_pending | the file system; shared by the server and every command-line run |
| Email service, `application/email_service.py` | none | create_draft, request_send_approval, get_approval_status, update_draft, send_email, mark_as_read, searches and reads | approval service (synchronous calls), provider (awaits), audit log |
| HTTP routes, `mcp/server.py` | none | approve (with or without edits), reject, Graph bootstrap, health | approval service, tenant registry |
| MCP tools, `mcp/tools.py` | none | one per method of the email service | tenant registry, email service |
| Approval command line, `scripts/approve_request.py` | none; one process per run | list, show, approve, reject | its own ApprovalService on the same file |
| Audit log, `infrastructure/audit.py` | an append-only file | record | |
| Providers, `providers/{fake,gmail,graph,imap}` | drafts and messages, at the mail service | create, get, update, send a draft; reads | network, in worker threads |
| Tenant registry and factory, `application/tenant_registry.py`, `providers/factory.py` | a cache of services per tenant | get | token store, providers |
| Token store and sign-in, `infrastructure/token_store_file.py`, `providers/*/auth.py`, `scripts/gmail_auth.py`, `scripts/imap_auth.py` | one JSON file per tenant | load, save, refresh, bootstrap | identity providers |
| Schemas, resources, settings, logging, limits, health | none | conversions | |

What is hard about it:

- **Two store calls per decision.** `decide` and `consume_if_approved` read the
  request under the file lock, release it, and write the new status under the
  lock again. Inside the server the two calls are one piece of synchronous code;
  between processes they are not. `update_status` does not look at the status it
  replaces.
- **Expiry is lazy.** A request expires when somebody reads it; the read writes
  EXPIRED from a copy that may be stale.
- **Awaits.** A coroutine of the server gives way while a provider works. What
  it read before (the draft it previewed, the request it is about to decide) may
  have changed when it resumes.
- **Partial failure.** The approval is consumed before the send; the audit line
  is written after it; a card's edits are made before the decision they come
  with. Each pair can be cut by an exception, a lost reply or a crash.
- **Truncate, then write.** The store's file is emptied before it is rewritten; so
  is a tenant's record, and there without a lock.
- **Many mailboxes.** Draft ids are unique only within one tenant.
- **A mailbox that changes while it is read.** Listing and fetching are separate
  requests, one per message; mail arrives and is deleted in between.
- **One port, four ways to update a draft.** Gmail replaces it whole from a copy,
  Graph patches it (and writes a reply's draft itself first), the fake provider
  swaps it in memory, IMAP refuses.

`PROJECT.json` lists each of these hazards at its line, with the properties that
watch it.

What makes each part correct:

- *Approval service and store*: a go-ahead is given only for the tenant and
  draft asked for, only after a human's approval was written, never oftener than
  it was written, never on a request found past its deadline; nothing but the
  status of a record ever changes; alone, the server decides a request once and
  uses it once.
- *Email service and routes*: no message leaves without a go-ahead of its own;
  what leaves is the draft that was asked about, made of text a reviewer saw or
  typed (with the exception Gmail's update needs, section 5); an edit is in the draft before
  the approval it came with is recorded; an
  audit line tells the truth; every request is answered.
- *Providers*: a draft is delivered once, or the caller is told it was not; every
  field of a draft is what was written into it last; a reply stays in its thread.
- *Reading tools*: a search leaves no gap, a thread is whole, a not-found is true,
  and an attachment comes under its own name, although the mailbox changes meanwhile.
- *Tenant records*: a record is replaced only by a later one of the same tenant.

## 2. Modules

| Module | What it is |
|---|---|
| `ApprovalRecords` | the records, and the store's operations on a dictionary of them; no state |
| `ApprovalService` | the gate: the server and the command-line runs, one action per critical section of the store's lock |
| `ApprovalLifecycle` | abstract specification: the life of a request (none, pending, decided, expired, consumed, or lost with the file) and how often it was used |
| `ApprovalServiceProofs` | the gate's inductive invariant, its theorems, the refinement of `ApprovalLifecycle`, and that the gate reaches the records only through `ApprovalStore` |
| `SendFlow` | extends `ApprovalService` by the server's coroutines, the mailbox, the audit log and the routes |
| `SendPromise` | abstract specification: requests, edits (also such as undo others), approvals and deliveries, with no store, coroutine or mailbox; a message leaves only under an approval of its own draft that is not spent |
| `SendFlowProofs` | the send flow's types, and that it uses the service only through its actions |
| `SendAccountingProofs` | deliveries against openings and grants, what was sent against what was asked, shown and typed, what was approved against what was applied, audit lines against messages, and the refinement of `SendPromise` |
| `ApprovalStore` | abstract specification: the store's port, whose save, get and update_status each take effect at once |
| `ApprovalStoreFile` | the store's file, one system call at a time: the constructor, flock, read, truncate, the write in two buffers, unlock, and processes that end or are killed anywhere |
| `ApprovalStoreFileProofs` | the file's inductive invariant, that no update is lost, and the refinement of `ApprovalStore` |
| `ImapMailbox` | the IMAP/SMTP provider, one command at a time, with the mail server's folders and the owner's mail client |
| `ImapMailboxProofs` | the mailbox's inductive invariant, what a send and a failure leave behind, and that a call finds its own message |
| `ProviderDrafts` | create, update and send a draft behind each adapter, one HTTP request at a time, with threads, reply headers and the owner's mail client |
| `MailReading` | extends `ProviderDrafts` by search_emails, get_thread, get_email and get_attachment of each adapter |
| `MailReadingProofs` | the inductive invariant of drafts, threads and reading calls, and all of `MailReading`'s properties |
| `TenantRecords` | a tenant's record, and the provider calls, bootstraps, scripts and registry lookups that read and write it |
| `TenantRecordsProofs` | the record's inductive invariant: what is stored, and what a refresh may save |
| `MCApprovalService`, `MCSendFlow`, `MCApprovalStoreFile`, `MCImapMailbox`, `MCMailReading`, `MCTenantRecords` | values and symmetry for TLC |

The modules meet in two places (`TenantRecords` stands apart: what a tenant's
record decides for the rest is whether provider calls fail, and `SendFlow` lets any
of them fail). `ApprovalService` takes the store's operations
(`ApprovalRecords`: `Save`, `Visible`, `UpdateStatus`) as single steps;
`ApprovalStoreFile` uses the same operators and shows that the locked file makes
them so. The two are tied together by `ApprovalStore`: the file implements that port
(`FileImplementsStore`), and each step of the service and of the flow is one call of
it or none (`ServiceUsesPort`, `FlowUsesPort`). `SendFlow` extends `ApprovalService` and takes a provider's call as one
step with a reply, a lost reply or an error, Gmail's update_draft as two; `ImapMailbox` looks inside the calls of
the one provider that needs several commands for them, and `ProviderDrafts` inside
those of the others: their sends are one request, their updates and replies up to two.

### ApprovalService

`store` is the dictionary in the file, `intact` is FALSE once a crash has left
half a text in it, `now` is the clock. `call[p]` is the method process `p` is
executing: its arguments, the request as the store last returned it, and where it is.
A method is `Get` (the first store call), then `ResolveFresh` or
`ResolveExpired` (`_resolve_expiry`, which writes when the copy has lapsed), then
`Write` (the second store call) and `Return`. Between any two of them another
process may act, because the lock is free there. `CrashInUpdate` and
`CrashInSave` are a process killed between `truncate` and the end of the write:
the file is then empty, which reads as no records, or holds part of a JSON
text, which no later call can read. `asked`, `grants` and `openings` are history:
the requests as they were saved, and how often APPROVED and CONSUMED were written
for each. They appear in no guard but that of an id's first use.

A request's `action` is always `send_email` in this program, so `resource` stands
for the pair of action and resource id. `Ttl` is the deadline in ticks; the test
is the code's strict `>`.

### SendFlow

Each slot in `Req` is a tool call or an HTTP request the server is serving.
`task[q].pc` says whether its coroutine awaits the provider, has the reply
waiting (`resume`), or is inside a method of ApprovalService (`status` for the
get_status of an approval with edits, `service` otherwise); `caller` is the one
coroutine that is. Synchronous code runs to its end before any other coroutine
does: `Enter` and the resuming actions require `LoopFree`, that no service method
is in progress in the server. The provider's effect (`ProviderSends` ...)
happens at any time, because it happens in a thread and at the mail service; the
command line acts at any time, because it is another process.

`Gmail` is the set of tenants whose mailbox is at Gmail. update_draft is one request with
the other providers (`ProviderUpdates`). Gmail's reads the draft (`ProviderCopies`), awaits,
and replaces the whole message by that copy with the edits (`ProviderReplaces`, after
`replace`); in between another card's edit may land, a new request may show the result, and
both are then written over.

A draft's content is its subject, the part of its body a card shows
(`body_preview`, 500 characters) and the rest. `Edited` is update_draft with the
fields a card may change; editing the preview replaces the whole body, so `rest`
is lost, as in the code. `sent`, `delivered`, `applied`, `overwritten` and `approvedViews` are
history: the messages that left, how many under each approval, the edits made, the requests
whose card's edits went over a draft that was no longer the copy they were made on,
and what each approval showed its human when it was written.

`KeepsPromise` maps the flow to `SendPromise`: its requests are the `Terms` of those
asked, its approvals the writes of APPROVED (`grants`), its edits `applied`, its messages
`sent`. A step of a coroutine, of the command line, of the clock or of a provider is then
one `Ask`, `Type`, `TypeOver`, `Approve` or `Deliver`, or changes nothing the users see. What `Deliver` asks for,
an approval not yet spent, is not what the code tests: it tests a status that several
processes write. `TypeOver` is the exception the promise has to make for Gmail: an edit that
undoes others of the same draft. From then on (`undoing`) a message from that draft may
also hold what the request shows on whose card that edit was made, and nothing else.

`ProviderSends` is every provider's send: with the reply or with the reply lost, and, with
either, with the draft gone or left in place. IMAP deletes it last, in a step that may fail,
and two sends of one draft that have both fetched it both return.
`ProviderFails` is every error before an effect; the IMAP provider's update_draft,
which always raises, is that action alone.

### ApprovalStoreFile

`form` says what the file's text is: absent, empty, the first buffer of a write,
whole, or torn (what `json.loads` rejects); `text` is the dictionary it spells
when it is whole. `pc[p]` is the system call process `p` does next, `loaded[p]` the
dictionary it has parsed. The constructor (`Start`, `Create`, `FillIn`) tests for
the file, opens it with `"w"` and writes `{}`, all without the lock; `Ask`, `Lock`,
`Load`, then `Look` or `Truncate`, `WriteSome`, `WriteRest` and `Unlock` are a method.
`LoadFails` is `json.loads` raising inside `__enter__`: `__exit__` does not run and
the lock goes with the file object. `Stop` ends a process anywhere. `last`, `killed`
and `clobbered` are history: the dictionary written last, and whether a process
died inside a write or the constructor wrote into a file in use.

The mapping to `ApprovalStore` takes a method as not yet done until its last byte
is written: while a process is between its truncate and that byte, the store is
what the process has loaded. `ImplementsStore` is the port's specification as
long as `clobbered` is false.

### ImapMailbox

`box[role][uid]` is a message with its two flags, or none; `uidnext` makes uids
unique, as the mail server does. `call[q]` is the method a worker thread is executing:
`CreateDraft` appends and locates; `GetMessage` fetches (`get_email`, `get_draft`,
`get_attachment`); `SendDraft` fetches, hands over (`Smtp`), appends to Sent,
locates, closes, marks the draft and expunges; `MarkAsRead` sets a flag and closes.
Each command is a connection's or follows one on the same connection, and between
any two of them the other threads, the owner's mail client (`OwnerMarks`, `Arrives`)
and the people who write to the owner act. `Fails` is any command refused or cut
off: with the connection still up, `_disconnect` closes the folder all the same.
IMAP's own rules (uids, SEARCH, EXPUNGE, and CLOSE, which expunges a folder that
was opened for writing) are external, modelled from the commands `client.py` sends.
`handed`, `filed` and `trash` are history.

### ProviderDrafts

One account, behind the adapter `adapter`. `mail` is every message the account has had,
numbered as it arrived, `gone` those deleted since, `drafts[d]` a draft, or none, or
that it was sent or deleted. A message's `place` is its thread at the provider's server, its
In-Reply-To (`parent`) and its References (`refs`). `call[q]` is a method between its
two requests: `ReadOriginal` and `CreateReply` are a reply of Gmail or IMAP (read the
message answered for its headers, make the draft), `GraphCreateReply` and
`GraphOverwrite` one of Graph (createReply makes a draft with a text and recipients of its
own, the PATCH sets the agent's), `GmailRead` and `GmailReplace` an update of Gmail. What
takes one request is one step: `CreateAtOnce`, `UpdateInPlace`, `Send`. `Fails` ends a call
where it is: a request refused, a reply lost, the server killed. `Rebuilt` is what
`gmail_draft_to_domain` and `build_raw_message` leave of a draft: the thread, the
recipients, subject and body, but no reply headers and nothing the domain model has no field
for (`extra`). `ReplyPlace` is each adapter's way to thread a reply, `ThreadOf` and
`InThread` the two ends of `get_thread`: the id a message is shown with, and what is
found by an id. In between, mail arrives (`Arrive`; with References as RFC 5322 asks, or
with In-Reply-To alone) and the owner edits and deletes. `ideal`, `spoiled`, a call's `stale`
and a place's `origin` are history: the drafts if every call took one step, those Gmail
wrote from a copy out of date, and the message an agent meant to answer.

### MailReading

`reader[r]` is a reading call: what it was asked (`arg`, `part`), where it is (`pc`, and
for IMAP's threads `folder`), what it has still to fetch (`todo`) and what it has (`found`).
`Search` and `Thread` are the listing requests, `Fetch` one of the gathered requests for a
message (in any order; the first that fails fails the call), `Gathered` the end of a
gather: IMAP's `get_thread` goes on to Sent, Graph's `get_email` to the attachments'
names (`Attachments`). `Bytes` and `Label` are `get_attachment`: Gmail's second request is for
the name, found by the size. `throughout` and `sometime` are history: the messages that
were there all the time since the call began, and at any time since. `Ends` is the answer
going out, or any other failure. An answer stays in its slot until then, so the
properties read it there; they say nothing of a call that failed otherwise.

A search's query is left out: it selects among the messages, and any subset of a mailbox
is a mailbox. The fake provider's inbox has the one thread of its seed that has two messages,
of one instant, which its stable sort keeps in their order (`Before`).

### TenantRecords

One tenant; the file's records are independent of each other. `file` is a record, no file, an
empty one, or a torn one (what `json.loads` rejects). A record is the provider it is
for (`_record_provider_name`) and the consent, sign-in or password it came from
(`grant`); the short-lived token that a refresh changes is left out. `actor[a]` is
what a worker thread or a script's run executes: `Use` is a provider's call for a
token (`get_credentials`, `get_access_token`), `Bootstrap` the Graph route,
`Onboard` a script. `Load` is the read and all that is decided on it, `Refresh` and
`Exchange` the identity provider's answers, `Truncate` and `Write` the two halves
of `write_text`; between any two of them the other threads and the scripts act, and
`Stop` kills the server, or a script, anywhere. A write over text that somebody
else has written since the truncate may leave the end of that text, hence `Torn`.
`TenantRegistry.get` is `GetFromSettings` for the default tenant, otherwise
`GetProvider` and `GetName`, since it loads the record twice. `setting` is
EMAIL_PROVIDER where the tenant is the default one, "record" where it is not.
`stored`, `mixed`, `overtaken`, `killed` and a call's `late` and `alone` are history.

## 3. What TLC checks

| Run | Instance | What it shows |
|---|---|---|
| `ApprovalGate` | 1 request, 2 tenants, 2 drafts, server and 1 command-line process, Ttl 1, clock to 2, crashes | `TypeOK`, `GateWithinGrants`, `TermsKept`, `GateOpensForItsOwn`, `NoLateVerdict`, `UsesPort` |
| `ReplayedApproval` | as `ApprovalGate` | `AtMostOnceUse` is violated (section 5) |
| `SendFlow` | 2 slots, 1 tenant at Gmail; 1 request, 2 drafts, clock to 2, or 2 requests, 1 draft, clock stopped | `FlowTypeOK`, `SentOnlyWhatWasAsked`, `SentFieldsReviewedOrTyped`, `ApprovedTextWasApplied`, `SentLinesAreTrue`, `ImplementsLifecycle`, `KeepsPromise` |
| `SendFlowCli` | 2 slots, 1 draft, 1 command-line process, clock stopped, fairness | `DeliveredWithinOpenings`, `DeliveredWithinGrants`, `EveryTaskEnds` |
| `StoreFile` | 1 id, 2 tenants, the server and 1 command-line process, the file absent or there at first, kills anywhere, fairness | `FileTypeOK`, `UpdatesKept`, `ImplementsStore`, `LockIsReleased` |
| `LostCreation` | as `StoreFile`, safety only | `NoLostUpdate` is violated (section 5) |
| `ImapMailbox` | 2 threads, 2 drafts, 2 messages in Sent, 2 Message-IDs, 1 mark | `MailTypeOK`, `LocatedIsOwn`, `SentMeansSent`, `NothingIsLost`, `SeenOnlyIfAsked` |
| `ClosingExpunges` | 1 thread, 2 messages in the inbox, 2 marks | `OnlySendDestroys` is violated (section 5) |
| `MailReading` | each adapter, 2 calls on 1 draft or 1 reading call, 3 messages, limits 1 and 2, a page of 2, 4 attachments | `ReadingTypeOK`, `LatestEditStands`, `ReplyStaysInThread`, `SearchIsNewest`, `ThreadIsWhole`, `NotFoundIsTrue`, `AttachmentIsItsOwn` |
| `TenantRecords` | 2 threads, 1 script, 3 onboardings, every setting | `RecordTypeOK`, `RecordIsLatest`, `OnboardingIsStored` |
| `BrickedTenant` | as `TenantRecords` | `BootstrapRepairs` is violated (section 5) |
| `SentAsApproved` | 2 slots, 1 draft | `SentAsApproved` is violated (section 5) |

**Bounds, and why they are enough.** The gate's methods touch one record each and
compare ids, tenants and drafts for equality only, so one request with a second
tenant and a second draft to be refused already shows every confusion of two of
them. Two processes suffice for a stale
write: one holds a copy, the other changes the record. `Ttl` 1 and a clock to 2
give the three cases of the deadline: before it, at it, after it. Two slots give
every pair of server requests interleaved at their awaits, two approvals of one
request among them. `Tenant` has one member in the send flow, where tenants only
select a mailbox; the gate's check of the tenant is in `ApprovalGate`, and the
proofs have no bound at all. The number of requests ever made is bounded by
`ApprovalId` (`IdLeft` stands for uuid4 never running out) and the clock by
`MaxTime`. Nothing else is bounded: calls may begin again and again.

`SendFlow` has two bounds in one CONSTRAINT. `OneRequest` is one request of either
draft, anything failing, expiring or crashing, with cards that edit the body (`BodyEdits`).
`TwoCardsOneMessage` is two requests of one draft and cards that edit either field
(`BothEdits`): a card that has read a copy, another card
that edits the other field, and a request made in between that shows the result and is
approved are what it takes to send text that was neither shown for that request nor
typed; without their exception (`PutBack`, `TypeOver`) TLC finds both content properties violated here.
This bound leaves out expiry, a lost file, get_approval_status, rejections, a second approved
request, a card that edits the draft of a request already approved, and everything after the
first message. All but the second approval is in the first bound; and as a
message's text never changes and what may be in it only grows, a step that breaks a content
property is the one by which some message leaves, which is still checked. An update in
one request is one in two with nothing in between, so the run speaks for the other
providers' drafts too. The VIEW, `WithoutOtherLines`, drops the audit lines that say anything but
sent, which no guard reads, and no property but the type of the log. The proofs have no constraint.
The cards of `SendFlowCli` edit the subject (`SubjectEdits`), and its tenant is not at Gmail.

`SendFlowCli` stops the clock: expiry beside the command line is in `ApprovalGate`, expiry
and deliveries in `SendFlow`, where `KeepsPromise` counts them. It uses a VIEW, `WithoutHistory`: the audit log and the history of
what was sent, edited and shown are in no guard, and neither `DeliveredWithinOpenings` nor
`DeliveredWithinGrants` nor `EveryTaskEnds` reads them, so states that differ in them alone
have the same future; every step whose fairness is asked for changes `task` or `call`.

For drafts and reads, three messages are a thread's first, an answer, and an answer to
the answer, which is where the ways to write References part; they are also one more than
a page. Two calls overlap on a draft in every way. `ReadOrWrite` (a CONSTRAINT) leaves out
states in which a read and a draft are both in the making: drafts and reads share
nothing but `mail`, and a draft that is sent adds a message to Sent, as the owner does from
another program while reads go on. The proofs have no such constraint. Four attachments have two of
one size and one over the limit.

For the file, two processes give every interleaving that matters: one in the
middle of anything, and one that comes. The server is the one that saves. One
record is enough because the whole dictionary is written at once; the second
tenant is there to be refused. For the mailbox, two threads can send the same
draft, or different ones, at once; `MaxUid` bounds the messages a folder ever
sees (none in the inbox of the first instance, where the provider does nothing
that it does not also do in another folder), and `MaxMarks` the marks made by the
owner and by mark_as_read, each of which doubles the states. For a tenant's
record, two threads and a script are three savers, so that two may overlap while the
third loads; three onboardings give a record, a later one, and one in between.

**Symmetry** is used in the safety runs, over ids, tenants and drafts, or ids and
slots, or threads, none of which is chosen from; the runs with a liveness property use none. In `SendFlow`
runs `Resource` is not symmetric, because `AnyDraft` chooses from it.

**Deadlock** is checked everywhere: a server without work can always be asked
something.

**Fairness** of the file (`FairSpec`, only for `LockIsReleased`): a process that
can take its next step takes it in the end, unless it stops. Nothing is assumed about
the order in which flock serves those who wait.

**Fairness** of the send flow (`FairFlowSpec`, only for `EveryTaskEnds`). A service method in
progress is plain code and goes on (weak fairness of the server's steps and of
`Finish`). A coroutine whose reply has come stays in the event loop's
first-in-first-out ready queue and gets its turn, although `LoopFree` is false
again and again in the meantime (strong fairness of `Resume`). The provider
answers each call, with an error if need be (weak fairness of `Provider`): the
HTTP clients of Gmail and Graph give up by themselves; the IMAP and SMTP
connections are opened without a timeout (`providers/imap/client.py:62,134`), so for
that provider this is an assumption the code does not ensure. No fairness is asked
of people, of arrivals, of the command line or of the clock.

Each checked property has a mutation of the code it watches (`PROJECT.json`,
"mutants"; the mutated operators stand beside the originals) under which TLC
finds it violated.

## 4. What is proved

All for any number of approvals, tenants, drafts, slots and command-line processes,
under the named ASSUMEs of the modules only (`Ttl` and `MaxTime` are naturals,
the special values differ from ordinary ones, `Req` is finite).

- `ApprovalLifecycle!UsedOnce`: in the abstract life no request is used twice.
- `ApprovalServiceProofs`: the inductive invariant `IInv` is the type invariant,
  `TermsKept`, `GateWithinGrants`, `GateOpensForItsOwn` and `CallOK`. The
  safety properties are not inductive alone. `GateWithinGrants` needs its second
  conjunct (a go-ahead that is still to be spent is not counted yet) and must count
  the copy the server holds between its two store calls, since the record may
  be overwritten meanwhile; `GateOpensForItsOwn` needs `CallOK`, that a method at
  its write has passed its own checks on its copy, and `TermsKept` for copies as
  well as records. Theorems: `TypeCorrect`, `WithinGrants`, `TermsAreKept`,
  `OpensForItsOwn`, `NoLateVerdicts` (an action property, from the same
  invariant).
- `SerialImplementsLifecycle`, `SerialUsedOnce`: as long as no two calls on one request
  overlap (`NoOverlap`), the service implements the lifecycle, because a call's copy is then
  the record itself (`CopiesCurrent`), and no request is used twice; so the replay of
  section 5 takes an overlap. With `Cli = {}` there is none
  (`SoloImplementsLifecycle`, `SoloUsedOnce`).
- `ServiceUsesPort`: every step of the service is one operation of `ApprovalStore` with the
  answer that operation gives, or touches neither the records nor an answer. It
  needs that a method that has not resolved expiry yet still holds what `get` returned
  (`Unresolved`) and that the clock stays within its bound (`ClockBounded`).
- `SendFlowProofs`: `FlowUsesTheService`, that each step of the flow is a step of
  the service or none, so every theorem above holds of the flow, the refinements among
  them (`SerialFlowImplementsLifecycle`, `FlowImplementsLifecycle`, `FlowUsesPort`);
  `FlowTypesCorrect`.
  The invariant adds that `caller` is the only coroutine inside the service and
  that its task and the call agree.
- `SendAccountingProofs`: `DeliveriesWithinOpenings` counts coroutines between
  their consume and their send as deliveries to come; with `WithinGrants` it gives
  `DeliveriesWithinGrants`, and with `NoOverlap` `SerialDeliversOnce`: no approval delivers
  two messages. `SendsWhatWasAsked` and `SentLinesTellTheTruth` rest on
  the same invariant: a task past its consume carries the tenant and draft its
  approval was asked for. `FieldsReviewedOrTyped` needs that a draft somebody has asked
  approval for exists and holds, field by field, what the preview shows, what was typed
  since, or what an edit that undid others put back (`AskedTraced`, and `ReadTraced` for a
  coroutine that has read it and not yet saved its request); that the copy a Gmail update holds is
  made of what the reviewer of its own card could know, and differs from the draft only if something
  was typed for it (`CopyTraced`); and that edits are undone at Gmail only
  (`OverwrittenOK`). So outside Gmail the exception is void: each field was shown for this
  very request, or typed (`NothingPutBackOutsideGmail`). `ApprovedTextIsApplied` needs that the copy a method returns is the
  request's own (`CopiesOK`), so that a card's edits go to the draft of the request, and
  that an approval is at its decision only with its edits made (`EditsMade`).
  `FlowKeepsPromise` is the refinement of `SendPromise`: the invariants above give what each
  abstract step asks for, and one lemma per kind of step says that the rest is a stutter.
  `UneditedIsSentAsApproved` adds that an approval has been seen by somebody
  (`GrantsSeen`) and a message counted (`SentCounted`); `WithoutEditsSentAsApproved` follows
  for a server whose cards carry no edits.
- `ApprovalStoreFileProofs`: `FileInvariance` (with the lock at exactly one
  process between `Lock` and `Unlock`; what the file holds at each of its steps;
  what it has loaded, unless the constructor interfered, being what was written
  last), `FileTypesCorrect`, `NoUpdateIsLost`, and `FileImplementsStore`: for any
  number of processes, the file implements the port. Each system call maps to one
  operation of the port or to none: `Look` and `WriteRest` are the methods taking effect,
  `LoadFails` an unreadable store, a kill inside a write the loss of it. When the process that creates
  the file does so before any other has started (`CreatesAlone`), or the file is there from the
  start, the exception in `UpdatesKept` and in `ImplementsStore` never comes to pass:
  `CreatedAloneNoneLost`, `CreatedAloneIsTheStore`, `KeptFileNoneLost`, `KeptFileIsTheStore`.
- `ImapMailboxProofs`: `MailInvariance` adds to the types what a call has done when
  it is at a command (a send past its SMTP command is in `handed`, past its append in
  `filed`) and that a delete mark is the owner's or on a draft handed over and filed.
  From it `ReturnedMeansSent`, `NoMessageIsLost` and `OnlyAskedIsSeen` (action
  properties) for any number of threads and any folders, and `UnmarkedMailStays` for an owner
  who marks nothing as deleted. `LocatedAreOwn` needs two
  invariants more: two messages with one Message-ID, in folders or in calls, are copies of
  one (`IdsOK`), and what a call has found carries the id it looked for, if it is still
  there, since no other message gets that uid (`FoundOK`).
- `MailReadingProofs`: `ReadingInvariance`. For drafts it says that a reply is anchored: it
  is in the thread of the message it answers, by the id the adapter's server keeps or by its
  headers, unless it was spoiled (`MailAnchored`, `DraftsAnchored`); and what each open call
  holds (`CallOK`), which for Gmail's copy is the draft itself until somebody else writes
  to it. For reads, `ReadOK` says at each command what was found, what is still to fetch and
  what of that was there throughout. Theorems: `ReadingTypesCorrect`, `LatestEditsStand`,
  `RepliesStayInThread`, `SearchesAreNewest`, `ThreadsAreWhole`, `NotFoundIsTheTruth`,
  `AttachmentsAreTheirOwn`. `NotFoundIsTheTruth` has three cases: the message asked for was not
  there all the time; no message that was is of the thread; or a message the call had listed,
  and had not fetched yet, was deleted. `SearchesAreNewest` rests on `FirstOnes`, that the first n of a
  finite ordered set are n at most and that whatever is left out has n before it; it is
  proved by descent in the well-founded order of finite sets, as there is no induction over
  a cardinality here. The exception of `LatestEditsStand` takes a Gmail update that something
  overlaps: without one every edit stands (`UndisturbedEditsStand`), and with the other
  adapters a draft is what it should be in every field (`PatchedEditsStand`).
- `TenantRecordsProofs`: `RecordInvariance`. `RecordIsLatest` speaks only of moments
  when nobody saves, so the invariant says what holds in between: whoever saves
  alone has the emptied file to itself (`AloneOK`), and what a refresh has
  loaded is what is stored, unless an onboarding came after its load (`LoadedOK`).
  The second follows from the first: a load that finds a record finds nobody saving.
  Theorems: `RecordTypesCorrect`, `LatestRecordKept`, `OnboardingsAreStored` (an
  action property), for any number of threads, scripts and onboardings; and
  `UncutBootstrapRepairs`, by the invariant that the file is whole when nobody saves
  (`FileWhole`).

Every invariant and action property the passing runs check is proved. Only
model-checked are `LockIsReleased` and `EveryTaskEnds`, since liveness under fairness and
ENABLED are out of the prover's reach.

The actions update one index of a function at a time (`![p] = [@ EXCEPT !.a = ..., !.b = ...]`,
not two paths through `p`): the prover's SMT encoding of several updates of one function,
whose indices may be equal, is not reliable, and the proofs avoid it.

## 5. Where the code and its documentation disagree

Five runs end in a counterexample to what the repository says of itself.

1. `ReplayedApproval`. A command-line approve reads PENDING and pauses before its
   write. The channel route approves, `send_email` consumes and sends. The
   command line writes APPROVED over CONSUMED, and the same approval opens the gate
   again. `domain/enums.py:15-16` says this never happens. What does hold, and is
   proved, is `GateWithinGrants`: two openings had two approvals written; and that
   nothing but such an overlap of two calls on one request does it (`SerialUsedOnce`,
   `SerialDeliversOnce`).
2. `SentAsApproved`. An approval card with edits is answered on a request that is
   already approved: the draft is changed, the decision refused with 409, and the
   changed draft is sent under the first approval, against
   `ports/email_provider.py:79-83`. What does hold, and is proved, is
   `SentFieldsReviewedOrTyped`: each field a reviewer could see was shown to the
   approver or typed by a human on a card for that draft, except that at Gmail, once a
   card's edits were written over others from an older copy, it may be what that card
   showed of the draft (`NothingPutBackOutsideGmail` has no exception); and a draft nobody edited
   is sent as an approver of its request saw it (`UneditedIsSentAsApproved`,
   `WithoutEditsSentAsApproved`).
3. `BrickedTenant`. The server is killed between the two halves of a save of a
   tenant's record (a refresh does one). The file stays empty, `json.loads` raises in
   every later `get_access_token` and in `complete_obo_bootstrap` too, which loads
   the cache before it exchanges anything; so the sign-in that should bring the mailbox
   back (`providers/graph/auth.py:82-84,103-105`) fails until somebody deletes the
   file. Two overlapping saves can do the same. What does hold, and is proved, is
   `OnboardingIsStored`: an exchange or a script that gets to its save repairs any file; and that a kill in a
   save or an overlap of two is what it takes (`UncutBootstrapRepairs`).
4. `LostCreation`. A command-line run that starts while there is no file, and goes on
   after the server has created it and saved a request, opens it with `"w"` and
   erases the request, or tears the text so that every later call raises, against
   `infrastructure/approval_store_file.py:3-6`. What does hold, and is proved, is
   `UpdatesKept`: nothing else loses an update but a kill inside a write; a file that is
   there, or created before a second process starts, loses none
   (`KeptFileNoneLost`, `CreatedAloneNoneLost`).
5. `ClosingExpunges`. mark_as_read of one message closes the folder it has opened
   for writing, and CLOSE removes for good every message there which the owner has
   only marked as deleted, against `mcp/tools.py:9,46`: send_email is not the
   only destructive tool. What does hold, and is proved, is `NothingIsLost`:
   nothing leaves but what the owner marked or what was sent and filed
   (`UnmarkedMailStays` when the owner marks nothing).

More were met on the way. They have no run of their own: each is an exception that the
property named makes, so the model behaves as the code does.

- Gmail's edited reply is written without In-Reply-To and References
  (`ReplyStaysInThread`, by the thread id alone): `gmail_draft_to_domain` sets no
  `reply_to_email_id`, so `providers/gmail/provider.py:113-116` never runs, though the comment at
  107-109 says threading is kept.
- Two overlapping updates of a Gmail draft, or one that overlaps with an edit in the mail
  client, lose the field the other wrote (`LatestEditStands`, `spoiled`). With a request
  in between, text leaves that its approver never saw and nobody typed. The draft
  is (S0, B0) and request A1 shows it. A card of A1 that edits the body has read (S0, B0)
  (`providers/gmail/provider.py:110`) and awaits; another edits the subject,
  giving (S1, B0); request A2 shows (S1, B0); the first card writes back (S0, B1) (line 125);
  A2 is approved and its message leaves with the subject S0. `ports/email_provider.py:79-83`
  says that whatever was approved is what gets sent. `SentFieldsReviewedOrTyped` and
  `KeepsPromise` except exactly this (`PutBack`, `TypeOver`): S0 is what A1 showed.
- `README.md:316` says that `FileTokenStore` uses `fcntl` locking. It takes no lock
  (`infrastructure/token_store_file.py:34-38`), and `TenantRecords` has none: saves of
  several threads and scripts overlap.
- A Gmail reply to a message that has References does not append that message's
  own id (`ReplyPlace`), as RFC 5322 asks.
- IMAP shows a message with In-Reply-To alone under its own id as thread id
  (`providers/imap/mapper.py:90`) while `get_thread` searches both headers
  (`ThreadIsWhole`).
- Graph's `get_thread` answers the first page only (`ThreadIsWhole`), where
  `ports/email_provider.py:43` and `mcp/tools.py:118` say all messages.
- A Gmail attachment has the name of the first one of its size (`AttachmentIsItsOwn`).

## 6. Limits and plan

Taken as given: one server process. Started on stdio by several clients at once
it would be several; they then relate to each other as the server and the command
line do here, without the restriction that only one of them consumes. In `SendFlow`,
drafts are not changed outside this program (in the mail client; `ProviderDrafts` has
the owner's edits), and a coroutine is not cancelled while its thread goes on. Gmail is
taken to keep a draft in the thread whose id it was given.

`SentLinesAreTrue` says that a line saying sent is never false. The converse is not
promised: `send_email` writes its line only after the provider has answered, so a
message that left under a call that then fails, or just before a crash, has none.

Not modelled, as nothing changes or the content is plain data: the conversions of
schemas, resources, settings, logging, the health check. Of what is modelled, these are left out:
which messages a query selects; marking as read at Gmail and Graph (one request, and
nothing else reads the mark); drafts that show up in a search or a thread of Gmail or Graph;
the order of the messages in a thread; the wording of errors; the cutting of long bodies.

A draft without a Message-ID (written by the owner elsewhere) is looked for with an
empty one, and the search answers with the newest message of Sent that has the
header; `LocatedIsOwn` excepts it.

Planned, in this order:

1. *Refinement*: the provider's calls of `SendFlow` shown to be implemented by the
   sends of `ImapMailbox` and the updates of `ProviderDrafts`, with the exceptions named above.
2. *Tenants apart*: a status changes only by a call in the name of the request's own
   tenant, as a theorem of the service.
3. *Progress without fairness*: the safety half of `EveryTaskEnds` and `LockIsReleased`, that
   whoever is waited for can always take a step.
4. *Pure algorithms*: the walk over a message's parts, error translation.
