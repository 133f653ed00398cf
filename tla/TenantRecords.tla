--------------------------- MODULE TenantRecords ---------------------------
(***************************************************************************)
(* The record of one tenant in FileTokenStore, and who reads and writes    *)
(* it: calls of the tenant's Gmail or Graph provider in worker threads,    *)
(* which load it, refresh it over the network and save it whole; Graph     *)
(* bootstraps; runs of scripts/gmail_auth.py and scripts/imap_auth.py; and *)
(* TenantRegistry, which builds the tenant's service from it once.         *)
(*                                                                         *)
(* There is no lock.  save is write_text: the file is truncated, then      *)
(* written.                                                                *)
(***************************************************************************)
EXTENDS Naturals

CONSTANTS
    Thread,       \* worker threads of the server
    Script,       \* runs of the onboarding scripts
    MaxGrants,    \* bound: onboardings of the tenant
    Absent, Empty, Torn,   \* what the file is when it holds no record
    NoService, NoRecord

Actor == Thread \cup Script

Kind == {"gmail", "graph", "imap"}

Grant == 1..MaxGrants

(* What one onboarding gave access to.  A refresh changes only a record's  *)
(* short-lived token, which is left out.                                   *)
Record == [kind : Kind, grant : Grant]

ASSUME MaxGrantsAssumption == MaxGrants \in Nat
ASSUME ActorAssumption == Thread \cap Script = {}
ASSUME FileAssumption ==
    /\ {Absent, Empty, Torn, NoRecord} \cap Record = {}
    /\ Absent # Empty /\ Absent # Torn /\ Empty # Torn
ASSUME NoServiceAssumption == NoService \notin [kind : Kind, name : Kind]

VARIABLES
    file,         \* <base_dir>/<tenant_id>.json
    live,         \* the grants the identity providers still honour
    granted,      \* how many there have been
    setting,      \* EMAIL_PROVIDER, when this is the default tenant
    service,      \* what TenantRegistry has cached
    lookup,       \* the record TenantRegistry.get has built a provider from
    actor,        \* what each actor executes
    stored,       \* history: the record the last onboarding has stored
    mixed,        \* history: two saves overlapped
    overtaken,    \* history: a refresh saved what it loaded before stored
    killed        \* history: an actor was killed in a save

vars == <<file, live, granted, setting, service, lookup, actor, stored, mixed,
          overtaken, killed>>

historyVars == <<stored, mixed, overtaken, killed>>

Call ==
    [op : {"none", "use", "onboard"},
     pc : {"idle", "load", "network", "save", "write"},
     kind : Kind,                     \* of the provider that calls
     record : Record \cup {NoRecord}, \* loaded, then to be saved
     late : BOOLEAN,    \* history: an onboarding was stored since the load
     alone : BOOLEAN]   \* history: no other save since the truncate

NoCall ==
    [op |-> "none", pc |-> "idle", kind |-> "imap", record |-> NoRecord,
     late |-> FALSE, alone |-> TRUE]

RecordTypeOK ==
    /\ file \in Record \cup {Absent, Empty, Torn}
    /\ live \subseteq Grant
    /\ granted \in 0..MaxGrants
    /\ setting \in Kind \cup {"record"}
    /\ service \in [kind : Kind, name : Kind] \cup {NoService}
    /\ lookup \in Record \cup {NoRecord}
    /\ actor \in [Actor -> Call]
    /\ stored \in Record \cup {NoRecord}
    /\ mixed \in BOOLEAN /\ overtaken \in BOOLEAN /\ killed \in BOOLEAN

Init ==
    /\ file = Absent
    /\ live = {} /\ granted = 0
    /\ setting \in Kind \cup {"record"}
    /\ service = NoService /\ lookup = NoRecord
    /\ actor = [a \in Actor |-> NoCall]
    /\ stored = NoRecord
    /\ mixed = FALSE /\ overtaken = FALSE /\ killed = FALSE

----------------------------------------------------------------------------
(* TenantRegistry.get, when it has no service yet.  The default tenant's   *)
(* comes from the settings alone.                                          *)
GetFromSettings ==
    /\ service = NoService
    /\ setting # "record"
    /\ service' = [kind |-> setting, name |-> setting]
    /\ UNCHANGED <<file, live, granted, setting, lookup, actor, historyVars>>

(* Any other tenant's comes from two loads of the record: get_email_provider *)
(* and get_provider_name.  Either may raise, for want of a record or of a  *)
(* text json.loads accepts; then there is no service.                      *)
GetProvider ==
    /\ service = NoService /\ lookup = NoRecord
    /\ setting = "record"
    /\ file \in Record
    /\ lookup' = file
    /\ UNCHANGED <<file, live, granted, setting, service, actor, historyVars>>

GetName ==
    /\ lookup # NoRecord
    /\ lookup' = NoRecord
    /\ service' = IF file \in Record
                  THEN [kind |-> lookup.kind, name |-> file.kind]
                  ELSE NoService
    /\ UNCHANGED <<file, live, granted, setting, actor, historyVars>>

----------------------------------------------------------------------------
Begin(a, op, pc, kind, record) ==
    actor' = [actor EXCEPT ![a] =
                 [op |-> op, pc |-> pc, kind |-> kind, record |-> record,
                  late |-> FALSE, alone |-> TRUE]]

End(a) == actor' = [actor EXCEPT ![a] = NoCall]

(* A new consent, sign-in or password.                                     *)
NewGrant(kind) == [kind |-> kind, grant |-> granted + 1]

Granted ==
    /\ granted < MaxGrants
    /\ granted' = granted + 1
    /\ live' = live \cup {granted + 1}

(* get_credentials and get_access_token, before each request; the IMAP     *)
(* provider got its password when it was built.                            *)
Use(t) ==
    /\ actor[t].pc = "idle"
    /\ service # NoService /\ service.kind # "imap"
    /\ Begin(t, "use", "load", service.kind, NoRecord)
    /\ UNCHANGED <<file, live, granted, setting, service, lookup, historyVars>>

Bootstrap(t) ==
    /\ actor[t].pc = "idle"
    /\ Begin(t, "onboard", "load", "graph", NoRecord)
    /\ UNCHANGED <<file, live, granted, setting, service, lookup, historyVars>>

(* The scripts, from the consent or the password prompt to their save.     *)
Onboard(s, kind) ==
    /\ actor[s].pc = "idle"
    /\ kind # "graph"
    /\ kind = "imap" => setting = "record"
    /\ Granted
    /\ Begin(s, "onboard", "save", kind, NewGrant(kind))
    /\ UNCHANGED <<file, setting, service, lookup, historyVars>>

----------------------------------------------------------------------------
(* Mutations of Load: a record of another kind is taken for one's own; an  *)
(* empty cache is refreshed and saved.                                     *)
LoadAsOwn(a) ==
    /\ actor[a].pc = "load"
    /\ file \in Record
    /\ actor' = [actor EXCEPT ![a] =
                    [@ EXCEPT !.record = [file EXCEPT !.kind = actor[a].kind],
                              !.pc = "network"]]
    /\ UNCHANGED <<file, live, granted, setting, service, lookup, historyVars>>

LoadUnchecked(a) ==
    /\ actor[a].pc = "load" /\ actor[a].kind = "graph"
    /\ file \notin {Empty, Torn}
    /\ actor' = [actor EXCEPT ![a].pc = "network"]
    /\ UNCHANGED <<file, live, granted, setting, service, lookup, historyVars>>

(* A file that is there but holds no JSON makes load raise.  A provider    *)
(* finds no credentials in a record of another kind, or in none, and       *)
(* raises; a bootstrap starts from an empty cache then.  A call may end    *)
(* here also because Gmail's token is valid still, or Graph's is in the    *)
(* cache.                                                                  *)
Load(a) ==
    LET c == actor[a]
        usable == file \in Record /\ file.kind = c.kind
    IN
    /\ c.pc = "load"
    /\ \/ /\ c.op = "use" \/ file \in {Empty, Torn}
          /\ End(a)
       \/ /\ file \notin {Empty, Torn}
          /\ c.op = "onboard" \/ usable
          /\ actor' = [actor EXCEPT ![a] =
                          [@ EXCEPT !.pc = "network",
                                    !.record = IF usable THEN file ELSE NoRecord]]
    /\ UNCHANGED <<file, live, granted, setting, service, lookup, historyVars>>

(* The identity provider's answer.  A Gmail call saves what was refreshed, *)
(* and raises otherwise; a Graph call saves its cache if that has changed, *)
(* which it may have though the refresh failed (MSAL drops access tokens   *)
(* that have expired).                                                     *)
Refresh(a) ==
    LET c == actor[a] IN
    /\ c.pc = "network" /\ c.op = "use"
    /\ \/ /\ c.kind = "gmail" => c.record.grant \in live
          /\ actor' = [actor EXCEPT ![a].pc = "save"]
       \/ End(a)
    /\ UNCHANGED <<file, live, granted, setting, service, lookup, historyVars>>

Exchange(t) ==
    LET c == actor[t] IN
    /\ c.pc = "network" /\ c.op = "onboard"
    /\ \/ /\ Granted
          /\ actor' = [actor EXCEPT ![t] =
                          [@ EXCEPT !.pc = "save",
                                    !.record = NewGrant("graph")]]
       \/ End(t) /\ UNCHANGED <<live, granted>>
    /\ UNCHANGED <<file, setting, service, lookup, historyVars>>

Saving == {a \in Actor : actor[a].pc = "write"}

(* Mutation of Truncate: the file is opened for writing as it is.          *)
TruncateNothing(a) ==
    /\ actor[a].pc = "save"
    /\ actor' = [b \in Actor |->
          IF b = a THEN [actor[a] EXCEPT !.pc = "write", !.alone = Saving = {}]
          ELSE IF b \in Saving THEN [actor[b] EXCEPT !.alone = FALSE]
          ELSE actor[b]]
    /\ mixed' = (mixed \/ Saving # {})
    /\ UNCHANGED <<file, live, granted, setting, service, lookup, stored,
                   overtaken, killed>>

(* FileTokenStore.save: write_text opens the file, which empties it ...    *)
Truncate(a) ==
    /\ actor[a].pc = "save"
    /\ file' = Empty
    /\ actor' = [b \in Actor |->
          IF b = a THEN [actor[a] EXCEPT !.pc = "write", !.alone = Saving = {}]
          ELSE IF b \in Saving THEN [actor[b] EXCEPT !.alone = FALSE]
          ELSE actor[b]]
    /\ mixed' = (mixed \/ Saving # {})
    /\ UNCHANGED <<live, granted, setting, service, lookup, stored, overtaken,
                   killed>>

(* ... and writes at its start.  Over a longer text, the end of that stays. *)
Write(a) ==
    LET c == actor[a] IN
    /\ c.pc = "write"
    /\ file' \in {c.record} \cup IF file = Empty THEN {} ELSE {Torn}
    /\ IF c.op = "onboard"
       THEN /\ stored' = c.record
            /\ actor' = [b \in Actor |->
                  IF b = a THEN NoCall ELSE [actor[b] EXCEPT !.late = TRUE]]
            /\ UNCHANGED overtaken
       ELSE /\ overtaken' = (overtaken \/ c.late)
            /\ End(a)
            /\ UNCHANGED stored
    /\ UNCHANGED <<live, granted, setting, service, lookup, mixed, killed>>

----------------------------------------------------------------------------
(* The server is killed and starts again, or a script is killed.           *)
Stop(group) ==
    /\ killed' = (killed \/ group \cap Saving # {})
    /\ actor' = [a \in Actor |-> IF a \in group THEN NoCall ELSE actor[a]]
    /\ IF group = Thread
       THEN service' = NoService /\ lookup' = NoRecord
       ELSE UNCHANGED <<service, lookup>>
    /\ UNCHANGED <<file, live, granted, setting, stored, mixed, overtaken>>

Stops == Stop(Thread) \/ \E s \in Script : Stop({s})

(* Consent is withdrawn, a password changed, a refresh token too old.      *)
Revoke(g) ==
    /\ g \in live
    /\ live' = live \ {g}
    /\ UNCHANGED <<file, granted, setting, service, lookup, actor, historyVars>>

Registry == GetFromSettings \/ GetProvider \/ GetName

Step(a) == Load(a) \/ Refresh(a) \/ Exchange(a) \/ Truncate(a) \/ Write(a)

Next ==
    \/ Registry \/ Stops
    \/ \E t \in Thread : Use(t) \/ Bootstrap(t)
    \/ \E s \in Script, kind \in Kind : Onboard(s, kind)
    \/ \E a \in Actor : Step(a)
    \/ \E g \in Grant : Revoke(g)

Spec == Init /\ [][Next]_vars

----------------------------------------------------------------------------
(* Whenever nobody is saving, the file holds the record of the last        *)
(* onboarding, however often it was refreshed and whatever service the     *)
(* registry still has cached: unless two saves overlapped, an onboarding   *)
(* was stored during a refresh, or an actor was killed in a save.          *)
RecordIsLatest ==
    ~mixed /\ ~overtaken /\ ~killed /\ Saving = {} =>
        file = IF stored = NoRecord THEN Absent ELSE stored

(* An onboarding whose save no other save meets is stored, whatever the    *)
(* file held before: text cut off or torn, or a longer record.             *)
OnboardingIsStored ==
    [][\A a \in Actor :
          Write(a) /\ actor[a].op = "onboard" /\ actor[a].alone =>
              file' = actor[a].record]_vars

(* providers/graph/auth.py: a bootstrap is what brings a mailbox whose     *)
(* credentials are no longer good back.  With nobody else at the file, it  *)
(* gets as far as the exchange.                                            *)
BootstrapRepairs ==
    [][\A t \in Thread :
          Load(t) /\ actor[t].op = "onboard"
              /\ (\A a \in Actor \ {t} : actor[a].pc = "idle") =>
              actor'[t].pc = "network"]_vars
=============================================================================
