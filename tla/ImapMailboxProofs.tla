------------------------- MODULE ImapMailboxProofs -------------------------
(***************************************************************************)
(* Proofs about the IMAP mailbox, for any number of threads, messages and  *)
(* marks: a send that returns has sent, no failure loses a draft, and the  *)
(* uid a call answers with is that of its own message.                     *)
(***************************************************************************)
EXTENDS ImapMailbox, TLAPS

(* What a call has done, by where it is.                                   *)
CallOK ==
    \A q \in Thread :
        LET c == call[q] IN
        /\ c.pc = "idle" => c = NoCall
        /\ c.found # 0 =>
              c.pc \in {"close", "flag", "expunge"} /\ c.raw \in Raw
        /\ c.pc \in {"smtp", "flag", "expunge"} => c.op = "send"
        /\ c.pc = "seen" => c.op = "mark"
        /\ c.pc \in {"smtp", "append", "locate"} => c.raw \in Raw
        /\ c.op = "send" => c.role = "drafts" /\ c.uid \in Uid("drafts")
        /\ c.op = "send" /\ c.pc \notin {"fetch", "smtp"} => c.uid \in handed
        /\ c.op = "send" /\ c.pc \in {"locate", "flag", "expunge"} =>
              c.uid \in filed
        /\ c.op = "send" /\ c.pc = "close" /\ ~c.failed => c.uid \in filed

(* Whose marks there are.                                                  *)
MarksOK ==
    \A role \in Role : \A u \in Uid(role) :
        Present(role, u) /\ box[role][u].deleted =>
            \/ <<role, u>> \in trash
            \/ role = "drafts" /\ u \in handed \cap filed

MailInv == MailTypeOK /\ CallOK /\ MarksOK

----------------------------------------------------------------------------
LEMMA RoleMember == "inbox" \in Role /\ "drafts" \in Role /\ "sent" \in Role
  BY DEF Role

LEMMA NoCallType == NoCall \in Call
  BY DEF NoCall, Call, Pc, Role

(* What an expunge and an append do to the folders.                        *)
LEMMA ExpungedType ==
    ASSUME MailTypeOK, NEW role \in Role, box' = Expunged(role)
    PROVE  /\ box' = [folder \in Role |-> box'[folder]]
           /\ \A folder \in Role :
                 /\ box'[folder] \in [Uid(folder) -> Message \cup {NoMessage}]
                 /\ \A u \in Uid(folder) :
                       Present(folder, u)' =>
                           Present(folder, u) /\ box'[folder][u] = box[folder][u]
           /\ \A folder \in Role : \A u \in Uid(folder) :
                 Present(folder, u) /\ ~Present(folder, u)' =>
                     folder = role /\ box[folder][u].deleted
  BY DEF MailTypeOK, Expunged, Present

LEMMA AddType ==
    ASSUME MailTypeOK, NEW role \in Role, NEW raw \in Raw, Add(role, raw)
    PROVE  /\ box' = [folder \in Role |-> box'[folder]]
           /\ uidnext' \in [Role -> Nat]
           /\ \A folder \in Role :
                 /\ box'[folder] \in [Uid(folder) -> Message \cup {NoMessage}]
                 /\ uidnext'[folder] \in 1..(MaxUid[folder] + 1)
                 /\ uidnext[folder] <= uidnext'[folder]
                 /\ \A u \in Uid(folder) :
                       /\ Present(folder, u)' => u < uidnext'[folder]
                       /\ Present(folder, u) =>
                             Present(folder, u)' /\ box'[folder][u] = box[folder][u]
                       /\ Present(folder, u)' /\ ~Present(folder, u) =>
                             /\ folder = role /\ u = uidnext[role]
                             /\ box'[folder][u] = New(raw)
  <1>1. New(raw) \in Message
    BY DEF New, Message
  <1>2. uidnext[role] \in Uid(role)
    BY MaxUidAssumption DEF Add, Room, MailTypeOK, Uid
  <1>3. \A folder \in Role : MaxUid[folder] \in Nat
    BY MaxUidAssumption
  <1>4. /\ box' = [box EXCEPT ![role][uidnext[role]] = New(raw)]
        /\ uidnext' = [uidnext EXCEPT ![role] = @ + 1]
    BY DEF Add
  <1>5. /\ box' = [folder \in Role |-> box'[folder]]
        /\ \A folder \in Role :
              box'[folder] \in [Uid(folder) -> Message \cup {NoMessage}]
    BY <1>1, <1>2, <1>4 DEF MailTypeOK
  <1>6. /\ uidnext' \in [Role -> Nat]
        /\ \A folder \in Role :
              /\ uidnext'[folder] \in 1..(MaxUid[folder] + 1)
              /\ uidnext[folder] <= uidnext'[folder]
    BY <1>2, <1>3, <1>4 DEF MailTypeOK, Uid
  <1>7. New(raw) # NoMessage
    BY <1>1, NoMessageAssumption
  <1>8. ASSUME NEW folder \in Role, NEW u \in Uid(folder)
        PROVE  /\ Present(folder, u)' => u < uidnext'[folder]
               /\ Present(folder, u) =>
                     Present(folder, u)' /\ box'[folder][u] = box[folder][u]
               /\ Present(folder, u)' /\ ~Present(folder, u) =>
                     /\ folder = role /\ u = uidnext[role]
                     /\ box'[folder][u] = New(raw)
    <2>1. CASE folder = role /\ u = uidnext[role]
      BY <1>2, <1>3, <1>4, <1>7, <2>1 DEF MailTypeOK, Present, Uid
    <2>2. CASE ~(folder = role /\ u = uidnext[role])
      <3>1. box'[folder][u] = box[folder][u]
        BY <1>2, <1>4, <2>2 DEF MailTypeOK
      <3> QED
        BY <1>3, <1>4, <1>6, <3>1 DEF MailTypeOK, Present, Uid
    <2> QED
      BY <2>1, <2>2
  <1> QED
    BY <1>5, <1>6, <1>8

(* A flag set on a message that is there.                                  *)
LEMMA FlagType ==
    ASSUME MailTypeOK, NEW role \in Role, NEW u \in Uid(role), Present(role, u),
           \/ box' = [box EXCEPT ![role][u].deleted = TRUE]
           \/ box' = [box EXCEPT ![role][u].seen = TRUE]
    PROVE  /\ box' = [folder \in Role |-> box'[folder]]
           /\ \A folder \in Role :
                 /\ box'[folder] \in [Uid(folder) -> Message \cup {NoMessage}]
                 /\ \A v \in Uid(folder) :
                       /\ Present(folder, v)' <=> Present(folder, v)
                       /\ Present(folder, v) =>
                             box'[folder][v].raw = box[folder][v].raw
                       /\ folder # role \/ v # u =>
                             box'[folder][v] = box[folder][v]
  <1>1. box[role][u] \in Message
    BY DEF MailTypeOK, Present
  <1>2. PICK new \in Message :
            /\ new.raw = box[role][u].raw
            /\ box' = [box EXCEPT ![role][u] = new]
    <2>1. CASE box' = [box EXCEPT ![role][u].deleted = TRUE]
      <3>1. [box[role][u] EXCEPT !.deleted = TRUE] \in Message
        BY <1>1 DEF Message
      <3>2. [box[role][u] EXCEPT !.deleted = TRUE].raw = box[role][u].raw
        BY <1>1 DEF Message
      <3> QED
        BY <2>1, <3>1, <3>2
    <2>2. CASE box' = [box EXCEPT ![role][u].seen = TRUE]
      <3>1. [box[role][u] EXCEPT !.seen = TRUE] \in Message
        BY <1>1 DEF Message
      <3>2. [box[role][u] EXCEPT !.seen = TRUE].raw = box[role][u].raw
        BY <1>1 DEF Message
      <3> QED
        BY <2>2, <3>1, <3>2
    <2> QED
      BY <2>1, <2>2
  <1>3. new # NoMessage
    BY NoMessageAssumption
  <1> QED
    BY <1>2, <1>3 DEF MailTypeOK, Present

----------------------------------------------------------------------------
(* The parts of MailTypeOK.                                                *)
BoxType ==
    /\ box = [role \in Role |-> box[role]]
    /\ uidnext \in [Role -> Nat]
    /\ \A role \in Role :
          /\ box[role] \in [Uid(role) -> Message \cup {NoMessage}]
          /\ uidnext[role] \in 1..(MaxUid[role] + 1)
          /\ \A u \in Uid(role) : Present(role, u) => u < uidnext[role]

CallType == call \in [Thread -> Call]

TrailType ==
    /\ handed \cup filed \subseteq Uid("drafts")
    /\ \A gone \in trash : gone[1] \in Role /\ gone[2] \in Uid(gone[1])

LEMMA TypeParts == MailTypeOK <=> BoxType /\ CallType /\ TrailType
  BY DEF MailTypeOK, BoxType, CallType, TrailType

(* Locate only ends the search: its call goes on to close what it opened.  *)
GaveUp(c) == [c EXCEPT !.pc = "close", !.failed = TRUE]

Found(c, u) == [c EXCEPT !.pc = "close", !.found = u]

LEMMA LocateMoves ==
    ASSUME NEW q \in Thread, Locate(q)
    PROVE  /\ call[q].pc = "locate"
           /\ \/ call' = [call EXCEPT ![q] = GaveUp(call[q])]
              \/ \E u \in Matching(Folder(q), call[q].raw.mid) :
                    call' = [call EXCEPT ![q] = Found(call[q], u)]
           /\ UNCHANGED <<box, uidnext, handed, filed, trash>>
  BY DEF Locate, GaveUp, Found

LEMMA LocatedCalls ==
    ASSUME NEW c \in Call
    PROVE  /\ GaveUp(c) \in Call
           /\ LET g == GaveUp(c) IN
                  /\ g.pc = "close" /\ g.found = c.found /\ g.op = c.op
                  /\ g.role = c.role /\ g.uid = c.uid /\ g.raw = c.raw
           /\ \A u : LET f == Found(c, u) IN
                  /\ u \in Nat => f \in Call
                  /\ f.pc = "close" /\ f.found = u /\ f.op = c.op
                  /\ f.role = c.role /\ f.uid = c.uid /\ f.raw = c.raw
  BY DEF GaveUp, Found, Call, Pc

(* What a step may do to the folders: expunge one, append to one, or set a *)
(* flag of a message that is there.                                        *)
Appends ==
    \E role \in Role, raw \in Raw :
        /\ Add(role, raw)
        /\ \/ \E q \in Thread : call[q].raw = raw
           \/ raw.mid = NoId
           \/ Fresh(raw.mid) /\ UNCHANGED call

MarksDeleted ==
    \E role \in Role : \E u \in Uid(role) :
        /\ Present(role, u)
        /\ box' = [box EXCEPT ![role][u].deleted = TRUE]
        /\ \/ <<role, u>> \in trash'
           \/ role = "drafts" /\ u \in handed' \cap filed'

MarksSeen ==
    \E role \in Role : \E u \in Uid(role) :
        /\ Present(role, u) /\ box' = [box EXCEPT ![role][u].seen = TRUE]
        /\ \E q \in Thread :
              call[q].op = "mark" /\ call[q].role = role /\ call[q].uid = u

Expunges == \E role \in Role : box' = Expunged(role)

LEMMA BoxSteps ==
    ASSUME MailInv, [Next]_vars
    PROVE  \/ Appends
           \/ UNCHANGED uidnext
              /\ (MarksDeleted \/ MarksSeen \/ Expunges \/ UNCHANGED box)
  <1> USE RoleMember DEF MailInv
  <1>1. \A q \in Thread : Folder(q) \in Role /\ call[q].role \in Role
    BY DEF Folder, MailTypeOK, Call
  <1>2. ASSUME NEW q \in Thread, Step(q)
        PROVE  \/ Appends
               \/ UNCHANGED uidnext
                  /\ (MarksDeleted \/ MarksSeen \/ Expunges \/ UNCHANGED box)
    <2>1. CASE Append(q)
      <3>1. call[q].raw \in Raw
        BY <2>1 DEF Append, CallOK
      <3> QED
        BY <1>1, <2>1, <3>1 DEF Append, Appends
    <2>2. CASE SetSeen(q)
      <3>1. call[q].op = "mark"
        BY <2>2 DEF SetSeen, CallOK
      <3> QED
        BY <1>1, <2>2, <3>1 DEF SetSeen, Present, MarksSeen
    <2>3. CASE Flag(q)
      <3>1. call[q].op = "send" /\ call[q].uid \in handed \cap filed
        BY <2>3 DEF Flag, CallOK
      <3> QED
        BY <2>3, <3>1 DEF Flag, Present, MarksDeleted
    <2>4. CASE Close(q) \/ Expunge(q) \/ Fails(q)
      BY <1>1, <2>4 DEF Close, Expunge, Fails, Expunges
    <2>5. CASE Fetch(q) \/ Smtp(q) \/ Locate(q)
      BY <2>5 DEF Fetch, Smtp, Locate
    <2> QED
      BY <1>2, <2>1, <2>2, <2>3, <2>4, <2>5 DEF Step
  <1>3. ASSUME NEW q \in Thread, Method(q)
        PROVE  UNCHANGED <<box, uidnext>>
    BY <1>3 DEF Method, CreateDraft, GetMessage, MarkAsRead, SendDraft, Begin
  <1>4. ASSUME NEW role \in Role, NEW mid \in MessageId \cup {NoId},
               NEW text \in Text, Arrives(role, mid, text)
        PROVE  Appends
    <2>1. [mid |-> mid, text |-> text] \in Raw
      BY DEF Raw
    <2> QED
      BY <1>4, <2>1 DEF Arrives, Appends
  <1>5. ASSUME NEW role \in Role, NEW u \in Uid(role), OwnerMarks(role, u)
        PROVE  MarksDeleted /\ UNCHANGED uidnext
    BY <1>5 DEF OwnerMarks, MarksDeleted
  <1>6. CASE UNCHANGED vars
    BY <1>6 DEF vars
  <1> QED
    BY <1>2, <1>3, <1>4, <1>5, <1>6 DEF Next, Owner

LEMMA BoxTypePreserved ==
    ASSUME MailInv, [Next]_vars
    PROVE  BoxType'
  <1> USE TypeParts DEF MailInv
  <1>1. CASE Appends
    BY <1>1, AddType DEF Appends, BoxType
  <1>2. CASE UNCHANGED uidnext /\ (MarksDeleted \/ MarksSeen)
    BY <1>2, FlagType DEF MarksDeleted, MarksSeen, BoxType
  <1>3. CASE UNCHANGED uidnext /\ Expunges
    BY <1>3, ExpungedType DEF Expunges, BoxType
  <1>4. CASE UNCHANGED <<box, uidnext>>
    BY <1>4 DEF BoxType, Present
  <1> QED
    BY <1>1, <1>2, <1>3, <1>4, BoxSteps

LEMMA CallTypePreserved ==
    ASSUME MailInv, [Next]_vars
    PROVE  CallType'
  <1> USE TypeParts, NoCallType, RoleMember DEF MailInv, CallType
  <1>1. \A q \in Thread : call[q] \in Call
    OBVIOUS
  <1>2. ASSUME NEW q \in Thread, End(q)
        PROVE  CallType'
    BY <1>2 DEF End
  <1>3. ASSUME NEW q \in Thread, NEW pc \in Pc, Goto(q, pc)
        PROVE  CallType'
    BY <1>1, <1>3 DEF Goto, Call
  <1>4. ASSUME NEW q \in Thread, Step(q)
        PROVE  CallType'
    <2>1. CASE Fetch(q)
      <3>1. CASE End(q)
        BY <1>2, <3>1
      <3>2. CASE Present(call[q].role, call[q].uid)
                 /\ call' = [call EXCEPT ![q] =
                                [@ EXCEPT !.raw = box[call[q].role][call[q].uid].raw,
                                          !.pc = "smtp"]]
        <4>1. box[call[q].role][call[q].uid].raw \in Raw
          <5>1. call[q].role \in Role
            BY <1>1 DEF Call
          <5>2. box[call[q].role][call[q].uid] \in Message
            BY <3>2, <5>1 DEF Present, BoxType
          <5> QED
            BY <5>2 DEF Message
        <4>2. ASSUME NEW raw \in Raw
              PROVE  [call[q] EXCEPT !.raw = raw, !.pc = "smtp"] \in Call
          BY <1>1 DEF Call, Pc
        <4>3. [call[q] EXCEPT !.raw = box[call[q].role][call[q].uid].raw,
                              !.pc = "smtp"] \in Call
          BY <4>1, <4>2
        <4> QED
          BY <3>2, <4>3
      <3> QED
        BY <2>1, <3>1, <3>2 DEF Fetch
    <2>2. CASE Locate(q)
      <3>1. Matching(Folder(q), call[q].raw.mid) \subseteq Nat
        BY MaxUidAssumption DEF Matching, Uid
      <3> QED
        BY <1>1, <2>2, <3>1, LocateMoves, LocatedCalls
    <2>3. CASE Smtp(q) \/ Append(q) \/ SetSeen(q) \/ Close(q) \/ Flag(q)
               \/ Expunge(q)
      BY <1>2, <1>3, <2>3 DEF Smtp, Append, SetSeen, Close, Flag, Expunge, Pc
    <2>4. CASE Fails(q)
      <3>1. [call[q] EXCEPT !.pc = "close", !.failed = TRUE] \in Call
        BY <1>1 DEF Call, Pc
      <3> QED
        BY <1>2, <2>4, <3>1 DEF Fails
    <2> QED
      BY <1>4, <2>1, <2>2, <2>3, <2>4 DEF Step
  <1>5. ASSUME NEW q \in Thread, NEW op \in {"create", "read", "send", "mark"},
               NEW pc \in Pc, NEW role \in Role, NEW u \in Nat,
               NEW raw \in Raw \cup {NoMessage}, Begin(q, op, pc, role, u, raw)
        PROVE  CallType'
    BY <1>5 DEF Begin, Call
  <1>6. ASSUME NEW q \in Thread, Method(q)
        PROVE  CallType'
    <2>1. \A role \in Role : Uid(role) \subseteq Nat
      BY MaxUidAssumption DEF Uid
    <2>2. ASSUME NEW mid \in MessageId, NEW text \in Text,
                 CreateDraft(q, mid, text)
          PROVE  CallType'
      BY <1>5, <2>2 DEF CreateDraft, Raw, Pc
    <2>3. ASSUME NEW role \in Role, NEW u \in Uid(role),
                 \/ GetMessage(q, role, u) \/ MarkAsRead(q, role, u)
                 \/ role = "drafts" /\ SendDraft(q, u)
          PROVE  CallType'
      BY <1>5, <2>1, <2>3 DEF GetMessage, MarkAsRead, SendDraft, Pc
    <2> QED
      BY <1>6, <2>2, <2>3 DEF Method
  <1>7. CASE Owner \/ UNCHANGED vars
    BY <1>7 DEF Owner, Arrives, OwnerMarks, vars
  <1> QED
    BY <1>4, <1>6, <1>7 DEF Next

(* A step of one call moves no other, and nothing is un-handed.            *)
LEMMA CallOKPreserved ==
    ASSUME MailInv, [Next]_vars
    PROVE  CallOK'
  <1> USE TypeParts DEF MailInv, CallType, CallOK
  <1>1. \A q \in Thread : call[q] \in Call
    OBVIOUS
  <1>2. ASSUME NEW q \in Thread, End(q),
               handed \subseteq handed', filed \subseteq filed'
        PROVE  CallOK'
    BY <1>2 DEF End, NoCall
  <1>3. ASSUME NEW q \in Thread, Step(q)
        PROVE  CallOK'
    <2>1. CASE Fetch(q)
      <3>1. CASE End(q)
        BY <1>2, <2>1, <3>1 DEF Fetch
      <3>2. CASE /\ Present(call[q].role, call[q].uid) /\ call[q].op = "send"
                 /\ call' = [call EXCEPT ![q] =
                                [@ EXCEPT !.raw = box[call[q].role][call[q].uid].raw,
                                          !.pc = "smtp"]]
        <4>1. call'[q].raw \in Raw
          <5>1. call[q].role \in Role
            BY <1>1 DEF Call
          <5>2. box[call[q].role][call[q].uid] \in Message
            BY <3>2, <5>1 DEF Present, BoxType
          <5> QED
            BY <1>1, <3>2, <5>2 DEF Message, Call
        <4>2. /\ call'[q].pc = "smtp" /\ call'[q].op = call[q].op
              /\ call'[q].uid = call[q].uid /\ call'[q].role = call[q].role
              /\ call'[q].found = call[q].found
              /\ \A p \in Thread : p # q => call'[p] = call[p]
          BY <1>1, <3>2 DEF Call
        <4> QED
          BY <2>1, <3>2, <4>1, <4>2, ZenonT(30) DEF Fetch
      <3> QED
        BY <2>1, <3>1, <3>2 DEF Fetch
    <2>2. CASE Smtp(q)
      BY <1>1, <2>2 DEF Smtp, Goto, Call
    <2>3. CASE Append(q)
      BY <1>1, <2>3 DEF Append, Goto, Call
    <2>4. CASE Locate(q)
      <3>1. /\ call'[q].pc = "close" /\ call'[q].op = call[q].op
            /\ call'[q].uid = call[q].uid /\ call'[q].role = call[q].role
            /\ call'[q].raw = call[q].raw
            /\ \A p \in Thread : p # q => call'[p] = call[p]
        BY <1>1, <2>4, LocateMoves, LocatedCalls
      <3>2. call[q].pc = "locate" /\ UNCHANGED <<handed, filed>>
        BY <2>4, LocateMoves
      <3> QED
        BY <3>1, <3>2, ZenonT(30)
    <2>5. CASE SetSeen(q)
      BY <1>1, <2>5 DEF SetSeen, Goto, Call
    <2>6. CASE Close(q)
      <3>1. CASE Goto(q, "flag") /\ call[q].op = "send" /\ ~call[q].failed
        BY <1>1, <2>6, <3>1 DEF Close, Goto, Call
      <3> QED
        BY <1>2, <2>6, <3>1 DEF Close
    <2>7. CASE Flag(q)
      BY <1>1, <2>7 DEF Flag, Goto, Call
    <2>8. CASE Expunge(q)
      BY <1>2, <2>8 DEF Expunge
    <2>9. CASE Fails(q)
      <3>1. CASE /\ call[q].pc \in {"append", "locate", "seen"}
                 /\ call' = [call EXCEPT ![q] =
                                [@ EXCEPT !.pc = "close", !.failed = TRUE]]
        BY <1>1, <2>9, <3>1 DEF Fails, Call
      <3> QED
        BY <1>2, <2>9, <3>1 DEF Fails
    <2> QED
      BY <1>3, <2>1, <2>2, <2>3, <2>4, <2>5, <2>6, <2>7, <2>8, <2>9 DEF Step
  <1>4. ASSUME NEW q \in Thread, Method(q)
        PROVE  CallOK'
    <2>1. ASSUME NEW mid \in MessageId, NEW text \in Text,
                 CreateDraft(q, mid, text)
          PROVE  CallOK'
      BY <2>1 DEF CreateDraft, Begin, Raw
    <2>2. ASSUME NEW role \in Role, NEW u \in Uid(role),
                 GetMessage(q, role, u) \/ MarkAsRead(q, role, u)
          PROVE  CallOK'
      BY <2>2 DEF GetMessage, MarkAsRead, Begin
    <2>3. ASSUME NEW u \in Uid("drafts"), SendDraft(q, u)
          PROVE  CallOK'
      BY <2>3 DEF SendDraft, Begin
    <2> QED
      BY <1>4, <2>1, <2>2, <2>3 DEF Method
  <1>5. CASE UNCHANGED <<call, handed, filed>>
    BY <1>5
  <1>6. CASE Owner \/ UNCHANGED vars
    BY <1>5, <1>6 DEF Owner, Arrives, OwnerMarks, vars
  <1> QED
    BY <1>3, <1>4, <1>6 DEF Next

LEMMA TrailTypePreserved ==
    ASSUME MailInv, [Next]_vars
    PROVE  /\ TrailType'
           /\ handed \subseteq handed' /\ filed \subseteq filed'
           /\ trash \subseteq trash'
  <1> USE TypeParts DEF MailInv, TrailType
  <1>1. ASSUME NEW q \in Thread, Step(q)
        PROVE  /\ handed' \cup filed' \subseteq Uid("drafts")
               /\ handed \subseteq handed' /\ filed \subseteq filed'
               /\ UNCHANGED trash
    BY <1>1 DEF Step, Fetch, Smtp, Append, Locate, SetSeen, Close, Flag,
       Expunge, Fails, CallOK
  <1>2. CASE \/ UNCHANGED <<handed, filed, trash>>
             \/ \E role \in Role : \E u \in Uid(role) : OwnerMarks(role, u)
    BY <1>2 DEF OwnerMarks
  <1>3. ASSUME NEW q \in Thread, Method(q)
        PROVE  UNCHANGED <<handed, filed, trash>>
    BY <1>3 DEF Method, CreateDraft, GetMessage, MarkAsRead, SendDraft, Begin
  <1> QED
    BY <1>1, <1>2, <1>3 DEF Next, Owner, Arrives, vars

(* A mark is the owner's, or was made by a send at its end.                *)
LEMMA MarksOKPreserved ==
    ASSUME MailInv, [Next]_vars
    PROVE  MarksOK'
  <1> SUFFICES ASSUME NEW role \in Role, NEW u \in Uid(role),
                      Present(role, u)', box'[role][u].deleted
               PROVE  \/ <<role, u>> \in trash'
                      \/ role = "drafts" /\ u \in handed' \cap filed'
    BY DEF MarksOK
  <1>1. handed \subseteq handed' /\ filed \subseteq filed' /\ trash \subseteq trash'
    BY TrailTypePreserved
  <1>2. Present(role, u) /\ box[role][u].deleted =>
            \/ <<role, u>> \in trash'
            \/ role = "drafts" /\ u \in handed' \cap filed'
    BY <1>1 DEF MailInv, MarksOK
  <1> USE <1>2 DEF MailInv
  <1>3. CASE Appends
    <2>1. \A raw \in Raw : ~New(raw).deleted
      BY DEF New
    <2> QED
      BY <1>3, <2>1, AddType DEF Appends
  <1>4. CASE MarksDeleted
    <2> PICK folder \in Role : \E v \in Uid(folder) :
            /\ Present(folder, v)
            /\ box' = [box EXCEPT ![folder][v].deleted = TRUE]
            /\ \/ <<folder, v>> \in trash'
               \/ folder = "drafts" /\ v \in handed' \cap filed'
      BY <1>4 DEF MarksDeleted
    <2>1. PICK v \in Uid(folder) :
            /\ Present(folder, v)
            /\ box' = [box EXCEPT ![folder][v].deleted = TRUE]
            /\ \/ <<folder, v>> \in trash'
               \/ folder = "drafts" /\ v \in handed' \cap filed'
      OBVIOUS
    <2>2. CASE folder = role /\ v = u
      BY <2>1, <2>2
    <2>3. CASE folder # role \/ v # u
      BY <2>1, <2>3, FlagType
    <2> QED
      BY <2>2, <2>3
  <1>5. CASE MarksSeen
    <2> PICK folder \in Role : \E v \in Uid(folder) :
            /\ Present(folder, v)
            /\ box' = [box EXCEPT ![folder][v].seen = TRUE]
      BY <1>5 DEF MarksSeen
    <2>1. PICK v \in Uid(folder) :
            /\ Present(folder, v)
            /\ box' = [box EXCEPT ![folder][v].seen = TRUE]
      OBVIOUS
    <2>2. CASE folder = role /\ v = u
      <3>1. box[role][u] \in Message
        BY <2>1, <2>2 DEF MailTypeOK, Present
      <3>2. box'[role][u].deleted = box[role][u].deleted
        BY <2>1, <2>2, <3>1, ZenonT(30) DEF MailTypeOK, Message
      <3> QED
        BY <2>1, <2>2, <3>2
    <2>3. CASE folder # role \/ v # u
      BY <2>1, <2>3, FlagType
    <2> QED
      BY <2>2, <2>3
  <1>6. CASE Expunges
    BY <1>6, ExpungedType DEF Expunges
  <1>7. CASE UNCHANGED box
    BY <1>7 DEF Present
  <1> QED
    BY <1>3, <1>4, <1>5, <1>6, <1>7, BoxSteps

LEMMA InitMailInv == Init => MailInv
  <1> SUFFICES ASSUME Init PROVE MailInv
    OBVIOUS
  <1>1. MailTypeOK
    <2>1. \A role \in Role : 1 \in 1..(MaxUid[role] + 1)
      BY MaxUidAssumption
    <2> QED
      BY <2>1, NoCallType DEF Init, MailTypeOK, Present
  <1>2. CallOK /\ MarksOK
    BY DEF Init, CallOK, MarksOK, NoCall, Present
  <1> QED
    BY <1>1, <1>2 DEF MailInv

(* The invariant of the mailbox, in every reachable state.                 *)
THEOREM MailInvariance == Spec => []MailInv
  <1>1. MailInv /\ [Next]_vars => MailInv'
    BY TypeParts, BoxTypePreserved, CallTypePreserved, TrailTypePreserved,
       CallOKPreserved, MarksOKPreserved DEF MailInv, MailTypeOK, BoxType,
       CallType, TrailType
  <1> QED
    BY <1>1, InitMailInv, PTL DEF Spec

(* The mailbox keeps its type.                                             *)
THEOREM MailTypesCorrect == Spec => []MailTypeOK
  <1>1. MailInv => MailTypeOK
    BY DEF MailInv
  <1> QED
    BY <1>1, MailInvariance, PTL

(* A send that returns has handed its message over and filed it.           *)
THEOREM ReturnedMeansSent == Spec => SentMeansSent
  <1>1. MailInv /\ [Next]_vars =>
            [\A q \in Thread : Expunge(q) => call[q].uid \in handed \cap filed]_vars
    BY DEF MailInv, CallOK, Expunge
  <1> QED
    BY <1>1, MailInvariance, PTL DEF Spec, SentMeansSent

(* Only what is marked leaves a folder, and only an expunge removes it.    *)
LEMMA OnlyMarkedVanish ==
    ASSUME MailInv, Next, NEW role \in Role, NEW u \in Uid(role),
           Vanishes(role, u)
    PROVE  box[role][u].deleted
  <1> USE DEF MailInv, Vanishes
  <1>1. ~Appends
    BY AddType DEF Appends
  <1>2. ~MarksDeleted /\ ~MarksSeen
    BY FlagType DEF MarksDeleted, MarksSeen
  <1>3. CASE Expunges
    BY <1>3, ExpungedType DEF Expunges
  <1>4. ~UNCHANGED box
    BY DEF Present
  <1> QED
    BY <1>1, <1>2, <1>3, <1>4, BoxSteps

(* No failure in the middle of a send loses a draft.                       *)
THEOREM NoMessageIsLost == Spec => NothingIsLost
  <1>1. MailInv /\ [Next]_vars =>
            [\A role \in Role : \A u \in Uid(role) :
                Vanishes(role, u) =>
                    \/ <<role, u>> \in trash
                    \/ role = "drafts" /\ u \in handed \cap filed]_vars
    <2> SUFFICES ASSUME MailInv, Next, NEW role \in Role, NEW u \in Uid(role),
                        Vanishes(role, u)
                 PROVE  \/ <<role, u>> \in trash
                        \/ role = "drafts" /\ u \in handed \cap filed
      OBVIOUS
    <2>1. Present(role, u) /\ box[role][u].deleted
      BY OnlyMarkedVanish DEF Vanishes
    <2> QED
      BY <2>1 DEF MailInv, MarksOK
  <1> QED
    BY <1>1, MailInvariance, PTL DEF Spec, NothingIsLost

(* Run ClosingExpunges shows mark_as_read take what the owner has marked   *)
(* as deleted.  As long as the owner marks nothing, no tool takes anything *)
(* from the inbox or Sent, and from Drafts only what was sent and filed.   *)
THEOREM UnmarkedMailStays ==
    Spec /\ [](trash = {}) =>
        [][\A role \in Role : \A u \in Uid(role) :
              Vanishes(role, u) =>
                  role = "drafts" /\ u \in handed \cap filed]_vars
  <1>1. trash = {} /\ [\A role \in Role : \A u \in Uid(role) :
              Vanishes(role, u) =>
                  \/ <<role, u>> \in trash
                  \/ role = "drafts" /\ u \in handed \cap filed]_vars
        => [\A role \in Role : \A u \in Uid(role) :
              Vanishes(role, u) =>
                  role = "drafts" /\ u \in handed \cap filed]_vars
    OBVIOUS
  <1> QED
    BY <1>1, NoMessageIsLost, PTL DEF NothingIsLost

(* Only mark_as_read marks as read: no reading tool and no send does.      *)
THEOREM OnlyAskedIsSeen == Spec => SeenOnlyIfAsked
  <1> DEFINE Asked(role, u) ==
          \E q \in Thread :
              call[q].op = "mark" /\ call[q].role = role /\ call[q].uid = u
  <1>1. ASSUME MailInv, Next, NEW role \in Role, NEW u \in Uid(role),
               Present(role, u), Present(role, u)',
               box[role][u].seen # box'[role][u].seen
        PROVE  Asked(role, u)
    <2>1. box[role][u] \in Message
      BY <1>1 DEF MailInv, MailTypeOK, Present
    <2>2. ~Appends
      BY <1>1, AddType DEF Appends, MailInv
    <2>3. ~MarksDeleted
      <3> SUFFICES ASSUME NEW folder \in Role, NEW v \in Uid(folder),
                          Present(folder, v),
                          box' = [box EXCEPT ![folder][v].deleted = TRUE]
                   PROVE  FALSE
        BY DEF MarksDeleted
      <3>1. CASE folder = role /\ v = u
        BY <1>1, <2>1, <3>1 DEF MailInv, MailTypeOK, Message
      <3>2. CASE folder # role \/ v # u
        BY <1>1, <3>2, FlagType DEF MailInv
      <3> QED
        BY <3>1, <3>2
    <2>4. CASE MarksSeen
      <3> PICK folder \in Role : \E v \in Uid(folder) :
              /\ Present(folder, v)
              /\ box' = [box EXCEPT ![folder][v].seen = TRUE]
              /\ Asked(folder, v)
        BY <2>4 DEF MarksSeen
      <3>1. PICK v \in Uid(folder) :
              /\ Present(folder, v)
              /\ box' = [box EXCEPT ![folder][v].seen = TRUE]
              /\ Asked(folder, v)
        OBVIOUS
      <3> HIDE DEF Asked
      <3>2. folder = role /\ v = u
        BY <1>1, <3>1, FlagType DEF MailInv
      <3> QED
        BY <3>1, <3>2
    <2>5. ~Expunges
      BY <1>1, ExpungedType DEF Expunges, MailInv
    <2>6. box' # box
      BY <1>1
    <2> QED
      BY <1>1, <2>2, <2>3, <2>4, <2>5, <2>6, BoxSteps
  <1>2. MailInv /\ [Next]_vars =>
            [\A role \in Role : \A u \in Uid(role) :
                Present(role, u) /\ Present(role, u)'
                    /\ box[role][u].seen # box'[role][u].seen =>
                        \E q \in Thread : /\ call[q].op = "mark"
                                          /\ call[q].role = role
                                          /\ call[q].uid = u]_vars
    BY <1>1
  <1> HIDE DEF Asked
  <1> QED
    BY <1>2, MailInvariance, PTL DEF Spec, SeenOnlyIfAsked

----------------------------------------------------------------------------
(* The messages there are: in a folder, or in the hands of a call.  Two of *)
(* them with one Message-ID are copies of one message.                     *)
Around(raw) ==
    \/ \E role \in Role : \E u \in Uid(role) :
          Present(role, u) /\ box[role][u].raw = raw
    \/ \E q \in Thread : call[q].raw = raw

IdsOK ==
    \A raw, other \in Raw :
        Around(raw) /\ Around(other) /\ raw.mid = other.mid /\ raw.mid # NoId
            => raw = other

(* A call has found a message with the Message-ID it looked for, and no    *)
(* other ever gets that uid.                                               *)
FoundBy(q) ==
    /\ call[q].found < uidnext[Folder(q)]
    /\ Present(Folder(q), call[q].found) =>
          box[Folder(q)][call[q].found].raw.mid = call[q].raw.mid

FoundOK ==
    \A q \in Thread :
        call[q].found # 0 /\ call[q].raw.mid # NoId => FoundBy(q)

LocateInv == MailInv /\ IdsOK /\ FoundOK

(* What messages there are after a step: those there were, one that has no *)
(* Message-ID, or one that has a fresh one.                                *)
NoneNew == \A raw \in Raw : Around(raw)' /\ raw.mid # NoId => Around(raw)

OneNew ==
    \E new \in Raw :
        /\ Fresh(new.mid)
        /\ \A raw \in Raw :
              Around(raw)' /\ raw.mid # NoId => Around(raw) \/ raw = new

LEMMA CallsRaws ==
    ASSUME MailInv, [Next]_vars
    PROVE  \/ \A q \in Thread : call'[q].raw \in Raw => Around(call'[q].raw)
           \/ /\ UNCHANGED box
              /\ \E new \in Raw :
                    /\ Fresh(new.mid)
                    /\ \A q \in Thread :
                          call'[q].raw \in Raw =>
                              Around(call'[q].raw) \/ call'[q].raw = new
  <1> USE DEF MailInv
  <1>1. \A q \in Thread : call[q] \in Call /\ Around(call[q].raw)
    BY DEF MailTypeOK, Around
  <1>2. NoCall.raw \notin Raw
    BY NoMessageAssumption DEF NoCall
  <1>3. call \in [Thread -> Call]
    BY DEF MailTypeOK
  <1>4. ASSUME NEW q \in Thread,
               \A p \in Thread : p # q => call'[p] = call[p],
               call'[q].raw \in Raw => Around(call'[q].raw)
        PROVE  \A p \in Thread : call'[p].raw \in Raw => Around(call'[p].raw)
    BY <1>1, <1>4
  <1>5. ASSUME NEW q \in Thread, Step(q)
        PROVE  \A p \in Thread : call'[p].raw \in Raw => Around(call'[p].raw)
    <2>1. CASE End(q)
      <3>1. call'[q] = NoCall /\ \A p \in Thread : p # q => call'[p] = call[p]
        BY <1>3, <2>1 DEF End
      <3> QED
        BY <1>2, <1>4, <3>1
    <2>2. CASE /\ call'[q].raw = call[q].raw
               /\ \A p \in Thread : p # q => call'[p] = call[p]
      BY <1>1, <1>4, <2>2
    <2>3. ASSUME NEW pc, Goto(q, pc)
          PROVE  /\ call'[q].raw = call[q].raw
                 /\ \A p \in Thread : p # q => call'[p] = call[p]
      BY <1>1, <1>3, <2>3 DEF Goto, Call
    <2>4. CASE Fetch(q)
      <3>1. CASE /\ Present(call[q].role, call[q].uid)
                 /\ call' = [call EXCEPT ![q] =
                                [@ EXCEPT !.raw = box[call[q].role][call[q].uid].raw,
                                          !.pc = "smtp"]]
        <4>1. call[q].role \in Role
          BY <1>1 DEF Call
        <4>2. /\ call'[q].raw = box[call[q].role][call[q].uid].raw
              /\ \A p \in Thread : p # q => call'[p] = call[p]
          BY <1>1, <1>3, <3>1 DEF Call
        <4>3. Around(call'[q].raw)
          BY <3>1, <4>1, <4>2 DEF Around, Present
        <4> QED
          BY <1>4, <4>2, <4>3
      <3> QED
        BY <2>1, <2>4, <3>1 DEF Fetch
    <2>5. CASE Locate(q)
      <3>1. /\ call'[q].raw = call[q].raw
            /\ \A p \in Thread : p # q => call'[p] = call[p]
        BY <1>1, <1>3, <2>5 DEF Locate, Call
      <3> QED
        BY <2>2, <3>1
    <2>6. CASE Fails(q)
      <3>1. CASE call' = [call EXCEPT ![q] =
                             [@ EXCEPT !.pc = "close", !.failed = TRUE]]
        <4>1. /\ call'[q].raw = call[q].raw
              /\ \A p \in Thread : p # q => call'[p] = call[p]
          BY <1>1, <1>3, <3>1 DEF Call
        <4> QED
          BY <2>2, <4>1
      <3> QED
        BY <2>1, <2>6, <3>1 DEF Fails
    <2>7. CASE Smtp(q) \/ Append(q) \/ SetSeen(q) \/ Close(q) \/ Flag(q)
               \/ Expunge(q)
      BY <2>1, <2>2, <2>3, <2>7 DEF Smtp, Append, SetSeen, Close, Flag, Expunge
    <2> QED
      BY <1>5, <2>4, <2>5, <2>6, <2>7 DEF Step
  <1>6. ASSUME NEW q \in Thread, NEW mid \in MessageId, NEW text \in Text,
               CreateDraft(q, mid, text)
        PROVE  /\ UNCHANGED box
               /\ \E new \in Raw :
                     /\ Fresh(new.mid)
                     /\ \A p \in Thread :
                           call'[p].raw \in Raw =>
                               Around(call'[p].raw) \/ call'[p].raw = new
    <2> DEFINE new == [mid |-> mid, text |-> text]
    <2>1. new \in Raw /\ Fresh(new.mid)
      BY <1>6 DEF CreateDraft, Raw
    <2>2. /\ call'[q].raw = new /\ UNCHANGED box
          /\ \A p \in Thread : p # q => call'[p] = call[p]
      BY <1>3, <1>6 DEF CreateDraft, Begin
    <2> HIDE DEF new
    <2> QED
      BY <1>1, <2>1, <2>2
  <1>7. ASSUME NEW q \in Thread, NEW role \in Role, NEW u \in Uid(role),
               \/ GetMessage(q, role, u) \/ MarkAsRead(q, role, u)
               \/ SendDraft(q, u)
        PROVE  \A p \in Thread : call'[p].raw \in Raw => Around(call'[p].raw)
    <2>1. /\ call'[q].raw = NoMessage
          /\ \A p \in Thread : p # q => call'[p] = call[p]
      BY <1>3, <1>7 DEF GetMessage, MarkAsRead, SendDraft, Begin
    <2> QED
      BY <1>4, <2>1, NoMessageAssumption
  <1>8. CASE UNCHANGED call
    BY <1>1, <1>8
  <1> QED
    BY <1>5, <1>6, <1>7, <1>8, RoleMember
       DEF Next, Owner, Method, Arrives, OwnerMarks, vars

LEMMA NothingAdded ==
    ASSUME MailInv, NEW role \in Role, NEW u \in Uid(role), Present(role, u)',
           MarksDeleted \/ MarksSeen \/ Expunges
    PROVE  Present(role, u) /\ box'[role][u].raw = box[role][u].raw
  <1> USE DEF MailInv
  <1>1. CASE MarksDeleted \/ MarksSeen
    <2> PICK folder \in Role : \E v \in Uid(folder) :
            /\ Present(folder, v)
            /\ \/ box' = [box EXCEPT ![folder][v].deleted = TRUE]
               \/ box' = [box EXCEPT ![folder][v].seen = TRUE]
      BY <1>1 DEF MarksDeleted, MarksSeen
    <2>1. PICK v \in Uid(folder) :
            /\ Present(folder, v)
            /\ \/ box' = [box EXCEPT ![folder][v].deleted = TRUE]
               \/ box' = [box EXCEPT ![folder][v].seen = TRUE]
      OBVIOUS
    <2> QED
      BY <2>1, FlagType
  <1>2. CASE Expunges
    BY <1>2, ExpungedType DEF Expunges
  <1> QED
    BY <1>1, <1>2

LEMMA NewMessages ==
    ASSUME MailInv, [Next]_vars
    PROVE  NoneNew \/ OneNew
  <1> USE DEF MailInv
  <1>1. ASSUME NEW raw \in Raw, Around(raw)'
        PROVE  \/ \E q \in Thread : call'[q].raw = raw
               \/ \E role \in Role : \E u \in Uid(role) :
                     Present(role, u)' /\ box'[role][u].raw = raw
    BY <1>1 DEF Around
  <1>2. CASE UNCHANGED box
    <2>1. \A raw \in Raw :
             (\E role \in Role : \E u \in Uid(role) :
                 Present(role, u)' /\ box'[role][u].raw = raw) => Around(raw)
      BY <1>2 DEF Around, Present
    <2> QED
      BY <1>1, <2>1, CallsRaws DEF NoneNew, OneNew
  <1>3. CASE \A q \in Thread : call'[q].raw \in Raw => Around(call'[q].raw)
    <2>1. CASE Appends
      <3> PICK folder \in Role, new \in Raw :
              /\ Add(folder, new)
              /\ \/ \E q \in Thread : call[q].raw = new
                 \/ new.mid = NoId
                 \/ Fresh(new.mid) /\ UNCHANGED call
        BY <2>1 DEF Appends
      <3>1. ASSUME NEW raw \in Raw, NEW role \in Role, NEW u \in Uid(role),
                   Present(role, u)', box'[role][u].raw = raw
            PROVE  Around(raw) \/ raw = new
        <4>1. CASE Present(role, u)
          <5>1. box[role][u].raw = raw
            BY <3>1, <4>1, AddType
          <5> QED
            BY <4>1, <5>1 DEF Around
        <4>2. CASE ~Present(role, u)
          <5>1. box'[role][u] = New(new)
            BY <3>1, <4>2, AddType
          <5> QED
            BY <3>1, <5>1 DEF New
        <4> QED
          BY <4>1, <4>2
      <3>2. \A raw \in Raw : Around(raw)' => Around(raw) \/ raw = new
        BY <1>1, <1>3, <3>1
      <3>3. (\E q \in Thread : call[q].raw = new) => Around(new)
        BY DEF Around
      <3> QED
        BY <3>2, <3>3 DEF NoneNew, OneNew
    <2>2. ASSUME NEW raw \in Raw, NEW role \in Role, NEW u \in Uid(role),
                 Present(role, u)', box'[role][u].raw = raw,
                 MarksDeleted \/ MarksSeen \/ Expunges
          PROVE  Around(raw)
      <3>1. Present(role, u) /\ box[role][u].raw = raw
        BY <2>2, NothingAdded
      <3> QED
        BY <3>1 DEF Around
    <2>3. CASE MarksDeleted \/ MarksSeen \/ Expunges
      BY <1>1, <1>3, <2>2, <2>3 DEF NoneNew
    <2> QED
      BY <1>2, <2>1, <2>3, BoxSteps
  <1> QED
    BY <1>2, <1>3, CallsRaws

LEMMA IdsOKPreserved ==
    ASSUME LocateInv, [Next]_vars
    PROVE  IdsOK'
  <1>1. IdsOK /\ (NoneNew \/ OneNew)
    BY NewMessages DEF LocateInv
  <1>2. ASSUME NEW raw \in Raw, NEW mid, Fresh(mid), Around(raw)
        PROVE  raw.mid # mid
    BY <1>2, NoMessageAssumption DEF Around, Fresh
  <1>3. CASE NoneNew
    BY <1>1, <1>3 DEF IdsOK, NoneNew
  <1>4. CASE OneNew
    <2> PICK new \in Raw :
            /\ Fresh(new.mid)
            /\ \A raw \in Raw :
                  Around(raw)' /\ raw.mid # NoId => Around(raw) \/ raw = new
      BY <1>4 DEF OneNew
    <2> SUFFICES ASSUME NEW raw \in Raw, NEW other \in Raw, Around(raw)',
                        Around(other)', raw.mid = other.mid, raw.mid # NoId
                 PROVE  raw = other
      BY DEF IdsOK
    <2>1. Around(raw) \/ raw = new
      OBVIOUS
    <2>2. Around(other) \/ other = new
      OBVIOUS
    <2>3. CASE Around(raw) /\ Around(other)
      BY <1>1, <2>3 DEF IdsOK
    <2> QED
      BY <1>2, <2>1, <2>2, <2>3
  <1> QED
    BY <1>1, <1>3, <1>4

LEMMA UidsStay ==
    ASSUME MailInv, [Next]_vars, NEW role \in Role
    PROVE  /\ uidnext[role] <= uidnext'[role]
           /\ \A u \in Uid(role) :
                 u < uidnext[role] /\ Present(role, u)' =>
                     Present(role, u) /\ box'[role][u].raw = box[role][u].raw
  <1> USE DEF MailInv
  <1>1. uidnext[role] \in Nat /\ Uid(role) \subseteq Nat
    BY MaxUidAssumption DEF MailTypeOK, Uid
  <1>2. CASE Appends
    BY <1>1, <1>2, AddType DEF Appends
  <1>3. CASE UNCHANGED uidnext /\ (MarksDeleted \/ MarksSeen \/ Expunges)
    BY <1>1, <1>3, NothingAdded
  <1>4. CASE UNCHANGED <<uidnext, box>>
    BY <1>1, <1>4 DEF Present
  <1> QED
    BY <1>2, <1>3, <1>4, BoxSteps

(* What a call has found it keeps; and it finds by Locate alone.           *)
Keeps(q) ==
    /\ call'[q].raw = call[q].raw /\ call'[q].op = call[q].op
    /\ call'[q].role = call[q].role

LEMMA CallsFind ==
    ASSUME MailInv, [Next]_vars, NEW q \in Thread, call'[q].found # 0
    PROVE  Keeps(q) /\ (call'[q].found = call[q].found \/ Locate(q))
  <1> USE DEF MailInv
  <1>1. call \in [Thread -> Call] /\ \A p \in Thread : call[p] \in Call
    BY DEF MailTypeOK
  <1>2. ASSUME NEW p \in Thread, p # q, Step(p) \/ Method(p)
        PROVE  call'[q] = call[q]
    BY <1>1, <1>2 DEF Step, Method, Fetch, Smtp, Append, Locate, SetSeen, Close,
       Flag, Expunge, Fails, CreateDraft, GetMessage, MarkAsRead, SendDraft,
       Begin, Goto, End
  <1>3. ~End(q)
    BY <1>1 DEF End, NoCall
  <1>4. CASE Step(q)
    <2>1. ASSUME NEW pc, Goto(q, pc)
          PROVE  Keeps(q) /\ call'[q].found = call[q].found
      BY <1>1, <2>1 DEF Goto, Call, Keeps
    <2>2. CASE Fetch(q)
      <3>1. call[q].found = 0
        BY <2>2 DEF Fetch, CallOK
      <3>2. call'[q].found = call[q].found
        BY <1>1, <1>3, <2>2 DEF Fetch, Call
      <3> QED
        BY <3>1, <3>2
    <2>3. CASE Locate(q)
      <3>1. Keeps(q)
        BY <1>1, <2>3, LocateMoves, LocatedCalls DEF Keeps
      <3> QED
        BY <2>3, <3>1
    <2>4. CASE Fails(q)
      <3>1. call' = [call EXCEPT ![q] =
                        [@ EXCEPT !.pc = "close", !.failed = TRUE]]
        BY <1>3, <2>4 DEF Fails
      <3> QED
        BY <1>1, <3>1 DEF Call, Keeps
    <2>5. CASE Smtp(q) \/ Append(q) \/ SetSeen(q) \/ Close(q) \/ Flag(q)
               \/ Expunge(q)
      BY <1>3, <2>1, <2>5 DEF Smtp, Append, SetSeen, Close, Flag, Expunge
    <2> QED
      BY <1>4, <2>2, <2>3, <2>4, <2>5 DEF Step
  <1>5. ~Method(q)
    BY <1>1 DEF Method, CreateDraft, GetMessage, MarkAsRead, SendDraft, Begin
  <1>6. CASE call'[q] = call[q]
    BY <1>6 DEF Keeps
  <1>7. CASE Owner \/ UNCHANGED vars
    BY <1>6, <1>7 DEF Owner, Arrives, OwnerMarks, vars
  <1> QED
    BY <1>2, <1>4, <1>5, <1>6, <1>7 DEF Next

LEMMA FoundOKPreserved ==
    ASSUME LocateInv, [Next]_vars
    PROVE  FoundOK'
  <1> SUFFICES ASSUME NEW q \in Thread, call'[q].found # 0,
                      call'[q].raw.mid # NoId
               PROVE  FoundBy(q)'
    BY DEF FoundOK
  <1> USE DEF LocateInv
  <1>1. Keeps(q) /\ (call'[q].found = call[q].found \/ Locate(q))
    BY CallsFind
  <1> DEFINE folder == Folder(q)
  <1>2. Folder(q)' = folder /\ folder \in Role
    BY <1>1, RoleMember DEF Keeps, Folder, MailInv, MailTypeOK, Call
  <1>3. uidnext[folder] \in Nat /\ uidnext'[folder] \in Nat
        /\ call[q].found \in Nat /\ call'[q].found \in Nat
    BY <1>2, BoxTypePreserved, CallTypePreserved
       DEF MailInv, MailTypeOK, BoxType, CallType, Call
  <1>4. CASE call'[q].found = call[q].found
    <2>1. /\ call[q].found < uidnext[folder]
          /\ Present(folder, call[q].found) =>
                box[folder][call[q].found].raw.mid = call[q].raw.mid
      BY <1>1, <1>4 DEF FoundOK, FoundBy, Keeps
    <2> HIDE DEF folder
    <2> QED
      BY <1>1, <1>2, <1>3, <1>4, <2>1, UidsStay DEF FoundBy, Keeps, Present
  <1>5. CASE Locate(q) /\ call'[q].found # call[q].found
    <2>1. call'[q].found \in Matching(folder, call[q].raw.mid)
      BY <1>5, <1>1 DEF Locate, MailInv, MailTypeOK, Call
    <2>2. /\ call'[q].found \in Uid(folder) /\ Present(folder, call'[q].found)
          /\ box[folder][call'[q].found].raw.mid = call[q].raw.mid
      BY <1>1, <2>1 DEF Matching, HasId, Keeps
    <2>3. UNCHANGED <<box, uidnext>>
      BY <1>5 DEF Locate
    <2> HIDE DEF folder
    <2>4. call'[q].found < uidnext[folder]
      BY <1>2, <2>2 DEF MailInv, MailTypeOK
    <2> QED
      BY <1>1, <1>2, <2>2, <2>3, <2>4 DEF FoundBy, Keeps, Present
  <1> QED
    BY <1>1, <1>4, <1>5

(* The uid a call answers with is its own message's, for any number of     *)
(* threads, whatever arrives in the folder between append and search.      *)
THEOREM LocatedAreOwn == Spec => []LocatedIsOwn
  <1>1. Init => LocateInv
    <2> SUFFICES ASSUME Init PROVE IdsOK /\ FoundOK
      BY InitMailInv DEF LocateInv
    <2>1. \A raw \in Raw : ~Around(raw)
      BY NoMessageAssumption DEF Init, Around, Present, NoCall
    <2>2. \A q \in Thread : call[q].found = 0
      BY DEF Init, NoCall
    <2> QED
      BY <2>1, <2>2 DEF IdsOK, FoundOK
  <1>2. LocateInv /\ [Next]_vars => LocateInv'
    <2> SUFFICES ASSUME LocateInv, [Next]_vars PROVE LocateInv'
      OBVIOUS
    <2>1. MailInv'
      BY TypeParts, BoxTypePreserved, CallTypePreserved, TrailTypePreserved,
         CallOKPreserved, MarksOKPreserved
         DEF LocateInv, MailInv, MailTypeOK, BoxType, CallType, TrailType
    <2> QED
      BY <2>1, IdsOKPreserved, FoundOKPreserved DEF LocateInv
  <1>3. LocateInv => LocatedIsOwn
    <2> SUFFICES ASSUME LocateInv, NEW q \in Thread, call[q].found # 0,
                        call[q].raw.mid # NoId, Present(Folder(q), call[q].found)
                 PROVE  box[Folder(q)][call[q].found].raw = call[q].raw
      BY DEF LocatedIsOwn
    <2> DEFINE folder == Folder(q)
               u == call[q].found
    <2>1. folder \in Role /\ u \in Uid(folder)
      BY RoleMember DEF Folder, Present, LocateInv, MailInv, MailTypeOK, Call
    <2>2. box[folder][u].raw \in Raw /\ call[q].raw \in Raw
      BY <2>1 DEF LocateInv, MailInv, MailTypeOK, Present, Message, CallOK
    <2>3. Around(box[folder][u].raw) /\ Around(call[q].raw)
      BY <2>1 DEF Around
    <2>4. box[folder][u].raw.mid = call[q].raw.mid
      BY DEF LocateInv, FoundOK, FoundBy
    <2> QED
      BY <2>2, <2>3, <2>4 DEF LocateInv, IdsOK
  <1> QED
    BY <1>1, <1>2, <1>3, PTL DEF Spec
=============================================================================
