------------------------- MODULE MailReadingProofs -------------------------
(***************************************************************************)
(* Proofs about drafts, threads and the reading tools, for any number of   *)
(* calls, drafts, messages and attachments: what was written last into a   *)
(* draft stands, a reply stays in its thread, and what the reading tools   *)
(* answer of a mailbox that changes under them is whole and true.          *)
(***************************************************************************)
EXTENDS MailReading, SequenceTheorems, FiniteSetTheorems,
        WellFoundedInduction, TLAPS

(* Where a place made for a reply points, for good: messages never change. *)
Anchored(p) ==
    p.origin # None =>
        /\ p.origin \in DOMAIN mail
        /\ p.thread = mail[p.origin].place.thread
        /\ adapter = "imap" => p.refs = ImapChain(p.origin)

MailAnchored ==
    \A m \in DOMAIN mail :
        /\ Anchored(mail[m].place)
        /\ adapter # "fake" => mail[m].place.thread # None

DraftsAnchored ==
    /\ \A d \in DraftId : Exists(d) => Anchored(drafts[d].place)
    /\ \A q \in Req : call[q] # NoCall => Anchored(call[q].held.place)

(* What an open call relies on: Gmail's copy is the draft unless it is out *)
(* of date, and Graph's half-made draft is in the place it was made for.   *)
CallOK(q) ==
    LET c == call[q] IN
    /\ Goes(q, "update") =>
          /\ adapter = "gmail" /\ c.draft \in DraftId
          /\ drafts[c.draft] # NoDraft
          /\ ~c.stale => Exists(c.draft) /\ c.held = drafts[c.draft]
    /\ Goes(q, "reply") /\ adapter = "graph" =>
          /\ c.draft \in DraftId
          /\ drafts[c.draft] # NoDraft
          /\ Exists(c.draft) => drafts[c.draft].place = c.held.place

CallsOK == \A q \in Req : CallOK(q)

Unmade == \A d \in DraftId : drafts[d] = NoDraft => ideal[d] = NoDraft

(* LatestEditStands, of one draft.                                         *)
Stands(d) ==
    LET now == drafts[d]  due == ideal[d] IN
    Exists(d) /\ due # NoDraft /\ d \notin spoiled =>
        /\ now.subject = due.subject /\ now.body = due.body /\ now.to = due.to
        /\ now.place.thread = due.place.thread
        /\ adapter # "gmail" => now = due

DraftsInv ==
    /\ DraftsTypeOK /\ MailAnchored /\ DraftsAnchored /\ CallsOK /\ Unmade
    /\ LatestEditStands

----------------------------------------------------------------------------
(* What a reading call knows while the mailbox changes, of the record of   *)
(* it: c goes on, is after the messages of a thread it must not leave out, *)
(* and knows what has been there.                                          *)
GoesOn(c) == c.pc \in {"list", "fetch"}

Due(c) == {m \in c.throughout : InThread(c.arg, m)}

WitnessOK(c) ==
    /\ c.throughout \subseteq DOMAIN mail
    /\ c.found \subseteq c.sometime /\ c.sometime \subseteq DOMAIN mail
    /\ IF c.op = "email" THEN c.todo \subseteq {c.arg}
       ELSE c.todo \subseteq c.sometime
    /\ GoesOn(c) => c.throughout \subseteq Present /\ Present \subseteq c.sometime

(* IMAP is done with its Inbox once it is at Sent.                         *)
ThreadOK(c) ==
    c.op = "thread" =>
        /\ c.pc = "list" => \A m \in Due(c) :
              c.folder = "inbox" \/ mail[m].at = "sent" \/ m \in c.found
        /\ c.pc = "fetch" => \A m \in Due(c) :
              (c.folder = "inbox" /\ mail[m].at = "sent")
                  \/ m \in c.found \cup c.todo
        /\ c.pc = "ok" => \A m \in Due(c) :
              \/ m \in c.found
              \/ /\ adapter = "graph"
                 /\ Cardinality({x \in c.found : x < m}) = Page

(* A search: what has been fetched and what is still to come.              *)
SearchOK(c) ==
    LET page == c.found \cup c.todo IN
    c.op = "search" =>
        /\ c.pc = "list" => c.found = {} /\ c.todo = {}
        /\ c.pc = "ok" => c.todo = {}
        /\ c.pc \in {"fetch", "ok"} =>
              /\ Cardinality(page) <= c.arg
              /\ \A m \in c.throughout \ page :
                    (adapter = "imap" => mail[m].at = "inbox") =>
                        Cardinality({x \in page : Before(x, m)}) = c.arg

AttachmentOK(c) ==
    c.op = "attachment" =>
        /\ c.part \in DOMAIN Parts
        /\ c.pc \in {"fetch", "ok"} => Parts[c.part] <= MaxSize
        /\ c.pc = "ok" => c.named \in DOMAIN Parts
                              /\ Parts[c.named] = Parts[c.part]

(* NotFoundIsTrue, of one call.                                            *)
TruthOK(c) ==
    c.pc = "not_found" =>
        \/ c.op \in {"search", "thread"} /\ c.todo \cap gone # {}
        \/ c.op \in {"email", "attachment"} /\ c.arg \notin c.throughout
        \/ c.op = "thread" /\ \A m \in c.throughout : ~InThread(c.arg, m)

ReadOK(c) ==
    /\ c \in Read /\ WitnessOK(c) /\ SearchOK(c) /\ ThreadOK(c)
    /\ AttachmentOK(c) /\ TruthOK(c)

ReadersOK ==
    /\ reader \in [Reader -> Read \cup {NoRead}]
    /\ \A r \in Reader : reader[r] # NoRead => ReadOK(reader[r])

ReadingInv == DraftsInv /\ ReadersOK

----------------------------------------------------------------------------
(* The first few of a list: n of S, in the order of k.                     *)
FirstFew(S, k, n) == {m \in S : Cardinality({x \in S : k[x] < k[m]}) < n}

(* A finite set has an element first in any order of its elements.         *)
LEMMA HasFirst ==
    ASSUME NEW S, IsFiniteSet(S), S # {}, NEW k \in [S -> Int]
    PROVE  \E x \in S : \A y \in S : k[x] <= k[y]
  <1> DEFINE D == [x \in S |-> {y \in S : k[y] <= k[x]}]
             T == {D[x] : x \in S}
  <1>1. \A x \in S : D[x] \in SUBSET S
    OBVIOUS
  <1>2. T \subseteq FiniteSubsetsOf(S) /\ T # {}
    <2>1. T \in SUBSET (SUBSET S) /\ T # {}
      BY <1>1
    <2> HIDE DEF T
    <2>2. FiniteSubsetsOf(S) = SUBSET S
      BY FS_FiniteSubsetsOfFinite
    <2> QED
      BY <2>1, <2>2
  <1>3. PICK d \in T : \A e \in T : ~(<<e, d>> \in StrictSubsetOrdering(S))
    <2> HIDE DEF T
    <2> QED
      BY <1>2, FS_StrictSubsetOrderingWellFounded, WFMin
  <1>4. PICK x \in S : d = D[x]
    OBVIOUS
  <1>5. ASSUME NEW y \in S, k[y] < k[x]
        PROVE  FALSE
    <2>1. D[y] \in T /\ D[y] \subseteq D[x] /\ D[y] # D[x]
      BY <1>5
    <2>2. D[y] \in SUBSET S /\ D[x] \in SUBSET S
      BY <1>1
    <2> HIDE DEF D, T
    <2>3. <<D[y], D[x]>> \in StrictSubsetOrdering(S)
      BY <2>1, <2>2 DEF StrictSubsetOrdering
    <2> QED
      BY <1>3, <1>4, <2>1, <2>3
  <1> QED
    BY <1>5

(* The first n of a finite set are n at most, and nothing is left out but  *)
(* what comes after n of them.                                             *)
LEMMA FirstOnes ==
    ASSUME NEW S, IsFiniteSet(S), NEW k \in [S -> Int],
           \A x, y \in S : k[x] = k[y] => x = y,
           NEW n \in Nat, NEW F,
           F = FirstFew(S, k, n)
    PROVE  /\ F \subseteq S /\ Cardinality(F) <= n
           /\ \A m \in S \ F : Cardinality({x \in F : k[x] < k[m]}) = n
  <1> USE DEF FirstFew
  <1> DEFINE Below(m) == {x \in S : k[x] < k[m]}
  <1>1. F \subseteq S /\ IsFiniteSet(F) /\ Cardinality(F) \in Nat
    BY FS_Subset, FS_CardinalityType
  <1>2. \A m \in S : IsFiniteSet(Below(m)) /\ Cardinality(Below(m)) \in Nat
    <2>1. \A m \in S : Below(m) \in SUBSET S
      OBVIOUS
    <2> HIDE DEF Below
    <2> QED
      BY <2>1, FS_Subset, FS_CardinalityType
  <1>3. ASSUME NEW x \in S, NEW y \in S, k[x] <= k[y]
        PROVE  Cardinality(Below(x)) <= Cardinality(Below(y))
    <2>1. Below(x) \in SUBSET Below(y)
      BY <1>3
    <2> HIDE DEF Below
    <2> QED
      BY <1>2, <2>1, FS_Subset
  <1>4. Cardinality(F) <= n
    <2>1. CASE F = {}
      <3>1. Cardinality({}) = 0
        BY FS_EmptySet
      <3>2. Cardinality(F) = 0
        BY <2>1, <3>1
      <3> QED
        BY <3>2
    <2>2. CASE F # {}
      <3> DEFINE neg == [x \in F |-> -k[x]]
      <3>1. neg \in [F -> Int]
        BY <1>1
      <3>2. PICK g \in F : \A y \in F : neg[g] <= neg[y]
        <4> HIDE DEF neg
        <4> QED
          BY <1>1, <2>2, <3>1, HasFirst
      <3>3. \A y \in F : k[y] <= k[g]
        BY <1>1, <3>2
      <3>4. F \ {g} \in SUBSET Below(g) /\ g \in S
        BY <1>1, <3>3
      <3>5. Cardinality(Below(g)) < n
        OBVIOUS
      <3>6. Cardinality(F \ {g}) = Cardinality(F) - 1
        BY <1>1, FS_RemoveElement
      <3> HIDE DEF Below
      <3>7. Cardinality(F \ {g}) <= Cardinality(Below(g))
        BY <1>2, <3>4, FS_Subset
      <3> QED
        BY <1>1, <1>2, <3>4, <3>5, <3>6, <3>7
    <2> QED
      BY <2>1, <2>2
  <1>5. ASSUME NEW m \in S \ F
        PROVE  Cardinality({x \in F : k[x] < k[m]}) = n
    <2> DEFINE rest == [x \in S \ F |-> k[x]]
    <2>1. PICK l \in S \ F : \A y \in S \ F : k[l] <= k[y]
      <3>1. IsFiniteSet(S \ F) /\ S \ F # {}
        BY <1>5, FS_Difference
      <3>2. rest \in [S \ F -> Int]
        OBVIOUS
      <3>3. PICK l \in S \ F : \A y \in S \ F : rest[l] <= rest[y]
        <4> HIDE DEF rest
        <4> QED
          BY <3>1, <3>2, HasFirst
      <3> QED
        BY <3>3
    <2>2. ~(Cardinality(Below(l)) < n)
      BY <2>1
    <2>3. ASSUME NEW x \in F
          PROVE  k[x] < k[l]
      <3>1. Cardinality(Below(x)) < n /\ x \in S
        OBVIOUS
      <3>2. ~(k[l] <= k[x])
        <4> HIDE DEF Below
        <4> QED
          BY <1>2, <1>3, <2>2, <3>1
      <3> QED
        BY <3>1, <3>2
    <2>4. Below(l) = F
      BY <1>1, <2>1, <2>3
    <2>5. {x \in F : k[x] < k[m]} = F
      BY <1>1, <2>1, <2>3
    <2>6. ~(Cardinality(F) < n)
      BY <2>2, <2>4
    <2>7. Cardinality(F) = n
      BY <1>1, <1>4, <2>6
    <2> QED
      BY <2>5, <2>7, Zenon
  <1> QED
    BY <1>1, <1>4, <1>5

----------------------------------------------------------------------------
(* Messages, and the places of replies to them.                            *)
LEMMA MailFacts ==
    ASSUME DraftsTypeOK
    PROVE  /\ Len(mail) \in Nat /\ DOMAIN mail = 1..Len(mail)
           /\ DOMAIN mail \subseteq Id \ {None}
           /\ \A m \in DOMAIN mail : mail[m] \in Message
  BY LenProperties, ElementOfSeq, MaxMailAssumption DEF DraftsTypeOK, Id, None

LEMMA ChainTypes ==
    ASSUME DraftsTypeOK, NEW m \in DOMAIN mail
    PROVE  /\ ImapChain(m) \in Seq(Id) /\ ImapChain(m) # <<>>
           /\ Chain(m) \in Seq(Id)
           /\ GmailChain(m) \in Seq(Id)
  <1>1. m \in Id /\ mail[m].place.refs \in Seq(Id) /\ mail[m].place.parent \in Id
    BY MailFacts DEF Message, Place
  <1>2. <<m>> \in Seq(Id) /\ <<mail[m].place.parent>> \in Seq(Id)
    BY <1>1
  <1>3. \A s \in Seq(Id) : Append(s, m) \in Seq(Id) /\ Append(s, m) # <<>>
    BY <1>1, AppendProperties
  <1> QED
    BY <1>1, <1>2, <1>3 DEF ImapChain, Chain, GmailChain

LEMMA ReplyPlaceType ==
    ASSUME DraftsTypeOK, NEW m \in DOMAIN mail
    PROVE  /\ ReplyPlace(m) \in Place /\ ReplyPlace(m).origin = m
           /\ Anchored(ReplyPlace(m))
  <1>1. m \in Id /\ mail[m].place.thread \in Id
    BY MailFacts DEF Message, Place
  <1> QED
    BY <1>1, ChainTypes DEF ReplyPlace, Place, Anchored

LEMMA NoPlaceType == NoPlace \in Place /\ Anchored(NoPlace)
  BY EmptySeq, MaxMailAssumption DEF NoPlace, Place, Id, None, Anchored

LEMMA WrittenType ==
    ASSUME NEW text \in Letters, NEW place \in Place
    PROVE  /\ Written(text, place) \in Draft
           /\ Written(text, place).place = place
  BY LettersAssumption DEF Written, Draft

LEMMA EditedType ==
    ASSUME NEW draft \in Draft, NEW e \in Edit
    PROVE  /\ Edited(draft, e) \in Draft
           /\ Edited(draft, e).place = draft.place
           /\ Edited(draft, e).to = draft.to
           /\ Edited(draft, e).extra = draft.extra
           /\ Edited(draft, e).subject = Replaced(draft.subject, e.subject)
           /\ Edited(draft, e).body = Replaced(draft.body, e.body)
  BY DEF Edited, Replaced, Draft, Edit

LEMMA RebuiltType ==
    ASSUME NEW copy \in Draft, NEW e \in Edit
    PROVE  /\ Rebuilt(copy, e) \in Draft
           /\ Rebuilt(copy, e).place.thread = copy.place.thread
           /\ Rebuilt(copy, e).place.origin = copy.place.origin
           /\ Rebuilt(copy, e).to = copy.to
           /\ Rebuilt(copy, e).subject = Replaced(copy.subject, e.subject)
           /\ Rebuilt(copy, e).body = Replaced(copy.body, e.body)
  <1> DEFINE new == Edited(copy, e)
  <1>1. /\ new \in Draft /\ new.place = copy.place /\ new.to = copy.to
        /\ new.subject = Replaced(copy.subject, e.subject)
        /\ new.body = Replaced(copy.body, e.body)
    BY EditedType
  <1>2. <<>> \in Seq(Id) /\ None \in Id
    BY EmptySeq, MaxMailAssumption DEF Id, None
  <1> DEFINE place == [new.place EXCEPT !.parent = None, !.refs = <<>>]
  <1>3. /\ place \in Place /\ place.thread = new.place.thread
        /\ place.origin = new.place.origin
    BY <1>1, <1>2 DEF Draft, Place
  <1>4. Rebuilt(copy, e) = [new EXCEPT !.place = place, !.extra = FALSE]
    BY <1>1 DEF Rebuilt, Draft, Place
  <1> HIDE DEF new, place
  <1> QED
    BY <1>1, <1>3, <1>4 DEF Draft

LEMMA FiledType ==
    ASSUME DraftsTypeOK, NEW place \in Place, Len(mail) < MaxMail
    PROVE  /\ Filed(place) \in Message
           /\ Filed(place).place.origin = place.origin
           /\ Filed(place).place.refs = place.refs
           /\ place.thread # None => Filed(place).place = place
           /\ adapter # "fake" => Filed(place).place.thread # None
  <1>1. Len(mail) + 1 \in Id \ {None}
    BY MailFacts, MaxMailAssumption DEF Id, None
  <1> QED
    BY <1>1 DEF Filed, Message, Place

(* Calls, and what a change of a draft means for them.                     *)
LEMMA CallType ==
    ASSUME NEW op \in {"reply", "update"}, NEW d \in DraftId \cup {NoDraft},
           NEW text \in Edit, NEW held \in Draft
    PROVE  [op |-> op, draft |-> d, text |-> text, held |-> held,
            stale |-> FALSE] \in Call
  BY DEF Call

LEMMA NoticedType ==
    ASSUME DraftsTypeOK, NEW d
    PROVE  /\ Noticed(d) \in [Req -> Call \cup {NoCall}]
           /\ \A q \in Req :
                 /\ call[q] = NoCall <=> Noticed(d)[q] = NoCall
                 /\ call[q] # NoCall =>
                       /\ Noticed(d)[q].op = call[q].op
                       /\ Noticed(d)[q].draft = call[q].draft
                       /\ Noticed(d)[q].held = call[q].held
                       /\ ~Noticed(d)[q].stale =>
                             /\ ~call[q].stale
                             /\ call[q].op = "update" => call[q].draft # d
  <1> SUFFICES ASSUME NEW q \in Req
               PROVE  /\ Noticed(d)[q] \in Call \cup {NoCall}
                      /\ call[q] = NoCall <=> Noticed(d)[q] = NoCall
                      /\ call[q] # NoCall =>
                            /\ Noticed(d)[q].op = call[q].op
                            /\ Noticed(d)[q].draft = call[q].draft
                            /\ Noticed(d)[q].held = call[q].held
                            /\ ~Noticed(d)[q].stale =>
                                  /\ ~call[q].stale
                                  /\ call[q].op = "update" => call[q].draft # d
    BY DEF Noticed
  <1>1. CASE call[q] = NoCall
    BY <1>1 DEF Noticed, Goes
  <1>2. CASE call[q] # NoCall
    <2>1. call[q] \in Call
      BY <1>2 DEF DraftsTypeOK
    <2>2. [call[q] EXCEPT !.stale = TRUE] \in Call
      BY <2>1 DEF Call
    <2>3. NoCall \notin Call
      BY NoCallAssumption
    <2> QED
      BY <1>2, <2>1, <2>2, <2>3 DEF Noticed, Goes, Call
  <1> QED
    BY <1>1, <1>2

----------------------------------------------------------------------------
(* What the steps have in common: messages only join, a call goes on after *)
(* a change of draft d, and the rest of the state follows.                 *)
Grows ==
    /\ adapter' = adapter
    /\ DOMAIN mail \subseteq DOMAIN mail'
    /\ \A m \in DOMAIN mail : mail'[m] = mail[m]

CarriesOver(q, d) ==
    /\ call[q] # NoCall
    /\ call'[q].op = call[q].op
    /\ call'[q].draft = call[q].draft
    /\ call'[q].held = call[q].held
    /\ ~call'[q].stale =>
          ~call[q].stale /\ (call[q].op = "update" => call[q].draft # d)

OnlyChanges(d) ==
    /\ \A x \in DraftId \ {d} :
          /\ drafts'[x] = drafts[x] /\ ideal'[x] = ideal[x]
          /\ x \in spoiled => x \in spoiled'
    /\ drafts'[d] # NoDraft

LEMMA StandsIsLatest == LatestEditStands <=> \A d \in DraftId : Stands(d)
  BY DEF LatestEditStands, Settled, Stands

LEMMA AnchoredStays ==
    ASSUME Grows
    PROVE  \A p : Anchored(p) /\ p.origin # None =>
                 /\ p.origin \in DOMAIN mail'
                 /\ p.thread = mail'[p.origin].place.thread
                 /\ adapter' = "imap" =>
                       p.refs = Append(mail'[p.origin].place.refs, p.origin)
  BY DEF Grows, Anchored, ImapChain

LEMMA MailAnchoredStays ==
    ASSUME MailAnchored, UNCHANGED <<adapter, mail>>
    PROVE  MailAnchored' /\ Grows
  BY DEF MailAnchored, Anchored, ImapChain, Grows

(* A step that changes draft d at most.                                    *)
LEMMA DraftChanges ==
    ASSUME DraftsInv, Grows, MailAnchored', DraftsTypeOK', NEW d \in DraftId,
           OnlyChanges(d),
           Exists(d)' => Anchored(drafts[d].place)',
           drafts[d] = NoDraft \/ Exists(d),
           Exists(d) /\ Exists(d)' /\ adapter = "graph" =>
              drafts'[d].place = drafts[d].place,
           Stands(d)',
           \A q \in Req :
              \/ call'[q] = NoCall \/ CarriesOver(q, d)
              \/ CallOK(q)' /\ Anchored(call[q].held.place)'
    PROVE  DraftsInv'
  <1>1. DraftsAnchored'
    <2>1. ASSUME NEW x \in DraftId, Exists(x)'
          PROVE  Anchored(drafts[x].place)'
      <3>1. CASE x = d
        BY <2>1, <3>1
      <3>2. CASE x # d
        <4>1. Anchored(drafts[x].place) /\ drafts'[x] = drafts[x]
          BY <2>1, <3>2 DEF DraftsInv, DraftsAnchored, Exists, OnlyChanges
        <4> QED
          BY <4>1, AnchoredStays DEF Anchored, ImapChain
      <3> QED
        BY <3>1, <3>2
    <2>2. ASSUME NEW q \in Req, call'[q] # NoCall
          PROVE  Anchored(call[q].held.place)'
      <3>1. CASE CarriesOver(q, d)
        <4>1. Anchored(call[q].held.place) /\ call'[q].held = call[q].held
          BY <3>1 DEF DraftsInv, DraftsAnchored, CarriesOver
        <4> QED
          BY <4>1, AnchoredStays DEF Anchored, ImapChain
      <3> QED
        BY <2>2, <3>1
    <2> QED
      BY <2>1, <2>2 DEF DraftsAnchored
  <1>2. ASSUME NEW q \in Req
        PROVE  CallOK(q)'
    <2>1. CASE call'[q] = NoCall
      BY <2>1 DEF CallOK, Goes
    <2>2. CASE CarriesOver(q, d)
      <3>1. CallOK(q)
        BY DEF DraftsInv, CallsOK
      <3> QED
        BY <2>2, <3>1 DEF CallOK, CarriesOver, Goes, Exists, Grows, OnlyChanges
    <2> QED
      BY <2>1, <2>2
  <1>3. Unmade'
    BY DEF DraftsInv, Unmade, OnlyChanges
  <1>4. LatestEditStands'
    <2>1. ASSUME NEW x \in DraftId
          PROVE  Stands(x)'
      <3>1. CASE x = d
        BY <3>1
      <3>2. CASE x # d
        <4>1. Stands(x)
          BY StandsIsLatest DEF DraftsInv
        <4> QED
          BY <3>2, <4>1 DEF Stands, Exists, Grows, OnlyChanges
      <3> QED
        BY <3>1, <3>2
    <2> QED
      BY <2>1 DEF LatestEditStands, Settled, Stands
  <1> QED
    BY <1>1, <1>2, <1>3, <1>4 DEF DraftsInv, CallsOK

(* A step that leaves the drafts alone.                                    *)
LEMMA DraftsStay ==
    ASSUME DraftsInv, Grows, MailAnchored', DraftsTypeOK',
           UNCHANGED <<drafts, ideal, spoiled>>,
           \A q \in Req :
              \/ call'[q] = NoCall \/ call'[q] = call[q]
              \/ CallOK(q)' /\ Anchored(call[q].held.place)'
    PROVE  DraftsInv'
  <1>1. DraftsAnchored'
    <2>1. ASSUME NEW x \in DraftId, Exists(x)'
          PROVE  Anchored(drafts[x].place)'
      <3>1. Anchored(drafts[x].place) /\ drafts'[x] = drafts[x]
        BY <2>1 DEF DraftsInv, DraftsAnchored, Exists
      <3> QED
        BY <3>1, AnchoredStays DEF Anchored, ImapChain
    <2>2. ASSUME NEW q \in Req, call'[q] # NoCall
          PROVE  Anchored(call[q].held.place)'
      <3>1. CASE call'[q] = call[q]
        <4>1. Anchored(call[q].held.place)
          BY <2>2, <3>1 DEF DraftsInv, DraftsAnchored
        <4> QED
          BY <3>1, <4>1, AnchoredStays DEF Anchored, ImapChain
      <3> QED
        BY <2>2, <3>1
    <2> QED
      BY <2>1, <2>2 DEF DraftsAnchored
  <1>2. ASSUME NEW q \in Req
        PROVE  CallOK(q)'
    <2>1. CASE call'[q] = NoCall
      BY <2>1 DEF CallOK, Goes
    <2>2. CASE call'[q] = call[q]
      <3>1. CallOK(q)
        BY DEF DraftsInv, CallsOK
      <3> QED
        BY <2>2, <3>1 DEF CallOK, Goes, Exists, Grows
    <2> QED
      BY <2>1, <2>2
  <1>3. Unmade' /\ LatestEditStands'
    BY DEF DraftsInv, Unmade, LatestEditStands, Settled, Exists, Grows
  <1> QED
    BY <1>1, <1>2, <1>3 DEF DraftsInv, CallsOK

(* What becomes of the calls.                                              *)
LEMMA ClosesEffect ==
    ASSUME DraftsTypeOK, NEW q \in Req, NEW d,
           call' = Noticed(d) \/ Closes(q, d)
    PROVE  /\ call' \in [Req -> Call \cup {NoCall}]
           /\ \A x \in Req : call'[x] = NoCall \/ CarriesOver(x, d)
  BY NoticedType DEF Closes, CarriesOver

LEMMA OpensEffect ==
    ASSUME DraftsTypeOK, NEW q \in Req, NEW op \in {"reply", "update"},
           NEW d \in DraftId \cup {NoDraft}, NEW text \in Edit,
           NEW held \in Draft, Open(q, op, d, text, held)
    PROVE  /\ call' \in [Req -> Call \cup {NoCall}]
           /\ \A x \in Req \ {q} : call'[x] = call[x]
           /\ call'[q].op = op /\ call'[q].draft = d /\ call'[q].held = held
           /\ call'[q].stale = FALSE
  BY CallType DEF Open, DraftsTypeOK

LEMMA FreshDraft ==
    ASSUME DraftsInv, NEW d \in DraftId, drafts[d] = NoDraft,
           NEW x \in Req, call'[x] = call[x]
    PROVE  call'[x] = NoCall \/ CarriesOver(x, d)
  BY DEF DraftsInv, CallsOK, CallOK, CarriesOver, Goes

LEMMA DraftIsThere ==
    \A x \in Draft : x # NoDraft /\ x # GoneDraft
  BY NoDraftAssumption

LEMMA NoEditType == NoEdit \in Edit
  BY DEF NoEdit, Edit

LEMMA HeldType ==
    ASSUME DraftsInv, NEW q \in Req, call[q] # NoCall
    PROVE  /\ call[q] \in Call /\ call[q].held \in Draft /\ call[q].text \in Edit
           /\ Anchored(call[q].held.place)
           /\ CallOK(q)
  BY DEF DraftsInv, DraftsTypeOK, DraftsAnchored, CallsOK, Call

----------------------------------------------------------------------------
(* The steps.                                                              *)
LEMMA CreateAtOnceKeeps ==
    ASSUME DraftsInv, NEW d \in DraftId, NEW text \in Letters, NEW m \in Id,
           CreateAtOnce(d, text, m)
    PROVE  DraftsInv'
  <1> DEFINE place == IF m = None THEN NoPlace ELSE ReplyPlace(m)
  <1>1. place \in Place /\ Anchored(place)
    BY ReplyPlaceType, NoPlaceType DEF CreateAtOnce, DraftsInv, Present
  <1> DEFINE new == Written(text, place)
  <1>2. new \in Draft /\ new.place = place
    BY <1>1, WrittenType
  <1>3. /\ drafts[d] = NoDraft
        /\ drafts' = [drafts EXCEPT ![d] = new]
        /\ ideal' = [ideal EXCEPT ![d] = new]
        /\ UNCHANGED <<adapter, mail, gone, call, spoiled>>
    BY DEF CreateAtOnce, MakeDraft
  <1> HIDE DEF new, place
  <1>4. DraftsTypeOK'
    BY <1>2, <1>3 DEF DraftsInv, DraftsTypeOK
  <1>5. MailAnchored' /\ Grows
    BY <1>3, MailAnchoredStays DEF DraftsInv
  <1>6. drafts'[d] = new /\ ideal'[d] = new
    BY <1>3 DEF DraftsInv, DraftsTypeOK
  <1>7. Anchored(drafts[d].place)'
    BY <1>1, <1>2, <1>3, <1>6 DEF Anchored, ImapChain
  <1>8. Stands(d)'
    BY <1>6 DEF Stands
  <1>9. \A x \in Req : call'[x] = NoCall \/ CarriesOver(x, d)
    BY <1>3, FreshDraft
  <1>10. OnlyChanges(d)
    BY <1>2, <1>3, <1>6, DraftIsThere DEF DraftsInv, DraftsTypeOK, OnlyChanges
  <1> QED
    BY <1>3, <1>4, <1>5, <1>7, <1>8, <1>9, <1>10, DraftChanges DEF Exists

LEMMA ReadOriginalKeeps ==
    ASSUME DraftsInv, NEW q \in Req, NEW text \in Letters, NEW m \in Id,
           ReadOriginal(q, text, m)
    PROVE  DraftsInv'
  <1> DEFINE held == Written(text, ReplyPlace(m))
  <1>1. ReplyPlace(m) \in Place /\ Anchored(ReplyPlace(m))
    BY ReplyPlaceType DEF ReadOriginal, DraftsInv, Present
  <1>2. held \in Draft /\ held.place = ReplyPlace(m)
    BY <1>1, WrittenType
  <1>3. /\ Open(q, "reply", NoDraft, NoEdit, held)
        /\ adapter \in {"gmail", "imap"}
        /\ UNCHANGED <<adapter, mail, gone, drafts, ideal, spoiled>>
    BY DEF ReadOriginal
  <1> HIDE DEF held
  <1>4. /\ call' \in [Req -> Call \cup {NoCall}]
        /\ \A x \in Req \ {q} : call'[x] = call[x]
        /\ call'[q].op = "reply" /\ call'[q].held = held
    BY <1>2, <1>3, OpensEffect, NoEditType, ZenonT(30) DEF DraftsInv
  <1>5. DraftsTypeOK'
    BY <1>3, <1>4 DEF DraftsInv, DraftsTypeOK
  <1>6. MailAnchored' /\ Grows
    BY <1>3, MailAnchoredStays DEF DraftsInv
  <1>7. CallOK(q)' /\ Anchored(call[q].held.place)'
    <2>1. CallOK(q)'
      BY <1>3, <1>4 DEF CallOK, Goes
    <2>2. call'[q].held.place = ReplyPlace(m)
      BY <1>2, <1>4
    <2> QED
      BY <1>1, <1>3, <2>1, <2>2 DEF Anchored, ImapChain
  <1> QED
    BY <1>3, <1>4, <1>5, <1>6, <1>7, DraftsStay

LEMMA CreateReplyKeeps ==
    ASSUME DraftsInv, NEW q \in Req, NEW d \in DraftId, CreateReply(q, d)
    PROVE  DraftsInv'
  <1> DEFINE new == call[q].held
  <1>1. new \in Draft /\ Anchored(new.place)
    BY HeldType DEF CreateReply, Goes
  <1>3. /\ drafts[d] = NoDraft
        /\ drafts' = [drafts EXCEPT ![d] = new]
        /\ ideal' = [ideal EXCEPT ![d] = new]
        /\ Closes(q, d)
        /\ UNCHANGED <<adapter, mail, gone, spoiled>>
    BY DEF CreateReply, MakeDraft
  <1> HIDE DEF new
  <1>4. /\ call' \in [Req -> Call \cup {NoCall}]
        /\ \A x \in Req : call'[x] = NoCall \/ CarriesOver(x, d)
    BY <1>3, ClosesEffect DEF DraftsInv
  <1>5. DraftsTypeOK'
    BY <1>1, <1>3, <1>4 DEF DraftsInv, DraftsTypeOK
  <1>6. MailAnchored' /\ Grows
    BY <1>3, MailAnchoredStays DEF DraftsInv
  <1>7. drafts'[d] = new /\ ideal'[d] = new
    BY <1>3 DEF DraftsInv, DraftsTypeOK
  <1>8. Anchored(drafts[d].place)'
    BY <1>1, <1>3, <1>7 DEF Anchored, ImapChain
  <1>9. Stands(d)'
    BY <1>7 DEF Stands
  <1>10. OnlyChanges(d)
    BY <1>1, <1>3, <1>7, DraftIsThere DEF DraftsInv, DraftsTypeOK, OnlyChanges
  <1> QED
    BY <1>3, <1>4, <1>5, <1>6, <1>8, <1>9, <1>10, DraftChanges DEF Exists

LEMMA GraphCreateReplyKeeps ==
    ASSUME DraftsInv, NEW q \in Req, NEW d \in DraftId, NEW text \in Letters,
           NEW m \in Id, GraphCreateReply(q, d, text, m)
    PROVE  DraftsInv'
  <1> DEFINE place == ReplyPlace(m)
             held == Written(text, place)
             new == [subject |-> Quoted, body |-> Quoted, to |-> "quoted",
                     place |-> place, extra |-> FALSE]
  <1>1. place \in Place /\ Anchored(place)
    BY ReplyPlaceType DEF GraphCreateReply, DraftsInv, Present
  <1>2. /\ held \in Draft /\ held.place = place
        /\ new \in Draft /\ new.place = place
    BY <1>1, WrittenType DEF Draft
  <1>3. /\ drafts[d] = NoDraft
        /\ drafts' = [drafts EXCEPT ![d] = new]
        /\ Open(q, "reply", d, NoEdit, held)
        /\ UNCHANGED <<adapter, mail, gone, ideal, spoiled>>
    BY DEF GraphCreateReply, MakeDraft
  <1> HIDE DEF new, held, place
  <1>4. /\ call' \in [Req -> Call \cup {NoCall}]
        /\ \A x \in Req \ {q} : call'[x] = call[x]
        /\ call'[q].op = "reply" /\ call'[q].draft = d /\ call'[q].held = held
    <2>1. [op |-> "reply", draft |-> d, text |-> NoEdit, held |-> held,
           stale |-> FALSE] \in Call
      BY <1>2, CallType, NoEditType
    <2> QED
      BY <1>3, <2>1 DEF DraftsInv, DraftsTypeOK, Open
  <1>5. DraftsTypeOK'
    BY <1>2, <1>3, <1>4 DEF DraftsInv, DraftsTypeOK
  <1>6. MailAnchored' /\ Grows
    BY <1>3, MailAnchoredStays DEF DraftsInv
  <1>7. drafts'[d] = new /\ drafts'[d] # NoDraft
    BY <1>2, <1>3, DraftIsThere DEF DraftsInv, DraftsTypeOK
  <1>8. Anchored(drafts[d].place)'
    BY <1>1, <1>2, <1>3, <1>7 DEF Anchored, ImapChain
  <1>9. Stands(d)'
    BY <1>3 DEF DraftsInv, Unmade, Stands
  <1>10. CallOK(q)' /\ Anchored(call[q].held.place)'
    <2>1. CallOK(q)'
      BY <1>2, <1>4, <1>7 DEF CallOK, Goes
    <2>2. call'[q].held.place = place
      BY <1>2, <1>4
    <2> QED
      BY <1>1, <1>3, <2>1, <2>2 DEF Anchored, ImapChain
  <1>11. \A x \in Req \ {q} : call'[x] = NoCall \/ CarriesOver(x, d)
    BY <1>3, <1>4, FreshDraft
  <1>12. \A x \in Req :
            \/ call'[x] = NoCall \/ CarriesOver(x, d)
            \/ CallOK(x)' /\ Anchored(call[x].held.place)'
    BY <1>10, <1>11
  <1>13. OnlyChanges(d)
    BY <1>3, <1>7 DEF DraftsInv, DraftsTypeOK, OnlyChanges
  <1> QED
    BY <1>3, <1>5, <1>6, <1>8, <1>9, <1>12, <1>13, DraftChanges DEF Exists

(* Graph's PATCH: the place is the one createReply gave.                   *)
LEMMA GraphOverwriteKeeps ==
    ASSUME DraftsInv, NEW q \in Req, GraphOverwrite(q)
    PROVE  DraftsInv'
  <1>0. PICK d, held : d = call[q].draft /\ held = call[q].held
    OBVIOUS
  <1> DEFINE new == Overwritten(drafts[d], held)
             due == [held EXCEPT !.extra = drafts[d].extra]
  <1>1. /\ held \in Draft /\ CallOK(q)
        /\ Goes(q, "reply") /\ adapter = "graph" /\ Exists(d)
    BY <1>0, HeldType DEF GraphOverwrite, Goes
  <1>2. d \in DraftId /\ drafts[d].place = held.place /\ drafts[d] # NoDraft
    BY <1>0, <1>1 DEF CallOK
  <1>3. drafts[d] \in Draft
    BY <1>1, <1>2 DEF DraftsInv, DraftsTypeOK, Exists
  <1>4. /\ new \in Draft /\ new.place = drafts[d].place
        /\ due \in Draft /\ new = due
    BY <1>1, <1>2, <1>3 DEF Overwritten, Draft
  <1>5. /\ drafts' = [drafts EXCEPT ![d] = new]
        /\ ideal' = [ideal EXCEPT ![d] = due]
        /\ Closes(q, d)
        /\ UNCHANGED <<adapter, mail, gone, spoiled>>
    BY <1>0 DEF GraphOverwrite
  <1>6. Anchored(drafts[d].place)
    BY <1>1, <1>2 DEF DraftsInv, DraftsAnchored
  <1> HIDE DEF new, due
  <1>7. /\ call' \in [Req -> Call \cup {NoCall}]
        /\ \A x \in Req : call'[x] = NoCall \/ CarriesOver(x, d)
    BY <1>5, ClosesEffect DEF DraftsInv
  <1>8. DraftsTypeOK'
    BY <1>4, <1>5, <1>7 DEF DraftsInv, DraftsTypeOK
  <1>9. MailAnchored' /\ Grows
    BY <1>5, MailAnchoredStays DEF DraftsInv
  <1>10. drafts'[d] = new /\ ideal'[d] = new
    BY <1>2, <1>4, <1>5 DEF DraftsInv, DraftsTypeOK
  <1>11. drafts'[d].place = drafts[d].place
    BY <1>4, <1>10
  <1>12. Anchored(drafts[d].place)'
    BY <1>5, <1>6, <1>11 DEF Anchored, ImapChain
  <1>13. Stands(d)'
    BY <1>10 DEF Stands
  <1>14. OnlyChanges(d)
    BY <1>2, <1>4, <1>5, <1>10, DraftIsThere
       DEF DraftsInv, DraftsTypeOK, OnlyChanges
  <1> QED
    BY <1>1, <1>2, <1>7, <1>8, <1>9, <1>11, <1>12, <1>13, <1>14, DraftChanges

LEMMA GmailReadKeeps ==
    ASSUME DraftsInv, NEW q \in Req, NEW d \in DraftId, NEW e \in Edits,
           GmailRead(q, d, e)
    PROVE  DraftsInv'
  <1> DEFINE held == drafts[d]
  <1>1. held \in Draft /\ Exists(d) /\ Anchored(held.place) /\ e \in Edit
    BY EditsAssumption
       DEF GmailRead, DraftsInv, DraftsTypeOK, DraftsAnchored, Exists
  <1>2. /\ Open(q, "update", d, e, held) /\ adapter = "gmail"
        /\ UNCHANGED <<adapter, mail, gone, drafts, ideal, spoiled>>
    BY DEF GmailRead
  <1>3. /\ call' \in [Req -> Call \cup {NoCall}]
        /\ \A x \in Req \ {q} : call'[x] = call[x]
        /\ call'[q].op = "update" /\ call'[q].draft = d /\ call'[q].held = held
    <2>1. [op |-> "update", draft |-> d, text |-> e, held |-> held,
           stale |-> FALSE] \in Call
      BY <1>1, CallType
    <2> HIDE DEF held
    <2> QED
      BY <1>2, <2>1 DEF DraftsInv, DraftsTypeOK, Open
  <1>4. DraftsTypeOK'
    BY <1>2, <1>3 DEF DraftsInv, DraftsTypeOK
  <1>5. MailAnchored' /\ Grows
    BY <1>2, MailAnchoredStays DEF DraftsInv
  <1>6. CallOK(q)'
    BY <1>1, <1>2, <1>3 DEF CallOK, Goes, Exists
  <1>7. Anchored(call[q].held.place)'
    <2>1. call'[q].held.place = held.place
      BY <1>3
    <2> QED
      BY <1>1, <1>2, <2>1 DEF Anchored, ImapChain
  <1> QED
    BY <1>2, <1>3, <1>4, <1>5, <1>6, <1>7, DraftsStay

(* Gmail's replacement: a copy that is still the draft gives what the edit *)
(* would have; any other spoils the draft.                                 *)
LEMMA GmailReplaceKeeps ==
    ASSUME DraftsInv, NEW q \in Req, GmailReplace(q)
    PROVE  DraftsInv'
  <1>0. PICK d, e, copy :
           d = call[q].draft /\ e = call[q].text /\ copy = call[q].held
    OBVIOUS
  <1> DEFINE new == Rebuilt(copy, e)
             due == IF ideal[d] = NoDraft THEN NoDraft ELSE Edited(ideal[d], e)
  <1>1. /\ copy \in Draft /\ e \in Edit /\ Anchored(copy.place) /\ CallOK(q)
        /\ Goes(q, "update") /\ Exists(d)
    BY <1>0, HeldType DEF GmailReplace, Goes
  <1>2. /\ d \in DraftId /\ adapter = "gmail" /\ drafts[d] # NoDraft
        /\ ~call[q].stale => copy = drafts[d]
    BY <1>0, <1>1 DEF CallOK
  <1>3. /\ new \in Draft
        /\ new.place.thread = copy.place.thread
        /\ new.place.origin = copy.place.origin
        /\ new.to = copy.to
        /\ new.subject = Replaced(copy.subject, e.subject)
        /\ new.body = Replaced(copy.body, e.body)
    BY <1>1, RebuiltType
  <1>4. due \in Draft \cup {NoDraft}
    BY <1>1, <1>2, EditedType DEF DraftsInv, DraftsTypeOK
  <1>5. /\ drafts' = [drafts EXCEPT ![d] = new]
        /\ spoiled' = IF call[q].stale THEN spoiled \cup {d} ELSE spoiled
        /\ Closes(q, d)
        /\ UNCHANGED <<adapter, mail, gone>>
    BY <1>0 DEF GmailReplace
  <1>6. ideal' = [ideal EXCEPT ![d] = due]
    BY <1>0, <1>2 DEF GmailReplace, IdealEdited, DraftsInv, DraftsTypeOK
  <1>7. Stands(d)'
    <2>1. drafts'[d] = new /\ ideal'[d] = due /\ adapter' = "gmail"
      BY <1>2, <1>5, <1>6 DEF DraftsInv, DraftsTypeOK
    <2>2. CASE call[q].stale
      BY <1>5, <2>2 DEF Stands
    <2>3. CASE ~call[q].stale /\ ideal[d] = NoDraft
      BY <2>1, <2>3 DEF Stands
    <2>4. CASE ~call[q].stale /\ ideal[d] # NoDraft
      <3>1. ideal[d] \in Draft
        BY <1>2, <2>4 DEF DraftsInv, DraftsTypeOK
      <3>2. /\ due.to = ideal[d].to /\ due.place = ideal[d].place
            /\ due.subject = Replaced(ideal[d].subject, e.subject)
            /\ due.body = Replaced(ideal[d].body, e.body)
        BY <1>1, <2>4, <3>1, EditedType
      <3>3. Stands(d) /\ spoiled' = spoiled
        BY <1>2, <1>5, <2>4, StandsIsLatest DEF DraftsInv
      <3> HIDE DEF new, due
      <3> QED
        BY <1>1, <1>2, <1>3, <2>1, <2>4, <3>2, <3>3 DEF Stands
    <2> QED
      BY <2>2, <2>3, <2>4
  <1> HIDE DEF new, due
  <1>8. /\ call' \in [Req -> Call \cup {NoCall}]
        /\ \A x \in Req : call'[x] = NoCall \/ CarriesOver(x, d)
    BY <1>5, ClosesEffect DEF DraftsInv
  <1>9. DraftsTypeOK'
    BY <1>2, <1>3, <1>4, <1>5, <1>6, <1>8 DEF DraftsInv, DraftsTypeOK
  <1>10. MailAnchored' /\ Grows
    BY <1>5, MailAnchoredStays DEF DraftsInv
  <1>11. drafts'[d] = new
    BY <1>2, <1>5 DEF DraftsInv, DraftsTypeOK
  <1>12. Anchored(drafts[d].place)'
    BY <1>1, <1>2, <1>3, <1>5, <1>11 DEF Anchored
  <1>13. OnlyChanges(d)
    BY <1>2, <1>3, <1>5, <1>6, <1>11, DraftIsThere
       DEF DraftsInv, DraftsTypeOK, OnlyChanges
  <1> QED
    BY <1>1, <1>2, <1>7, <1>8, <1>9, <1>10, <1>12, <1>13, DraftChanges

LEMMA IdealEditedType ==
    ASSUME DraftsInv, NEW d \in DraftId, NEW e \in Edit
    PROVE  LET due == IF ideal[d] = NoDraft THEN NoDraft ELSE Edited(ideal[d], e)
           IN  /\ IdealEdited(d, e) = [ideal EXCEPT ![d] = due]
               /\ due \in Draft \cup {NoDraft}
  <1>1. ideal[d] \in Draft \cup {NoDraft}
    BY DEF DraftsInv, DraftsTypeOK
  <1>2. IdealEdited(d, e) =
           [ideal EXCEPT ![d] = IF ideal[d] = NoDraft THEN NoDraft
                                ELSE Edited(ideal[d], e)]
    BY DEF IdealEdited, DraftsInv, DraftsTypeOK
  <1> QED
    BY <1>1, <1>2, EditedType

(* An edit in place, by a provider or, with what only the owner can add,   *)
(* by the owner.                                                           *)
LEMMA EditInPlace ==
    ASSUME DraftsInv, NEW d \in DraftId, NEW e \in Edits, NEW extra \in BOOLEAN,
           Exists(d), call' = Noticed(d),
           UNCHANGED <<adapter, mail, gone, spoiled>>,
           drafts' = [drafts EXCEPT ![d] = [Edited(drafts[d], e) EXCEPT
                                               !.extra = @ \/ extra]],
           ideal' = [ideal EXCEPT ![d] =
                        IF ideal[d] = NoDraft THEN NoDraft
                        ELSE [Edited(ideal[d], e) EXCEPT !.extra = @ \/ extra]]
    PROVE  DraftsInv'
  <1> DEFINE With(x) == [Edited(x, e) EXCEPT !.extra = @ \/ extra]
             new == With(drafts[d])
             due == IF ideal[d] = NoDraft THEN NoDraft ELSE With(ideal[d])
  <1>1. e \in Edit /\ drafts[d] \in Draft
    BY EditsAssumption DEF DraftsInv, DraftsTypeOK, Exists
  <1>2. \A x \in Draft :
           /\ With(x) \in Draft /\ With(x).place = x.place /\ With(x).to = x.to
           /\ With(x).subject = Replaced(x.subject, e.subject)
           /\ With(x).body = Replaced(x.body, e.body)
    <2>1. ASSUME NEW x \in Draft
          PROVE  /\ With(x) \in Draft /\ With(x).place = x.place
                 /\ With(x).to = x.to
                 /\ With(x).subject = Replaced(x.subject, e.subject)
                 /\ With(x).body = Replaced(x.body, e.body)
      <3> DEFINE y == Edited(x, e)
      <3>1. /\ y \in Draft /\ y.place = x.place /\ y.to = x.to
            /\ y.subject = Replaced(x.subject, e.subject)
            /\ y.body = Replaced(x.body, e.body)
        BY <1>1, EditedType
      <3>2. With(x) = [y EXCEPT !.extra = @ \/ extra]
        OBVIOUS
      <3> HIDE DEF y, With
      <3> QED
        BY <3>1, <3>2 DEF Draft
    <2> QED
      BY <2>1
  <1>3. drafts' = [drafts EXCEPT ![d] = new] /\ ideal' = [ideal EXCEPT ![d] = due]
    OBVIOUS
  <1>4. drafts'[d] = new /\ ideal'[d] = due
    BY <1>3 DEF DraftsInv, DraftsTypeOK
  <1>5. Stands(d)'
    <2>1. CASE ideal[d] = NoDraft
      BY <1>4, <2>1 DEF Stands
    <2>2. CASE ideal[d] # NoDraft
      <3>1. ideal[d] \in Draft /\ due = With(ideal[d])
        BY <2>2 DEF DraftsInv, DraftsTypeOK
      <3>2. Stands(d)
        BY StandsIsLatest DEF DraftsInv
      <3>3. drafts[d] = ideal[d] => new = due
        BY <3>1
      <3> HIDE DEF With, new, due
      <3>4. /\ new.place = drafts[d].place /\ new.to = drafts[d].to
            /\ new.subject = Replaced(drafts[d].subject, e.subject)
            /\ new.body = Replaced(drafts[d].body, e.body)
        BY <1>1, <1>2 DEF new
      <3>5. /\ due.place = ideal[d].place /\ due.to = ideal[d].to
            /\ due.subject = Replaced(ideal[d].subject, e.subject)
            /\ due.body = Replaced(ideal[d].body, e.body)
        BY <1>2, <3>1
      <3> QED
        BY <1>4, <2>2, <3>2, <3>3, <3>4, <3>5 DEF Stands
    <2> QED
      BY <2>1, <2>2
  <1>6. new \in Draft /\ new.place = drafts[d].place
    BY <1>1, <1>2
  <1>7. due \in Draft \cup {NoDraft}
    BY <1>2 DEF DraftsInv, DraftsTypeOK
  <1> HIDE DEF With, new, due
  <1>8. /\ call' \in [Req -> Call \cup {NoCall}]
        /\ \A x \in Req : call'[x] = NoCall \/ CarriesOver(x, d)
    BY NoticedType DEF DraftsInv, CarriesOver
  <1>9. DraftsTypeOK'
    BY <1>3, <1>6, <1>7, <1>8 DEF DraftsInv, DraftsTypeOK
  <1>10. MailAnchored' /\ Grows
    BY MailAnchoredStays DEF DraftsInv
  <1>11. Anchored(drafts[d].place)'
    <2>1. Anchored(drafts[d].place) /\ drafts'[d].place = drafts[d].place
      BY <1>4, <1>6 DEF DraftsInv, DraftsAnchored
    <2> QED
      BY <2>1 DEF Anchored, ImapChain
  <1>12. OnlyChanges(d)
    BY <1>3, <1>4, <1>6, DraftIsThere DEF DraftsInv, DraftsTypeOK, OnlyChanges
  <1> QED
    BY <1>4, <1>5, <1>6, <1>8, <1>9, <1>10, <1>11, <1>12, DraftChanges

LEMMA UpdateInPlaceKeeps ==
    ASSUME DraftsInv, NEW d \in DraftId, NEW e \in Edits, UpdateInPlace(d, e)
    PROVE  DraftsInv'
  <1>1. e \in Edit /\ drafts[d] \in Draft
    BY EditsAssumption DEF UpdateInPlace, DraftsInv, DraftsTypeOK, Exists
  <1>2. \A x \in Draft :
           [Edited(x, e) EXCEPT !.extra = @ \/ FALSE] = Edited(x, e)
    <2>1. \A y \in Draft : [y EXCEPT !.extra = @ \/ FALSE] = y
      BY DEF Draft
    <2> QED
      BY <1>1, <2>1, EditedType
  <1>3. ideal[d] = NoDraft \/ ideal[d] \in Draft
    BY DEF DraftsInv, DraftsTypeOK
  <1>4. /\ drafts' = [drafts EXCEPT ![d] = Edited(drafts[d], e)]
        /\ ideal' = [ideal EXCEPT ![d] = IF ideal[d] = NoDraft THEN NoDraft
                                         ELSE Edited(ideal[d], e)]
    BY <1>1, IdealEditedType DEF UpdateInPlace
  <1>5. /\ Exists(d) /\ call' = Noticed(d)
        /\ UNCHANGED <<adapter, mail, gone, spoiled>>
    BY DEF UpdateInPlace
  <1>6. /\ drafts' = [drafts EXCEPT ![d] = [Edited(drafts[d], e) EXCEPT
                                               !.extra = @ \/ FALSE]]
        /\ ideal' = [ideal EXCEPT ![d] =
                        IF ideal[d] = NoDraft THEN NoDraft
                        ELSE [Edited(ideal[d], e) EXCEPT !.extra = @ \/ FALSE]]
    BY <1>1, <1>2, <1>3, <1>4
  <1> QED
    BY <1>5, <1>6, EditInPlace

LEMMA OwnerEditsKeeps ==
    ASSUME DraftsInv, NEW d \in DraftId, NEW e \in Edits, OwnerEdits(d, e)
    PROVE  DraftsInv'
  <1>1. e \in Edit /\ drafts[d] \in Draft
    BY EditsAssumption DEF OwnerEdits, DraftsInv, DraftsTypeOK, Exists
  <1>2. \A x \in Draft : [Edited(x, e) EXCEPT !.extra = @ \/ TRUE] =
                            [Edited(x, e) EXCEPT !.extra = TRUE]
    OBVIOUS
  <1>3. ideal[d] = NoDraft \/ ideal[d] \in Draft
    BY DEF DraftsInv, DraftsTypeOK
  <1>4. ideal' = [ideal EXCEPT ![d] =
                     IF ideal[d] = NoDraft THEN NoDraft
                     ELSE [Edited(ideal[d], e) EXCEPT !.extra = TRUE]]
    BY <1>1 DEF OwnerEdits, DraftsInv, DraftsTypeOK
  <1>5. /\ Exists(d) /\ call' = Noticed(d)
        /\ UNCHANGED <<adapter, mail, gone, spoiled>>
        /\ drafts' = [drafts EXCEPT ![d] = [Edited(drafts[d], e) EXCEPT
                                               !.extra = TRUE]]
    BY DEF OwnerEdits
  <1>6. /\ drafts' = [drafts EXCEPT ![d] = [Edited(drafts[d], e) EXCEPT
                                               !.extra = @ \/ TRUE]]
        /\ ideal' = [ideal EXCEPT ![d] =
                        IF ideal[d] = NoDraft THEN NoDraft
                        ELSE [Edited(ideal[d], e) EXCEPT !.extra = @ \/ TRUE]]
    BY <1>1, <1>2, <1>3, <1>4, <1>5
  <1> QED
    BY <1>5, <1>6, EditInPlace

(* A message joins the mailbox.                                            *)
LEMMA MailGrows ==
    ASSUME DraftsInv, NEW new \in Message, Len(mail) < MaxMail,
           mail' = Append(mail, new), adapter' = adapter,
           Anchored(new.place), adapter # "fake" => new.place.thread # None
    PROVE  /\ Grows /\ MailAnchored'
           /\ mail' \in Seq(Message) /\ Len(mail') <= MaxMail
           /\ DOMAIN mail' = DOMAIN mail \cup {Len(mail) + 1}
           /\ Len(mail') = Len(mail) + 1
  <1>1. /\ mail' \in Seq(Message) /\ Len(mail') = Len(mail) + 1
        /\ \A m \in 1..Len(mail) : mail'[m] = mail[m]
        /\ mail'[Len(mail) + 1] = new
    BY AppendProperties DEF DraftsInv, DraftsTypeOK
  <1>2. /\ Len(mail) \in Nat /\ DOMAIN mail = 1..Len(mail)
        /\ DOMAIN mail' = 1..(Len(mail) + 1)
    BY <1>1, MailFacts, LenProperties DEF DraftsInv
  <1>3. Grows
    BY <1>1, <1>2 DEF Grows
  <1>4. ASSUME NEW m \in DOMAIN mail'
        PROVE  /\ Anchored(mail[m].place)'
               /\ adapter' # "fake" => mail'[m].place.thread # None
    <2>1. CASE m \in DOMAIN mail
      <3>1. /\ Anchored(mail[m].place) /\ mail'[m] = mail[m]
            /\ adapter # "fake" => mail[m].place.thread # None
        BY <1>3, <2>1 DEF DraftsInv, MailAnchored, Grows
      <3> QED
        BY <1>3, <3>1, AnchoredStays DEF Anchored, ImapChain
    <2>2. CASE m = Len(mail) + 1
      <3>1. mail'[m] = new
        BY <1>1, <2>2
      <3> QED
        BY <1>3, <3>1, AnchoredStays DEF Anchored, ImapChain
    <2> QED
      BY <1>2, <2>1, <2>2
  <1> QED
    BY <1>1, <1>2, <1>3, <1>4, MaxMailAssumption DEF MailAnchored

(* What a draft that leaves changes, besides the messages.                 *)
LEMMA LeavesEffect ==
    ASSUME DraftsInv, NEW d \in DraftId, Leaves(d), adapter' = adapter
    PROVE  /\ drafts[d] \in Draft /\ Exists(d) /\ ~Exists(d)'
           /\ drafts' \in [DraftId -> Draft \cup {NoDraft, GoneDraft}]
           /\ ideal' \in [DraftId -> Draft \cup {NoDraft}]
           /\ spoiled' \subseteq DraftId
           /\ call' \in [Req -> Call \cup {NoCall}]
           /\ \A x \in Req : call'[x] = NoCall \/ CarriesOver(x, d)
           /\ OnlyChanges(d) /\ Stands(d)'
  <1>1. /\ Exists(d)
        /\ drafts' = [drafts EXCEPT ![d] = GoneDraft]
        /\ ideal' = [ideal EXCEPT ![d] = NoDraft]
        /\ spoiled' = spoiled \ {d}
        /\ call' = Noticed(d)
    BY DEF Leaves
  <1>2. /\ call' \in [Req -> Call \cup {NoCall}]
        /\ \A x \in Req : call'[x] = NoCall \/ CarriesOver(x, d)
    BY <1>1, NoticedType DEF DraftsInv, CarriesOver
  <1>3. drafts'[d] = GoneDraft /\ drafts[d] \in Draft
    BY <1>1 DEF DraftsInv, DraftsTypeOK, Exists
  <1> QED
    BY <1>1, <1>2, <1>3, NoDraftAssumption
       DEF DraftsInv, DraftsTypeOK, OnlyChanges, Stands, Exists

LEMMA SendKeeps ==
    ASSUME DraftsInv, NEW d \in DraftId, Send(d)
    PROVE  DraftsInv'
  <1> DEFINE place == drafts[d].place
  <1>1. /\ Leaves(d) /\ Len(mail) < MaxMail
        /\ mail' = Append(mail, Filed(place)) /\ UNCHANGED <<adapter, gone>>
    BY DEF Send
  <1>2. /\ drafts[d] \in Draft /\ Exists(d) /\ ~Exists(d)'
        /\ drafts' \in [DraftId -> Draft \cup {NoDraft, GoneDraft}]
        /\ ideal' \in [DraftId -> Draft \cup {NoDraft}]
        /\ spoiled' \subseteq DraftId
        /\ call' \in [Req -> Call \cup {NoCall}]
        /\ \A x \in Req : call'[x] = NoCall \/ CarriesOver(x, d)
        /\ OnlyChanges(d) /\ Stands(d)'
    BY <1>1, LeavesEffect
  <1>3. place \in Place /\ Anchored(place)
    BY <1>2 DEF Draft, DraftsInv, DraftsAnchored
  <1>4. place.origin # None /\ adapter # "fake" => place.thread # None
    BY <1>3 DEF Anchored, DraftsInv, MailAnchored
  <1> HIDE DEF place
  <1>5. /\ Filed(place) \in Message
        /\ Filed(place).place.origin = place.origin
        /\ place.thread # None => Filed(place).place = place
        /\ adapter # "fake" => Filed(place).place.thread # None
    BY <1>1, <1>3, FiledType DEF DraftsInv
  <1>6. Anchored(Filed(place).place)
    <2>1. CASE place.origin = None
      BY <1>5, <2>1 DEF Anchored
    <2>2. CASE place.origin # None
      <3>1. Filed(place).place = place
        BY <1>4, <1>5, <2>2 DEF Filed
      <3> QED
        BY <1>3, <3>1
    <2> QED
      BY <2>1, <2>2
  <1>7. /\ Grows /\ MailAnchored'
        /\ mail' \in Seq(Message) /\ Len(mail') <= MaxMail
        /\ DOMAIN mail \subseteq DOMAIN mail'
    BY <1>1, <1>5, <1>6, MailGrows
  <1>8. DraftsTypeOK'
    BY <1>1, <1>2, <1>7 DEF DraftsInv, DraftsTypeOK
  <1> QED
    BY <1>2, <1>7, <1>8, DraftChanges

LEMMA OwnerDeletesDraftKeeps ==
    ASSUME DraftsInv, NEW d \in DraftId, OwnerDeletesDraft(d)
    PROVE  DraftsInv'
  <1>1. Leaves(d) /\ UNCHANGED <<adapter, mail, gone>>
    BY DEF OwnerDeletesDraft
  <1>2. /\ drafts[d] \in Draft /\ Exists(d) /\ ~Exists(d)'
        /\ drafts' \in [DraftId -> Draft \cup {NoDraft, GoneDraft}]
        /\ ideal' \in [DraftId -> Draft \cup {NoDraft}]
        /\ spoiled' \subseteq DraftId
        /\ call' \in [Req -> Call \cup {NoCall}]
        /\ \A x \in Req : call'[x] = NoCall \/ CarriesOver(x, d)
        /\ OnlyChanges(d) /\ Stands(d)'
    BY <1>1, LeavesEffect
  <1>3. MailAnchored' /\ Grows
    BY <1>1, MailAnchoredStays DEF DraftsInv
  <1>4. DraftsTypeOK'
    BY <1>1, <1>2 DEF DraftsInv, DraftsTypeOK
  <1> QED
    BY <1>2, <1>3, <1>4, DraftChanges

LEMMA ArriveKeeps ==
    ASSUME DraftsInv, NEW at \in {"inbox", "sent"}, NEW m \in Id,
           NEW chained \in BOOLEAN, Arrive(at, m, chained)
    PROVE  DraftsInv'
  <1> DEFINE place ==
               IF m = None
               THEN [NoPlace EXCEPT !.thread = Len(mail) + 1]
               ELSE [thread |-> mail[m].place.thread, parent |-> m,
                     refs |-> IF chained THEN Chain(m) ELSE <<>>,
                     origin |-> None]
             new == [at |-> at, place |-> place]
  <1>1. /\ Len(mail) < MaxMail /\ m \in DOMAIN mail \cup {None}
        /\ mail' = Append(mail, new) /\ adapter # "fake"
        /\ UNCHANGED <<adapter, gone, drafts, call, ideal, spoiled>>
    BY DEF Arrive
  <1>2. place \in Place /\ place.origin = None /\ place.thread # None
    <2>1. CASE m = None
      <3>1. Len(mail) + 1 \in Id \ {None}
        BY <1>1, MailFacts, MaxMailAssumption DEF Id, None, DraftsInv
      <3> QED
        BY <2>1, <3>1, NoPlaceType DEF NoPlace, Place
    <2>2. CASE m # None
      <3>1. /\ m \in DOMAIN mail /\ Chain(m) \in Seq(Id)
            /\ mail[m].place.thread \in Id \ {None}
        BY <1>1, <2>2, MailFacts, ChainTypes
           DEF DraftsInv, MailAnchored, Message, Place
      <3>2. <<>> \in Seq(Id) /\ None \in Id
        BY EmptySeq, MaxMailAssumption DEF Id, None
      <3> QED
        BY <2>2, <3>1, <3>2 DEF Place
    <2> QED
      BY <2>1, <2>2
  <1> HIDE DEF place
  <1>3. new \in Message /\ new.place = place
    BY <1>2 DEF Message
  <1> HIDE DEF new
  <1>4. Anchored(new.place)
    BY <1>2, <1>3 DEF Anchored
  <1>5. /\ Grows /\ MailAnchored'
        /\ mail' \in Seq(Message) /\ Len(mail') <= MaxMail
        /\ DOMAIN mail \subseteq DOMAIN mail'
    BY <1>1, <1>2, <1>3, <1>4, MailGrows
  <1>6. DraftsTypeOK'
    BY <1>1, <1>5 DEF DraftsInv, DraftsTypeOK
  <1> QED
    BY <1>1, <1>5, <1>6, DraftsStay

LEMMA OwnerDeletesMailKeeps ==
    ASSUME DraftsInv, NEW m \in Id, OwnerDeletesMail(m)
    PROVE  DraftsInv'
  <1>1. /\ m \in DOMAIN mail /\ gone' = gone \cup {m}
        /\ UNCHANGED <<adapter, mail, drafts, call, ideal, spoiled>>
    BY DEF OwnerDeletesMail, Present
  <1>2. MailAnchored' /\ Grows
    BY <1>1, MailAnchoredStays DEF DraftsInv
  <1>3. DraftsTypeOK'
    BY <1>1 DEF DraftsInv, DraftsTypeOK
  <1> QED
    BY <1>1, <1>2, <1>3, DraftsStay

LEMMA FailsKeeps ==
    ASSUME DraftsInv, NEW q \in Req, Fails(q)
    PROVE  DraftsInv'
  <1>1. /\ call' = [call EXCEPT ![q] = NoCall]
        /\ UNCHANGED <<adapter, mail, gone, drafts, ideal, spoiled>>
    BY DEF Fails
  <1>2. MailAnchored' /\ Grows
    BY <1>1, MailAnchoredStays DEF DraftsInv
  <1>3. /\ call' \in [Req -> Call \cup {NoCall}]
        /\ \A x \in Req : call'[x] = NoCall \/ call'[x] = call[x]
    BY <1>1 DEF DraftsInv, DraftsTypeOK
  <1>4. DraftsTypeOK'
    BY <1>1, <1>3 DEF DraftsInv, DraftsTypeOK
  <1> QED
    BY <1>1, <1>2, <1>3, <1>4, DraftsStay

LEMMA DraftsStutter ==
    ASSUME DraftsInv, UNCHANGED draftVars
    PROVE  DraftsInv'
  <1>1. UNCHANGED <<adapter, mail, gone, drafts, call, ideal, spoiled>>
    BY DEF draftVars
  <1>2. MailAnchored' /\ Grows
    BY <1>1, MailAnchoredStays DEF DraftsInv
  <1>3. DraftsTypeOK'
    BY <1>1 DEF DraftsInv, DraftsTypeOK
  <1> QED
    BY <1>1, <1>2, <1>3, DraftsStay

LEMMA DraftsStart ==
    ASSUME DraftsInit
    PROVE  DraftsInv
  <1> DEFINE place == [NoPlace EXCEPT !.thread = 1]
  <1>1. First \in Message /\ Second \in Message
    <2>1. 1 \in Id
      BY MaxMailAssumption DEF Id
    <2>2. place \in Place
      BY <2>1, NoPlaceType DEF Place
    <2> HIDE DEF place
    <2>3. First = [at |-> "inbox", place |-> place]
      BY DEF First, place
    <2>4. First \in Message
      BY <2>2, <2>3 DEF Message
    <2>5. Second \in Message
      BY <2>4 DEF Second, Message
    <2> QED
      BY <2>4, <2>5
  <1>2. /\ mail \in Seq(Message) /\ Len(mail) <= 2
        /\ \A m \in DOMAIN mail : mail[m] \in {First, Second}
    BY <1>1, MaxMailAssumption DEF DraftsInit
  <1>3. DraftsTypeOK
    BY <1>2, AdapterAssumption, MaxMailAssumption DEF DraftsInit, DraftsTypeOK
  <1>4. /\ First.place.origin = None /\ First.place.thread = 1
        /\ Second.place.origin = None /\ Second.place.thread = 1
    BY DEF First, Second, NoPlace, None
  <1>5. MailAnchored
    BY <1>2, <1>4 DEF MailAnchored, Anchored, None
  <1> QED
    BY <1>3, <1>5
       DEF DraftsInit, DraftsInv, DraftsAnchored, CallsOK, CallOK, Goes,
           Unmade, LatestEditStands, Settled, Exists

(* Every step of ProviderDrafts.                                           *)
LEMMA DraftsStep ==
    ASSUME DraftsInv, DraftsNext
    PROVE  DraftsInv'
  <1>1. ASSUME NEW q \in Req, NEW d \in DraftId, Create(q, d)
        PROVE  DraftsInv'
    BY <1>1, CreateReplyKeeps, CreateAtOnceKeeps, ReadOriginalKeeps,
       GraphCreateReplyKeeps DEF Create
  <1>2. ASSUME NEW q \in Req, NEW d \in DraftId, Update(q, d)
        PROVE  DraftsInv'
    BY <1>2, GmailReadKeeps, UpdateInPlaceKeeps DEF Update
  <1>3. ASSUME NEW q \in Req, Provider(q)
        PROVE  DraftsInv'
    BY <1>1, <1>2, <1>3, SendKeeps, GraphOverwriteKeeps, GmailReplaceKeeps,
       FailsKeeps DEF Provider
  <1>4. CASE Owner
    BY <1>4, ArriveKeeps, OwnerDeletesMailKeeps, OwnerDeletesDraftKeeps,
       OwnerEditsKeeps DEF Owner
  <1> QED
    BY <1>3, <1>4 DEF DraftsNext

----------------------------------------------------------------------------
(* Threads.                                                                *)
LEMMA ThreadOfType ==
    ASSUME DraftsTypeOK, NEW m \in DOMAIN mail
    PROVE  /\ ThreadOf(m) \in Id
           /\ adapter # "imap" => ThreadOf(m) = mail[m].place.thread
           /\ adapter = "imap" /\ mail[m].place.refs # <<>> =>
                 ThreadOf(m) = Head(mail[m].place.refs)
           /\ adapter = "imap" /\ Threaded(m) /\ mail[m].place.refs = <<>> =>
                 ThreadOf(m) = m
  <1>1. /\ m \in Id /\ mail[m].place.refs \in Seq(Id)
        /\ mail[m].place.parent \in Id /\ mail[m].place.thread \in Id
    BY MailFacts DEF Message, Place
  <1>2. mail[m].place.refs # <<>> => Head(mail[m].place.refs) \in Id
    BY <1>1
  <1>3. CASE adapter # "imap"
    BY <1>1, <1>3 DEF ThreadOf
  <1>4. CASE adapter = "imap" /\ mail[m].place.refs # <<>>
    BY <1>2, <1>4 DEF ThreadOf
  <1>5. CASE adapter = "imap" /\ mail[m].place.refs = <<>>
    <2>1. CASE mail[m].place.parent = None
      BY <1>1, <1>5, <2>1 DEF ThreadOf
    <2>2. CASE mail[m].place.parent # None
      BY <1>1, <1>5, <2>2 DEF ThreadOf, Threaded
    <2> QED
      BY <2>1, <2>2
  <1> QED
    BY <1>3, <1>4, <1>5

LEMMA ShownInThread ==
    ASSUME DraftsTypeOK, NEW m \in DOMAIN mail, Threaded(m)
    PROVE  InThread(ThreadOf(m), m)
  <1>1. mail[m].place.refs \in Seq(Id)
    BY MailFacts DEF Message, Place
  <1>2. mail[m].place.refs # <<>> =>
           /\ 1 \in DOMAIN mail[m].place.refs
           /\ Head(mail[m].place.refs) = mail[m].place.refs[1]
    BY <1>1
  <1> QED
    BY <1>2, ThreadOfType DEF InThread

(* A reply is where it was made.                                           *)
LEMMA AnchoredInThread ==
    ASSUME DraftsInv
    PROVE  ReplyStaysInThread
  <1> SUFFICES ASSUME NEW m \in DOMAIN mail, NEW o, o = mail[m].place.origin,
                      o # None, Threaded(o), ThreadOf(o) # None
               PROVE  InThread(ThreadOf(o), m)
    BY DEF ReplyStaysInThread
  <1>1. /\ o \in DOMAIN mail
        /\ mail[m].place.thread = mail[o].place.thread
        /\ adapter = "imap" => mail[m].place.refs = Append(mail[o].place.refs, o)
    BY DEF DraftsInv, MailAnchored, Anchored, ImapChain
  <1>2. CASE adapter # "imap"
    BY <1>1, <1>2, ThreadOfType DEF InThread, DraftsInv
  <1>3. CASE adapter = "imap"
    <2> DEFINE refs == mail[o].place.refs
    <2>1. refs \in Seq(Id) /\ o \in Id
      BY <1>1, MailFacts DEF DraftsInv, Message, Place
    <2> HIDE DEF refs
    <2>2. 1 \in DOMAIN Append(refs, o)
      <3>1. Append(refs, o) \in Seq(Id) /\ Len(Append(refs, o)) = Len(refs) + 1
        BY <2>1, AppendProperties
      <3> QED
        BY <2>1, <3>1, LenProperties
    <2>3. Append(refs, o)[1] = ThreadOf(o)
      <3>1. CASE refs = <<>>
        <4>1. ThreadOf(o) = o
          BY <1>1, <1>3, <3>1, ThreadOfType DEF refs, DraftsInv
        <4> QED
          BY <3>1, <4>1
      <3>2. CASE refs # <<>>
        <4>1. ThreadOf(o) = Head(refs)
          BY <1>1, <1>3, <3>2, ThreadOfType DEF refs, DraftsInv
        <4>2. Head(refs) = refs[1] /\ Append(refs, o)[1] = refs[1]
          BY <2>1, <3>2
        <4> QED
          BY <4>1, <4>2
      <3> QED
        BY <3>1, <3>2
    <2> QED
      BY <1>1, <1>3, <2>2, <2>3 DEF InThread, refs
  <1> QED
    BY <1>2, <1>3

LEMMA InThreadStays ==
    ASSUME Grows, NEW t
    PROVE  \A m \in DOMAIN mail : InThread(t, m)' <=> InThread(t, m)
  BY DEF Grows, InThread

(* A draft's step adds messages, and the owner deletes some.               *)
LEMMA DraftsGrow ==
    ASSUME DraftsInv, DraftsNext
    PROVE  Grows /\ gone \subseteq gone'
  <1>1. adapter' = adapter /\ gone \subseteq gone'
        /\ (mail' = mail \/ \E x : mail' = Append(mail, x))
    <2>1. CASE Owner
      BY <2>1 DEF Owner, Arrive, OwnerDeletesMail, OwnerDeletesDraft, OwnerEdits
    <2>2. ASSUME NEW q \in Req, Provider(q)
          PROVE  adapter' = adapter /\ gone \subseteq gone'
                 /\ (mail' = mail \/ \E x : mail' = Append(mail, x))
      BY <2>2 DEF Provider, Create, Update, Send, GraphOverwrite, GmailReplace,
            Fails, CreateReply, CreateAtOnce, ReadOriginal, GraphCreateReply,
            GmailRead, UpdateInPlace
    <2> QED
      BY <2>1, <2>2 DEF DraftsNext
  <1>2. ASSUME NEW x, mail' = Append(mail, x)
        PROVE  DOMAIN mail \subseteq DOMAIN mail'
               /\ \A m \in DOMAIN mail : mail'[m] = mail[m]
    <2>1. mail \in Seq(Message \cup {x}) /\ x \in Message \cup {x}
      BY DEF DraftsInv, DraftsTypeOK
    <2>2. /\ Append(mail, x) \in Seq(Message \cup {x})
          /\ Len(Append(mail, x)) = Len(mail) + 1
          /\ \A m \in 1..Len(mail) : Append(mail, x)[m] = mail[m]
      BY <2>1, AppendProperties
    <2>3. /\ DOMAIN mail = 1..Len(mail) /\ Len(mail) \in Nat
          /\ DOMAIN Append(mail, x) = 1..(Len(mail) + 1)
      BY <2>1, <2>2, LenProperties
    <2> QED
      BY <1>2, <2>2, <2>3
  <1> QED
    BY <1>1, <1>2 DEF Grows

----------------------------------------------------------------------------
(* The reading calls, of the record of one: each request leaves it right.  *)
LEMMA PresentIds ==
    ASSUME DraftsTypeOK
    PROVE  Present \subseteq DOMAIN mail /\ Present \subseteq Id
           /\ None \notin DOMAIN mail /\ Id \subseteq Nat
  BY MailFacts, MaxMailAssumption DEF Present, Id, None

LEMMA BeginReads ==
    ASSUME DraftsInv, NEW op \in {"search", "thread", "email", "attachment"},
           NEW pc \in {"list", "fetch"}, NEW arg \in Nat, NEW part \in Nat,
           NEW todo \in SUBSET Id,
           todo = IF op = "email" THEN {arg} ELSE {},
           op # "email" => pc = "list",
           op = "attachment" => part \in DOMAIN Parts
    PROVE  ReadOK([op |-> op, pc |-> pc, arg |-> arg, part |-> part,
                   named |-> 0, folder |-> "inbox", todo |-> todo,
                   found |-> {}, throughout |-> Present,
                   sometime |-> Present])
  <1> DEFINE c == [op |-> op, pc |-> pc, arg |-> arg, part |-> part,
                   named |-> 0, folder |-> "inbox", todo |-> todo,
                   found |-> {}, throughout |-> Present,
                   sometime |-> Present]
  <1>1. Present \subseteq DOMAIN mail /\ Present \subseteq Id
    BY PresentIds DEF DraftsInv
  <1>2. c \in Read
    BY <1>1 DEF Read
  <1>3. /\ c.op = op /\ c.pc = pc /\ c.arg = arg /\ c.part = part
        /\ c.folder = "inbox" /\ c.todo = todo /\ c.found = {}
        /\ c.throughout = Present /\ c.sometime = Present
    OBVIOUS
  <1> HIDE DEF c
  <1>4. WitnessOK(c)
    BY <1>1, <1>3 DEF WitnessOK
  <1>5. SearchOK(c) /\ ThreadOK(c) /\ AttachmentOK(c) /\ TruthOK(c)
    BY <1>3 DEF SearchOK, ThreadOK, AttachmentOK, TruthOK
  <1> QED
    BY <1>2, <1>4, <1>5 DEF ReadOK, c

(* The order of a search's answer is one of numbers.                       *)
LEMMA BeforeIsAnOrder ==
    \E k \in [Id -> Int] :
        /\ \A x, y \in Id : k[x] = k[y] => x = y
        /\ \A x, m \in Id : Before(x, m) <=> k[x] < k[m]
  <1>1. Id \subseteq Nat /\ 1 \in Id /\ 2 \in Id
    BY MaxMailAssumption DEF Id
  <1>2. CASE adapter = "fake"
    <2> DEFINE k == [x \in Id |-> IF x \in {1, 2} THEN x - 3 ELSE -x]
    <2>1. k \in [Id -> Int] /\ \A x, y \in Id : k[x] = k[y] => x = y
      BY <1>1, MaxMailAssumption DEF Id
    <2>2. ASSUME NEW x \in Id, NEW m \in Id
          PROVE  Before(x, m) <=> k[x] < k[m]
      BY <1>1, <1>2, MaxMailAssumption DEF Id, Before
    <2> QED
      BY <2>1, <2>2
  <1>3. CASE adapter # "fake"
    <2> DEFINE k == [x \in Id |-> -x]
    <2>1. k \in [Id -> Int] /\ \A x, y \in Id : k[x] = k[y] => x = y
      BY <1>1
    <2>2. \A x, m \in Id : Before(x, m) <=> k[x] < k[m]
      BY <1>1, <1>3 DEF Before
    <2> QED
      BY <2>1, <2>2
  <1> QED
    BY <1>2, <1>3

LEMMA MailIsFinite ==
    ASSUME NEW S \in SUBSET Id
    PROVE  IsFiniteSet(S)
  <1>1. IsFiniteSet(0..MaxMail)
    BY FS_Interval, MaxMailAssumption
  <1>2. S \subseteq 0..MaxMail
    BY MaxMailAssumption DEF Id
  <1> QED
    BY <1>1, <1>2, FS_Subset

LEMMA NewestOnes ==
    ASSUME NEW S \in SUBSET Id, NEW n \in Nat, NEW page, page = Newest(S, n)
    PROVE  /\ page \subseteq S /\ Cardinality(page) <= n
           /\ \A m \in S \ page :
                 Cardinality({x \in page : Before(x, m)}) = n
  <1>1. PICK order \in [Id -> Int] :
           /\ \A x, y \in Id : order[x] = order[y] => x = y
           /\ \A x, m \in Id : Before(x, m) <=> order[x] < order[m]
    BY BeforeIsAnOrder
  <1> DEFINE k == [x \in S |-> order[x]]
  <1>2. k \in [S -> Int] /\ \A x, y \in S : k[x] = k[y] => x = y
    BY <1>1
  <1>3. \A T \in SUBSET S : \A m \in S :
           {x \in T : Before(x, m)} = {x \in T : k[x] < k[m]}
    BY <1>1
  <1>4. page = {m \in S : Cardinality({x \in S : k[x] < k[m]}) < n}
    <2>1. \A m \in S :
             {x \in S : Before(x, m)} = {x \in S : k[x] < k[m]}
      BY <1>3
    <2> HIDE DEF k
    <2> QED
      BY <2>1 DEF Newest
  <1> HIDE DEF k
  <1>6. IsFiniteSet(S)
    BY MailIsFinite
  <1>5. /\ page \subseteq S /\ Cardinality(page) <= n
        /\ \A m \in S \ page : Cardinality({x \in page : k[x] < k[m]}) = n
    <2>1. page = FirstFew(S, k, n)
      BY <1>4 DEF FirstFew
    <2> QED
      BY <1>2, <1>6, <2>1, FirstOnes
  <1> QED
    BY <1>3, <1>5

LEMMA FirstPageOnes ==
    ASSUME NEW S \in SUBSET Id, NEW page, page = FirstPage(S)
    PROVE  /\ page \subseteq S
           /\ \A m \in S \ page : Cardinality({x \in page : x < m}) = Page
  <1> DEFINE k == [x \in S |-> x]
  <1>1. k \in [S -> Int] /\ \A x, y \in S : k[x] = k[y] => x = y
    BY MaxMailAssumption DEF Id
  <1>2. \A T \in SUBSET S : \A m \in S :
           {x \in T : x < m} = {x \in T : k[x] < k[m]}
    OBVIOUS
  <1>3. page = {m \in S : Cardinality({x \in S : k[x] < k[m]}) < Page}
    <2>1. \A m \in S : {x \in S : x < m} = {x \in S : k[x] < k[m]}
      BY <1>2
    <2> HIDE DEF k
    <2> QED
      BY <2>1 DEF FirstPage
  <1> HIDE DEF k
  <1>4. /\ page \subseteq S
        /\ \A m \in S \ page : Cardinality({x \in page : k[x] < k[m]}) = Page
    <2>1. IsFiniteSet(S)
      BY MailIsFinite
    <2>2. Page \in Nat
      BY MaxLimitAssumption
    <2>3. page = FirstFew(S, k, Page)
      BY <1>3 DEF FirstFew
    <2> QED
      BY <1>1, <2>1, <2>2, <2>3, FirstOnes
  <1> QED
    BY <1>2, <1>4

LEMMA SearchReads ==
    ASSUME DraftsInv, NEW c \in Read, ReadOK(c), c.op = "search",
           c.pc = "list", NEW hits, hits = Newest(Searched, c.arg)
    PROVE  /\ ReadOK([c EXCEPT !.pc = "fetch", !.todo = hits])
           /\ ReadOK([c EXCEPT !.pc = "ok", !.found = hits])
  <1>1. Searched \subseteq Present /\ Present \subseteq Id /\ c.arg \in Nat
    BY PresentIds DEF DraftsInv, Searched, Read
  <1>2. /\ hits \subseteq Searched /\ Cardinality(hits) <= c.arg
        /\ \A m \in Searched \ hits :
              Cardinality({x \in hits : Before(x, m)}) = c.arg
    BY <1>1, NewestOnes
  <1>3. /\ c.throughout \subseteq Present /\ Present \subseteq c.sometime
        /\ c.throughout \subseteq DOMAIN mail /\ c.sometime \subseteq DOMAIN mail
        /\ c.found = {} /\ c.todo = {}
    BY DEF ReadOK, WitnessOK, SearchOK, GoesOn
  <1>4. \A m \in c.throughout :
           (adapter = "imap" => mail[m].at = "inbox") => m \in Searched
    BY <1>3 DEF Searched
  <1>5. ASSUME NEW new \in Read, new.op = "search", new.arg = c.arg,
               new.pc \in {"fetch", "ok"}, new.found \cup new.todo = hits,
               new.pc = "ok" => new.todo = {},
               new.throughout = c.throughout, new.sometime = c.sometime
        PROVE  ReadOK(new)
    <2>1. new.found \subseteq hits /\ new.todo \subseteq hits
      BY <1>5
    <2>2. WitnessOK(new)
      BY <1>1, <1>2, <1>3, <1>5, <2>1 DEF WitnessOK
    <2>3. SearchOK(new)
      BY <1>2, <1>4, <1>5 DEF SearchOK
    <2> QED
      BY <1>5, <2>2, <2>3 DEF ReadOK, ThreadOK, AttachmentOK, TruthOK
  <1>6. hits \subseteq Id
    BY <1>1, <1>2
  <1>7. ReadOK([c EXCEPT !.pc = "fetch", !.todo = hits])
    <2> DEFINE new == [c EXCEPT !.pc = "fetch", !.todo = hits]
    <2>1. /\ new \in Read /\ new.op = "search" /\ new.arg = c.arg
          /\ new.pc = "fetch" /\ new.found \cup new.todo = hits
          /\ new.throughout = c.throughout /\ new.sometime = c.sometime
      BY <1>3, <1>6 DEF Read
    <2> HIDE DEF new
    <2>2. ReadOK(new)
      BY <1>5, <2>1
    <2> QED
      BY <2>2 DEF new
  <1>8. ReadOK([c EXCEPT !.pc = "ok", !.found = hits])
    <2> DEFINE new == [c EXCEPT !.pc = "ok", !.found = hits]
    <2>1. /\ new \in Read /\ new.op = "search" /\ new.arg = c.arg
          /\ new.pc = "ok" /\ new.found \cup new.todo = hits /\ new.todo = {}
          /\ new.throughout = c.throughout /\ new.sometime = c.sometime
      BY <1>3, <1>6 DEF Read
    <2> HIDE DEF new
    <2>2. ReadOK(new)
      BY <1>5, <2>1
    <2> QED
      BY <2>2 DEF new
  <1> QED
    BY <1>7, <1>8

(* IMAP lists the folder it is at, the others the thread.                  *)
LEMMA ThreadReads ==
    ASSUME DraftsInv, NEW c \in Read, ReadOK(c), c.op = "thread",
           c.pc = "list", NEW hits,
           hits = {m \in Present : InThread(c.arg, m)}
    PROVE  /\ adapter = "imap" =>
                 ReadOK([c EXCEPT !.pc = "fetch",
                            !.todo = {m \in hits : mail[m].at = c.folder}])
           /\ adapter # "imap" =>
                 ReadOK([c EXCEPT !.pc = IF hits = {} /\ adapter # "graph"
                                         THEN "not_found" ELSE "ok",
                                  !.found = IF adapter = "graph"
                                            THEN FirstPage(hits) ELSE hits])
  <1>1. /\ Present \subseteq DOMAIN mail /\ Present \subseteq Id
        /\ \A m \in Present : mail[m].at \in {"inbox", "sent"}
    BY PresentIds, MailFacts DEF DraftsInv, Message
  <1>2. /\ c.folder \in {"inbox", "sent"}
        /\ c.throughout \subseteq Present /\ Present \subseteq c.sometime
    BY DEF ReadOK, Read, WitnessOK, GoesOn
  <1>3. Due(c) \subseteq hits
    BY <1>2 DEF Due
  <1>4. ASSUME adapter = "imap"
        PROVE  ReadOK([c EXCEPT !.pc = "fetch",
                          !.todo = {m \in hits : mail[m].at = c.folder}])
    <2> DEFINE todo == {m \in hits : mail[m].at = c.folder}
               new == [c EXCEPT !.pc = "fetch", !.todo = todo]
    <2>1. /\ todo \subseteq Present
          /\ \A m \in Due(c) : mail[m].at = c.folder => m \in todo
      BY <1>3
    <2> HIDE DEF todo
    <2>2. /\ new \in Read /\ new.pc = "fetch" /\ new.todo = todo
          /\ new.op = "thread" /\ new.folder = c.folder /\ new.arg = c.arg
          /\ new.found = c.found /\ new.throughout = c.throughout
          /\ new.sometime = c.sometime
      BY <1>1, <2>1 DEF Read
    <2> HIDE DEF new
    <2>3. Due(new) = Due(c)
      BY <2>2 DEF Due
    <2>4. ThreadOK(new)
      <3>1. ASSUME NEW m \in Due(c)
            PROVE  (c.folder = "inbox" /\ mail[m].at = "sent")
                       \/ m \in c.found \cup todo
        <4>1. c.folder = "inbox" \/ mail[m].at = "sent" \/ m \in c.found
          BY DEF ReadOK, ThreadOK
        <4>2. mail[m].at \in {"inbox", "sent"}
          BY <1>1, <1>3
        <4> QED
          BY <1>2, <2>1, <4>1, <4>2
      <3> QED
        BY <2>2, <2>3, <3>1 DEF ThreadOK
    <2> QED
      BY <1>1, <1>2, <2>1, <2>2, <2>4
         DEF ReadOK, WitnessOK, SearchOK, AttachmentOK, TruthOK, GoesOn, todo,
             new
  <1>5. ASSUME adapter # "imap"
        PROVE  ReadOK([c EXCEPT !.pc = IF hits = {} /\ adapter # "graph"
                                       THEN "not_found" ELSE "ok",
                                !.found = IF adapter = "graph"
                                          THEN FirstPage(hits) ELSE hits])
    <2>0. PICK page : page = IF adapter = "graph"
                             THEN FirstPage(hits) ELSE hits
      OBVIOUS
    <2>9. /\ page \subseteq hits
          /\ \A m \in hits \ page : adapter = "graph" /\
                Cardinality({x \in page : x < m}) = Page
      BY <1>1, <2>0, FirstPageOnes
    <2>1. PICK pc : pc = IF hits = {} /\ adapter # "graph"
                         THEN "not_found" ELSE "ok"
      OBVIOUS
    <2> DEFINE new == [c EXCEPT !.pc = pc, !.found = page]
    <2>2. /\ new \in Read /\ new.pc = pc /\ new.op = "thread"
          /\ new.arg = c.arg /\ new.todo = c.todo
          /\ new.found = page /\ new.throughout = c.throughout
          /\ new.sometime = c.sometime
      BY <1>1, <2>1, <2>9 DEF Read
    <2> HIDE DEF new
    <2>3. Due(new) = Due(c)
      BY <2>2 DEF Due
    <2>4. ThreadOK(new)
      BY <1>3, <2>1, <2>2, <2>3, <2>9 DEF ThreadOK
    <2>5. pc = "not_found" => \A m \in c.throughout : ~InThread(c.arg, m)
      BY <1>3, <2>1 DEF Due
    <2>6. WitnessOK(new)
      BY <1>1, <1>2, <2>1, <2>2, <2>9 DEF ReadOK, WitnessOK, GoesOn
    <2>7. SearchOK(new) /\ AttachmentOK(new) /\ TruthOK(new)
      BY <2>2, <2>5 DEF SearchOK, AttachmentOK, TruthOK
    <2>8. ReadOK(new)
      BY <2>2, <2>4, <2>6, <2>7 DEF ReadOK
    <2> QED
      BY <2>0, <2>1, <2>8 DEF new
  <1> QED
    BY <1>4, <1>5

(* One of the messages listed, or the news that it is gone.                *)
LEMMA FetchReads ==
    ASSUME DraftsInv, NEW c \in Read, ReadOK(c), c.pc = "fetch",
           c.op # "attachment", NEW m \in c.todo
    PROVE  /\ m \in Present =>
                 ReadOK([c EXCEPT !.todo = c.todo \ {m},
                                  !.found = c.found \cup {m}])
           /\ m \notin Present => ReadOK([c EXCEPT !.pc = "not_found"])
  <1>1. /\ c.throughout \subseteq Present /\ Present \subseteq c.sometime
        /\ m \in Id
    BY DEF ReadOK, Read, WitnessOK, GoesOn
  <1>2. ASSUME m \in Present
        PROVE  ReadOK([c EXCEPT !.todo = c.todo \ {m},
                                !.found = c.found \cup {m}])
    <2> DEFINE new == [c EXCEPT !.todo = c.todo \ {m},
                                !.found = c.found \cup {m}]
    <2>1. /\ new \in Read /\ new.pc = "fetch" /\ new.op = c.op
          /\ new.arg = c.arg /\ new.todo = c.todo \ {m}
          /\ new.folder = c.folder /\ new.found = c.found \cup {m}
          /\ new.throughout = c.throughout /\ new.sometime = c.sometime
      BY <1>1 DEF Read
    <2> HIDE DEF new
    <2>2. ThreadOK(new)
      BY <2>1 DEF ReadOK, ThreadOK, Due
    <2>3. WitnessOK(new)
      BY <1>1, <1>2, <2>1 DEF ReadOK, WitnessOK, GoesOn
    <2>4. AttachmentOK(new) /\ TruthOK(new)
      BY <2>1 DEF AttachmentOK, TruthOK
    <2>5. SearchOK(new)
      <3>1. new.found \cup new.todo = c.found \cup c.todo
        BY <2>1
      <3> QED
        BY <2>1, <3>1 DEF ReadOK, SearchOK
    <2> QED
      BY <2>1, <2>2, <2>3, <2>4, <2>5 DEF ReadOK, new
  <1>3. ASSUME m \notin Present
        PROVE  ReadOK([c EXCEPT !.pc = "not_found"])
    <2> DEFINE new == [c EXCEPT !.pc = "not_found"]
    <2>1. /\ new \in Read /\ new.pc = "not_found" /\ new.op = c.op
          /\ new.arg = c.arg /\ new.todo = c.todo /\ new.found = c.found
          /\ new.throughout = c.throughout /\ new.sometime = c.sometime
      BY DEF Read
    <2> HIDE DEF new
    <2>2. TruthOK(new)
      <3>1. CASE c.op = "email"
        <4>1. m = c.arg
          BY <3>1 DEF ReadOK, WitnessOK
        <4> QED
          BY <1>1, <1>3, <2>1, <3>1, <4>1 DEF TruthOK
      <3>2. CASE c.op # "email"
        <4>1. m \in c.sometime /\ m \in DOMAIN mail
          BY <3>2 DEF ReadOK, WitnessOK
        <4>2. m \in gone
          BY <1>3, <4>1 DEF Present
        <4>3. c.op \in {"search", "thread"}
          BY <3>2 DEF Read
        <4> QED
          BY <2>1, <4>2, <4>3 DEF TruthOK
      <3> QED
        BY <3>1, <3>2
    <2>3. WitnessOK(new)
      BY <2>1 DEF ReadOK, WitnessOK, GoesOn
    <2>4. AttachmentOK(new) /\ ThreadOK(new) /\ SearchOK(new)
      BY <2>1 DEF AttachmentOK, ThreadOK, SearchOK
    <2> QED
      BY <2>1, <2>2, <2>3, <2>4 DEF ReadOK, new
  <1> QED
    BY <1>2, <1>3

(* Everything listed has come: IMAP goes on to Sent, or there is an answer.*)
LEMMA GatheredReads ==
    ASSUME DraftsInv, NEW c \in Read, ReadOK(c), c.pc = "fetch",
           c.op # "attachment", c.todo = {}
    PROVE  ReadOK(IF c.op # "thread"
                  THEN [c EXCEPT !.pc = IF c.op = "email" /\ adapter = "graph"
                                        THEN "list" ELSE "ok"]
                  ELSE IF c.folder = "inbox"
                  THEN [c EXCEPT !.pc = "list", !.folder = "sent"]
                  ELSE [c EXCEPT !.pc = IF c.found = {}
                                        THEN "not_found" ELSE "ok"])
  <1>1. CASE c.op # "thread"
    <2>1. PICK pc : pc = IF c.op = "email" /\ adapter = "graph"
                         THEN "list" ELSE "ok"
      OBVIOUS
    <2>2. ReadOK([c EXCEPT !.pc = pc])
      BY <1>1, <2>1 DEF ReadOK, Read, WitnessOK, SearchOK, ThreadOK,
                        AttachmentOK, TruthOK, GoesOn
    <2> QED
      BY <1>1, <2>1, <2>2
  <1>2. CASE c.op = "thread" /\ c.folder = "inbox"
    <2> DEFINE new == [c EXCEPT !.pc = "list", !.folder = "sent"]
    <2>1. /\ new \in Read /\ new.pc = "list" /\ new.op = c.op
          /\ new.arg = c.arg /\ new.todo = c.todo /\ new.found = c.found
          /\ new.folder = "sent"
          /\ new.throughout = c.throughout /\ new.sometime = c.sometime
      BY DEF Read
    <2> HIDE DEF new
    <2>2. ThreadOK(new)
      BY <1>2, <2>1 DEF ReadOK, ThreadOK, Due
    <2>3. WitnessOK(new)
      BY <2>1 DEF ReadOK, WitnessOK, GoesOn
    <2>4. SearchOK(new) /\ AttachmentOK(new) /\ TruthOK(new)
      BY <1>2, <2>1 DEF SearchOK, AttachmentOK, TruthOK
    <2> QED
      BY <1>2, <2>1, <2>2, <2>3, <2>4 DEF ReadOK, new
  <1>3. CASE c.op = "thread" /\ c.folder # "inbox"
    <2>1. PICK pc : pc = IF c.found = {} THEN "not_found" ELSE "ok"
      OBVIOUS
    <2> DEFINE new == [c EXCEPT !.pc = pc]
    <2>2. /\ new \in Read /\ new.pc = pc /\ new.op = c.op
          /\ new.arg = c.arg /\ new.todo = c.todo /\ new.found = c.found
          /\ new.throughout = c.throughout /\ new.sometime = c.sometime
      BY <2>1 DEF Read
    <2> HIDE DEF new
    <2>3. Due(c) \subseteq c.found /\ Due(new) = Due(c)
      BY <1>3, <2>2 DEF ReadOK, ThreadOK, Due
    <2>4. ThreadOK(new) /\ TruthOK(new)
      BY <1>3, <2>1, <2>2, <2>3 DEF ThreadOK, TruthOK, Due
    <2>5. WitnessOK(new)
      BY <2>1, <2>2 DEF ReadOK, WitnessOK, GoesOn
    <2>6. AttachmentOK(new) /\ SearchOK(new)
      BY <1>3, <2>2 DEF AttachmentOK, SearchOK
    <2>7. ReadOK(new)
      BY <2>2, <2>4, <2>5, <2>6 DEF ReadOK
    <2> QED
      BY <1>3, <2>1, <2>7 DEF new
  <1> QED
    BY <1>1, <1>2, <1>3

(* The requests for one message or attachment: an answer, or the news that *)
(* the message is gone.                                                    *)
LEMMA GoneReads ==
    ASSUME DraftsInv, NEW c \in Read, ReadOK(c), GoesOn(c),
           c.op \in {"email", "attachment"}
    PROVE  /\ c.arg \notin Present => ReadOK([c EXCEPT !.pc = "not_found"])
           /\ c.op = "email" => ReadOK([c EXCEPT !.pc = "ok"])
  <1>1. c.throughout \subseteq Present
    BY DEF ReadOK, WitnessOK
  <1> QED
    BY <1>1 DEF ReadOK, Read, WitnessOK, SearchOK, ThreadOK, AttachmentOK,
                  TruthOK, GoesOn

LEMMA PartFacts ==
    /\ DOMAIN Parts \subseteq Nat /\ MaxSize \in Nat
    /\ \A i \in DOMAIN Parts : Parts[i] \in Nat
  BY PartsAssumption, LenProperties, ElementOfSeq

LEMMA BytesReads ==
    ASSUME DraftsInv, NEW c \in Read, ReadOK(c), GoesOn(c),
           c.op = "attachment"
    PROVE  /\ Parts[c.part] > MaxSize => ReadOK([c EXCEPT !.pc = "too_large"])
           /\ ~(Parts[c.part] > MaxSize) =>
                 /\ ReadOK([c EXCEPT !.pc = "fetch"])
                 /\ ReadOK([c EXCEPT !.pc = "ok", !.named = c.part])
  <1>1. /\ c.part \in DOMAIN Parts /\ c.part \in Nat
        /\ ~(Parts[c.part] > MaxSize) => Parts[c.part] <= MaxSize
    BY PartFacts DEF ReadOK, AttachmentOK
  <1> QED
    BY <1>1 DEF ReadOK, Read, WitnessOK, SearchOK, ThreadOK, AttachmentOK,
                  TruthOK, GoesOn

LEMMA LabelReads ==
    ASSUME DraftsInv, NEW c \in Read, ReadOK(c), c.pc = "fetch",
           c.op = "attachment", NEW i \in DOMAIN Parts,
           Parts[i] = Parts[c.part]
    PROVE  ReadOK([c EXCEPT !.pc = "ok", !.named = i])
  <1>1. i \in Nat
    BY PartFacts
  <1> QED
    BY <1>1 DEF ReadOK, Read, WitnessOK, SearchOK, ThreadOK, AttachmentOK,
                  TruthOK, GoesOn

(* What a step of the mailbox leaves right of a call that is reading it.   *)
LEMMA MailboxChanges ==
    ASSUME DraftsInv, DraftsInv', Grows, gone \subseteq gone',
           NEW c \in Read, ReadOK(c), NEW now, now = Present',
           NEW new,
           new = IF GoesOn(c)
                 THEN [c EXCEPT !.throughout = c.throughout \cap now,
                                !.sometime = c.sometime \cup now]
                 ELSE c
    PROVE  ReadOK(new)'
  <1>1. now \subseteq DOMAIN mail' /\ now \subseteq Id
    <2>1. MaxMail \in Nat /\ DOMAIN mail' = 1..Len(mail')
          /\ Len(mail') \in Nat /\ Len(mail') <= MaxMail
      BY MaxMailAssumption, LenProperties DEF DraftsInv, DraftsTypeOK
    <2> QED
      BY <2>1 DEF Present, Id
  <1>2. /\ new \in Read /\ new.op = c.op /\ new.pc = c.pc /\ new.arg = c.arg
        /\ new.part = c.part /\ new.named = c.named /\ new.folder = c.folder
        /\ new.todo = c.todo /\ new.found = c.found
        /\ new.throughout \subseteq c.throughout
        /\ c.sometime \subseteq new.sometime
        /\ new.sometime \subseteq c.sometime \cup now
        /\ GoesOn(c) => new.throughout \subseteq now /\ now \subseteq new.sometime
        /\ ~GoesOn(c) => new = c
    BY <1>1 DEF Read
  <1>3. /\ DOMAIN mail \subseteq DOMAIN mail'
        /\ \A m \in DOMAIN mail : mail'[m] = mail[m]
        /\ c.throughout \subseteq DOMAIN mail /\ c.found \subseteq c.sometime
        /\ c.sometime \subseteq DOMAIN mail
    BY DEF Grows, ReadOK, WitnessOK
  <1>4. \A m \in DOMAIN mail : InThread(c.arg, m)' <=> InThread(c.arg, m)
    BY InThreadStays
  <1>5. WitnessOK(new)'
    BY <1>1, <1>2, <1>3 DEF ReadOK, WitnessOK, GoesOn
  <1>6. Due(new)' \subseteq Due(c) /\ Due(c) \subseteq DOMAIN mail
    BY <1>2, <1>3, <1>4 DEF Due
  <1>7. ThreadOK(new)'
    BY <1>2, <1>3, <1>6 DEF ReadOK, ThreadOK, Grows
  <1>10. SearchOK(new)'
    <2>1. \A x, m : Before(x, m)' <=> Before(x, m)
      BY DEF Before, Grows
    <2>2. \A S, m : {x \in S : Before(x, m)}' = {x \in S : Before(x, m)}
      BY <2>1
    <2> QED
      BY <1>2, <1>3, <2>1, <2>2 DEF ReadOK, SearchOK, Grows
  <1>8. AttachmentOK(new)'
    BY <1>2 DEF ReadOK, AttachmentOK
  <1>9. TruthOK(new)'
    BY <1>2, <1>3, <1>4 DEF ReadOK, TruthOK, GoesOn
  <1> QED
    BY <1>2, <1>5, <1>7, <1>8, <1>9, <1>10 DEF ReadOK

----------------------------------------------------------------------------
(* The steps of a reader.                                                  *)
LEMMA ReadsStutter ==
    ASSUME UNCHANGED draftVars
    PROVE  \A c : ReadOK(c) => ReadOK(c)'
  <1> SUFFICES ASSUME NEW c, ReadOK(c) PROVE ReadOK(c)'
    OBVIOUS
  <1>1. /\ WitnessOK(c)' /\ ThreadOK(c)' /\ AttachmentOK(c)' /\ TruthOK(c)'
    BY DEF draftVars, ReadOK, WitnessOK, ThreadOK, AttachmentOK, TruthOK,
           Due, GoesOn, InThread, Present
  <1>2. SearchOK(c)'
    <2>1. /\ \A x, m : Before(x, m)' <=> Before(x, m)
          /\ mail' = mail /\ adapter' = adapter
      BY DEF Before, draftVars
    <2>2. \A S, m : {x \in S : Before(x, m)}' = {x \in S : Before(x, m)}
      BY <2>1
    <2> QED
      BY <2>1, <2>2 DEF ReadOK, SearchOK
  <1> QED
    BY <1>1, <1>2 DEF ReadOK

LEMMA Becomes ==
    ASSUME ReadingInv, NEW r \in Reader, UNCHANGED draftVars,
           NEW new, Become(r, new), new = NoRead \/ ReadOK(new)
    PROVE  ReadingInv'
  <1>1. DraftsInv'
    BY DraftsStutter DEF ReadingInv
  <1>2. \A c : ReadOK(c) => ReadOK(c)'
    BY ReadsStutter
  <1>3. new \in Read \cup {NoRead}
    BY DEF ReadOK
  <1>4. reader' = [reader EXCEPT ![r] = new]
    BY DEF Become
  <1>5. reader' \in [Reader -> Read \cup {NoRead}]
    BY <1>3, <1>4 DEF ReadingInv, ReadersOK
  <1>6. ASSUME NEW x \in Reader, reader'[x] # NoRead
        PROVE  ReadOK(reader[x])'
    <2>1. ReadOK(reader'[x])
      BY <1>4, <1>6 DEF ReadingInv, ReadersOK
    <2>2. PICK c : c = reader'[x]
      OBVIOUS
    <2>3. ReadOK(c)'
      BY <1>2, <2>1, <2>2
    <2> QED
      BY <2>2, <2>3
  <1> QED
    BY <1>1, <1>5, <1>6 DEF ReadingInv, ReadersOK

LEMMA Reads ==
    ASSUME ReadingInv, NEW r \in Reader, reader[r] # NoRead
    PROVE  reader[r] \in Read /\ ReadOK(reader[r])
  BY DEF ReadingInv, ReadersOK

LEMMA BeginStep ==
    ASSUME ReadingInv, NEW r \in Reader,
           \/ \E limit \in LimitParam : SearchEmails(r, limit)
           \/ \E m \in DOMAIN mail :
                 \/ GetThread(r, m) \/ GetEmail(r, m)
                 \/ \E part \in DOMAIN Parts : GetAttachment(r, m, part)
    PROVE  ReadingInv'
  <1>1. /\ LimitParam \subseteq Nat /\ DOMAIN mail \subseteq Id
        /\ Id \subseteq Nat /\ 0 \in Nat /\ {} \in SUBSET Id
    BY MailFacts, MaxLimitAssumption, MaxMailAssumption
       DEF LimitParam, ReadingInv, DraftsInv, Id
  <1>2. ASSUME NEW op \in {"search", "thread", "email", "attachment"},
               NEW pc \in {"list", "fetch"}, NEW arg \in Nat, NEW part \in Nat,
               NEW todo \in SUBSET Id,
               todo = IF op = "email" THEN {arg} ELSE {},
               op # "email" => pc = "list",
               op = "attachment" => part \in DOMAIN Parts,
               Begin(r, op, pc, arg, part, todo)
        PROVE  ReadingInv'
    <2>1. PICK c :
             c = [op |-> op, pc |-> pc, arg |-> arg, part |-> part,
                  named |-> 0, folder |-> "inbox", todo |-> todo,
                  found |-> {}, throughout |-> Present,
                  sometime |-> Present]
      OBVIOUS
    <2>2. ReadOK(c)
      BY <1>2, <2>1, BeginReads DEF ReadingInv
    <2>3. Become(r, c) /\ UNCHANGED draftVars
      BY <1>2, <2>1 DEF Begin
    <2> QED
      BY <2>2, <2>3, Becomes
  <1>3. ASSUME NEW limit \in LimitParam, SearchEmails(r, limit)
        PROVE  ReadingInv'
    BY <1>1, <1>2, <1>3 DEF SearchEmails
  <1>4. ASSUME NEW m \in DOMAIN mail, GetThread(r, m)
        PROVE  ReadingInv'
    <2>1. ThreadOf(m) \in Nat
      BY <1>1, ThreadOfType DEF ReadingInv, DraftsInv
    <2> QED
      BY <1>1, <1>2, <1>4, <2>1 DEF GetThread
  <1>5. ASSUME NEW m \in DOMAIN mail, GetEmail(r, m)
        PROVE  ReadingInv'
    <2>1. m \in Nat /\ {m} \in SUBSET Id
      BY <1>1
    <2> QED
      BY <1>1, <1>2, <1>5, <2>1 DEF GetEmail
  <1>6. ASSUME NEW m \in DOMAIN mail, NEW part \in DOMAIN Parts,
               GetAttachment(r, m, part)
        PROVE  ReadingInv'
    <2>1. m \in Nat /\ part \in Nat
      BY <1>1, PartFacts
    <2> QED
      BY <1>1, <1>2, <1>6, <2>1 DEF GetAttachment
  <1> QED
    BY <1>3, <1>4, <1>5, <1>6

LEMMA ListStep ==
    ASSUME ReadingInv, NEW r \in Reader, Search(r) \/ Thread(r)
    PROVE  ReadingInv'
  <1>1. PICK c : c = reader[r]
    OBVIOUS
  <1>2. /\ c \in Read /\ ReadOK(c) /\ c.pc = "list" /\ GoesOn(c)
        /\ UNCHANGED draftVars
    BY <1>1, Reads DEF Search, Thread, Goal, GoesOn
  <1>3. CASE Search(r)
    <2>1. PICK hits : hits = Newest(Searched, c.arg)
      OBVIOUS
    <2>2. c.op = "search"
      BY <1>1, <1>3 DEF Search, Goal
    <2>3. /\ ReadOK([c EXCEPT !.pc = "fetch", !.todo = hits])
          /\ ReadOK([c EXCEPT !.pc = "ok", !.found = hits])
      BY <1>2, <2>1, <2>2, SearchReads DEF ReadingInv
    <2>4. \/ Become(r, [c EXCEPT !.pc = "fetch", !.todo = hits])
          \/ Become(r, [c EXCEPT !.pc = "ok", !.found = hits])
      BY <1>1, <1>3, <2>1 DEF Search
    <2> QED
      BY <1>2, <2>3, <2>4, Becomes
  <1>4. CASE Thread(r)
    <2>1. PICK hits : hits = {m \in Present : InThread(c.arg, m)}
      OBVIOUS
    <2>2. c.op = "thread"
      BY <1>1, <1>4 DEF Thread, Goal
    <2>3. PICK new :
             new = IF adapter = "imap"
                   THEN [c EXCEPT !.pc = "fetch",
                            !.todo = {m \in hits : mail[m].at = c.folder}]
                   ELSE [c EXCEPT !.pc = IF hits = {} /\ adapter # "graph"
                                         THEN "not_found" ELSE "ok",
                                  !.found = IF adapter = "graph"
                                            THEN FirstPage(hits) ELSE hits]
      OBVIOUS
    <2>4. ReadOK(new)
      BY <1>2, <2>1, <2>2, <2>3, ThreadReads DEF ReadingInv
    <2>5. Become(r, new)
      BY <1>1, <1>4, <2>1, <2>3 DEF Thread
    <2> QED
      BY <1>2, <2>4, <2>5, Becomes
  <1> QED
    BY <1>3, <1>4

LEMMA FetchStep ==
    ASSUME ReadingInv, NEW r \in Reader,
           Gathered(r) \/ Attachments(r) \/ \E m \in Id : Fetch(r, m)
    PROVE  ReadingInv'
  <1>1. PICK c : c = reader[r]
    OBVIOUS
  <1>2. c \in Read /\ ReadOK(c) /\ GoesOn(c) /\ UNCHANGED draftVars
    BY <1>1, Reads DEF Gathered, Attachments, Fetch, Fetching, Goal, GoesOn
  <1>3. ASSUME NEW m \in Id, Fetch(r, m)
        PROVE  ReadingInv'
    <2>1. c.pc = "fetch" /\ c.op # "attachment" /\ m \in c.todo
      BY <1>1, <1>3 DEF Fetch, Fetching
    <2>2. PICK new :
             new = IF m \in Present
                   THEN [c EXCEPT !.todo = c.todo \ {m},
                                  !.found = c.found \cup {m}]
                   ELSE [c EXCEPT !.pc = "not_found"]
      OBVIOUS
    <2>3. ReadOK(new)
      BY <1>2, <2>1, <2>2, FetchReads DEF ReadingInv
    <2>4. Become(r, new)
      BY <1>1, <1>3, <2>2 DEF Fetch
    <2> QED
      BY <1>2, <2>3, <2>4, Becomes
  <1>4. CASE Gathered(r)
    <2>1. c.pc = "fetch" /\ c.op # "attachment" /\ c.todo = {}
      BY <1>1, <1>4 DEF Gathered, Fetching
    <2>2. PICK new :
             new = IF c.op # "thread"
                   THEN [c EXCEPT !.pc = IF c.op = "email" /\ adapter = "graph"
                                         THEN "list" ELSE "ok"]
                   ELSE IF c.folder = "inbox"
                   THEN [c EXCEPT !.pc = "list", !.folder = "sent"]
                   ELSE [c EXCEPT !.pc = IF c.found = {}
                                         THEN "not_found" ELSE "ok"]
      OBVIOUS
    <2>3. ReadOK(new)
      BY <1>2, <2>1, <2>2, GatheredReads DEF ReadingInv
    <2>4. Become(r, new)
      BY <1>1, <1>4, <2>2 DEF Gathered
    <2> QED
      BY <1>2, <2>3, <2>4, Becomes
  <1>5. CASE Attachments(r)
    <2>1. c.op = "email"
      BY <1>1, <1>5 DEF Attachments, Goal
    <2>2. PICK pc : pc = IF c.arg \in Present THEN "ok" ELSE "not_found"
      OBVIOUS
    <2>3. ReadOK([c EXCEPT !.pc = pc])
      BY <1>2, <2>1, <2>2, GoneReads DEF ReadingInv
    <2>4. Become(r, [c EXCEPT !.pc = pc])
      BY <1>1, <1>5, <2>2 DEF Attachments
    <2> QED
      BY <1>2, <2>3, <2>4, Becomes
  <1> QED
    BY <1>3, <1>4, <1>5

LEMMA AttachmentStep ==
    ASSUME ReadingInv, NEW r \in Reader, Bytes(r) \/ Label(r)
    PROVE  ReadingInv'
  <1>1. PICK c : c = reader[r]
    OBVIOUS
  <1>2. /\ c \in Read /\ ReadOK(c) /\ GoesOn(c) /\ c.op = "attachment"
        /\ UNCHANGED draftVars
    BY <1>1, Reads DEF Bytes, Label, Goal, GoesOn
  <1>3. CASE Bytes(r)
    <2>1. PICK new :
             new = IF c.arg \notin Present THEN [c EXCEPT !.pc = "not_found"]
                   ELSE IF Parts[c.part] > MaxSize
                   THEN [c EXCEPT !.pc = "too_large"]
                   ELSE IF adapter = "gmail" THEN [c EXCEPT !.pc = "fetch"]
                   ELSE [c EXCEPT !.pc = "ok", !.named = c.part]
      OBVIOUS
    <2>2. ReadOK(new)
      BY <1>2, <2>1, GoneReads, BytesReads DEF ReadingInv
    <2>3. Become(r, new)
      BY <1>1, <1>3, <2>1 DEF Bytes
    <2> QED
      BY <1>2, <2>2, <2>3, Becomes
  <1>4. CASE Label(r)
    <2>1. c.pc = "fetch"
      BY <1>1, <1>4 DEF Label
    <2>2. CASE c.arg \notin Present
      <3>1. ReadOK([c EXCEPT !.pc = "not_found"])
        BY <1>2, <2>2, GoneReads DEF ReadingInv
      <3>2. Become(r, [c EXCEPT !.pc = "not_found"])
        BY <1>1, <1>4, <2>2 DEF Label
      <3> QED
        BY <1>2, <3>1, <3>2, Becomes
    <2>3. CASE c.arg \in Present
      <3>1. PICK i \in DOMAIN Parts :
               /\ FirstOfSize(i, Parts[c.part])
               /\ Become(r, [c EXCEPT !.pc = "ok", !.named = i])
        BY <1>1, <1>4, <2>3 DEF Label
      <3>2. Parts[i] = Parts[c.part]
        BY <3>1 DEF FirstOfSize
      <3>3. ReadOK([c EXCEPT !.pc = "ok", !.named = i])
        BY <1>2, <2>1, <3>2, LabelReads DEF ReadingInv
      <3> QED
        BY <1>2, <3>1, <3>3, Becomes
    <2> QED
      BY <2>2, <2>3
  <1> QED
    BY <1>3, <1>4

LEMMA EndsStep ==
    ASSUME ReadingInv, NEW r \in Reader, Ends(r)
    PROVE  ReadingInv'
  BY Becomes DEF Ends

(* A step of the mailbox, and what it means for the calls.                 *)
LEMMA MailboxStep ==
    ASSUME ReadingInv, DraftsNext, reader' = Noted
    PROVE  ReadingInv'
  <1>1. DraftsInv /\ DraftsInv' /\ Grows /\ gone \subseteq gone'
    BY DraftsStep, DraftsGrow DEF ReadingInv
  <1>2. PICK now : now = Present'
    OBVIOUS
  <1>3. ASSUME NEW r \in Reader
        PROVE  /\ reader'[r] \in Read \cup {NoRead}
               /\ reader'[r] # NoRead => ReadOK(reader[r])'
    <2>1. CASE reader[r] = NoRead
      BY <2>1 DEF Noted
    <2>2. CASE reader[r] # NoRead
      <3>1. PICK c : c = reader[r]
        OBVIOUS
      <3>2. c \in Read /\ ReadOK(c)
        BY <2>2, <3>1, Reads
      <3>3. PICK new :
               new = IF GoesOn(c)
                     THEN [c EXCEPT !.throughout = c.throughout \cap now,
                                    !.sometime = c.sometime \cup now]
                     ELSE c
        OBVIOUS
      <3>4. GoesOn(c) <=> ~Answered(r)
        BY <2>2, <3>1, <3>2 DEF GoesOn, Answered, Read
      <3>5. reader'[r] = new
        BY <1>2, <2>2, <3>1, <3>3, <3>4 DEF Noted
      <3>6. ReadOK(new)'
        BY <1>1, <1>2, <3>2, <3>3, MailboxChanges
      <3>7. new \in Read
        BY <3>6 DEF ReadOK
      <3> QED
        BY <3>5, <3>6, <3>7
    <2> QED
      BY <2>1, <2>2
  <1>4. reader' = [r \in Reader |-> reader'[r]]
    BY DEF Noted
  <1> QED
    BY <1>1, <1>3, <1>4 DEF ReadingInv, ReadersOK

LEMMA ReadingStep ==
    ASSUME ReadingInv, [ReadingNext]_readVars
    PROVE  ReadingInv'
  <1>1. CASE DraftsNext /\ reader' = Noted
    BY <1>1, MailboxStep
  <1>2. ASSUME NEW r \in Reader, ReadStep(r)
        PROVE  ReadingInv'
    BY <1>2, BeginStep, ListStep, FetchStep, AttachmentStep, EndsStep
       DEF ReadStep
  <1>3. CASE UNCHANGED readVars
    <2>1. UNCHANGED draftVars /\ reader' = reader
      BY <1>3 DEF readVars
    <2>2. DraftsInv'
      BY <2>1, DraftsStutter DEF ReadingInv
    <2>4. \A c : ReadOK(c) => ReadOK(c)'
      BY <2>1, ReadsStutter
    <2>3. ReadersOK'
      BY <2>1, <2>4 DEF ReadingInv, ReadersOK
    <2> QED
      BY <2>2, <2>3 DEF ReadingInv
  <1> QED
    BY <1>1, <1>2, <1>3 DEF ReadingNext

----------------------------------------------------------------------------
(* The invariant holds of every behaviour, of any number of calls, drafts, *)
(* messages, attachments and readers.                                      *)
THEOREM ReadingInvariance == ReadingSpec => []ReadingInv
  <1>1. ReadingInit => ReadingInv
    <2> SUFFICES ASSUME ReadingInit PROVE ReadingInv
      OBVIOUS
    <2>1. DraftsInv
      BY DraftsStart DEF ReadingInit
    <2>2. ReadersOK
      BY DEF ReadingInit, ReadersOK
    <2> QED
      BY <2>1, <2>2 DEF ReadingInv
  <1>2. ReadingInv /\ [ReadingNext]_readVars => ReadingInv'
    BY ReadingStep
  <1> QED
    BY <1>1, <1>2, PTL DEF ReadingSpec

(* Type correctness of drafts, calls, messages and readers.                *)
THEOREM ReadingTypesCorrect == ReadingSpec => []ReadingTypeOK
  <1>1. ReadingInv => ReadingTypeOK
    BY DEF ReadingInv, DraftsInv, ReadersOK, ReadingTypeOK
  <1> QED
    BY <1>1, ReadingInvariance, PTL

(* What was last written into a field of a draft is there: update_draft of *)
(* Gmail's provider, unless two of them overlap, and of Graph's, and the   *)
(* reply Graph makes in two requests.                                      *)
THEOREM LatestEditsStand == ReadingSpec => []LatestEditStands
  <1>1. ReadingInv => LatestEditStands
    BY DEF ReadingInv, DraftsInv
  <1> QED
    BY <1>1, ReadingInvariance, PTL

(* A reply that was sent is in the thread of the message it answers, for   *)
(* create_draft, update_draft and send_draft of every provider.            *)
THEOREM RepliesStayInThread == ReadingSpec => []ReplyStaysInThread
  <1>1. ReadingInv => ReplyStaysInThread
    BY AnchoredInThread DEF ReadingInv
  <1> QED
    BY <1>1, ReadingInvariance, PTL

(* A search of any limit leaves no gap: what it did not answer was not in  *)
(* the mailbox all the time, or is older than a full page of its answer.   *)
THEOREM SearchesAreNewest == ReadingSpec => []SearchIsNewest
  <1>1. ReadingInv => SearchIsNewest
    <2> SUFFICES ASSUME ReadingInv, NEW r \in Reader, Done(r, "search")
                 PROVE  /\ reader[r].found \subseteq reader[r].sometime
                        /\ Cardinality(reader[r].found) <= reader[r].arg
                        /\ \A m \in reader[r].throughout \ reader[r].found :
                              (adapter = "imap" => mail[m].at = "inbox") =>
                                  Cardinality({x \in reader[r].found :
                                                  Before(x, m)})
                                      = reader[r].arg
      BY DEF SearchIsNewest
    <2>1. PICK c : c = reader[r]
      OBVIOUS
    <2>2. ReadOK(c) /\ c.op = "search" /\ c.pc = "ok"
      BY <2>1, Reads DEF Done, Goal
    <2>3. c.found \cup c.todo = c.found
      BY <2>2 DEF ReadOK, SearchOK
    <2>4. c.found \subseteq c.sometime
      BY <2>2 DEF ReadOK, WitnessOK
    <2> QED
      BY <2>1, <2>2, <2>3, <2>4 DEF ReadOK, SearchOK
  <1> QED
    BY <1>1, ReadingInvariance, PTL

(* get_thread leaves out no message that is there throughout and is shown  *)
(* with the thread id asked for, but what comes after Graph's first page;  *)
(* IMAP's In-Reply-To alone excepted.                                      *)
THEOREM ThreadsAreWhole == ReadingSpec => []ThreadIsWhole
  <1>1. ReadingInv => ThreadIsWhole
    <2> SUFFICES ASSUME ReadingInv, NEW r \in Reader, Done(r, "thread")
                 PROVE  /\ reader[r].found \subseteq reader[r].sometime
                        /\ \A m \in reader[r].throughout :
                              Threaded(m) /\ ThreadOf(m) = reader[r].arg =>
                                  \/ m \in reader[r].found
                                  \/ /\ adapter = "graph"
                                     /\ Cardinality({x \in reader[r].found :
                                                        x < m}) = Page
      BY DEF ThreadIsWhole
    <2>1. PICK c : c = reader[r]
      OBVIOUS
    <2>2. ReadOK(c) /\ c.op = "thread" /\ c.pc = "ok"
      BY <2>1, Reads DEF Done, Goal
    <2>3. \A m \in Due(c) :
             \/ m \in c.found
             \/ adapter = "graph" /\ Cardinality({x \in c.found : x < m}) = Page
      BY <2>2 DEF ReadOK, ThreadOK
    <2>4. ASSUME NEW m \in c.throughout, Threaded(m), ThreadOf(m) = c.arg
          PROVE  m \in Due(c)
      <3>1. m \in DOMAIN mail
        BY <2>2 DEF ReadOK, WitnessOK
      <3> QED
        BY <2>4, <3>1, ShownInThread DEF Due, ReadingInv, DraftsInv
    <2>5. c.found \subseteq c.sometime
      BY <2>2 DEF ReadOK, WitnessOK
    <2> QED
      BY <2>1, <2>3, <2>4, <2>5
  <1> QED
    BY <1>1, ReadingInvariance, PTL

(* Every EmailNotFoundError of the reading tools is true, at least of one  *)
(* message the call had listed and had still to fetch.                     *)
THEOREM NotFoundIsTheTruth == ReadingSpec => []NotFoundIsTrue
  <1>1. ReadingInv => NotFoundIsTrue
    BY DEF ReadingInv, ReadersOK, ReadOK, TruthOK, NotFoundIsTrue
  <1> QED
    BY <1>1, ReadingInvariance, PTL

(* get_attachment answers no attachment over the limit, and one within it  *)
(* under its own name unless another is of its size.                       *)
THEOREM AttachmentsAreTheirOwn == ReadingSpec => []AttachmentIsItsOwn
  <1>1. ReadingInv => AttachmentIsItsOwn
    BY DEF ReadingInv, ReadersOK, ReadOK, AttachmentOK, AttachmentIsItsOwn,
           Done, Goal
  <1> QED
    BY <1>1, ReadingInvariance, PTL

----------------------------------------------------------------------------
(* The exception LatestEditStands makes never comes up as long as nothing  *)
(* changes a draft between the two requests of a Gmail update of it.       *)
Undisturbed == \A q \in Req : Goes(q, "update") => ~call[q].stale

EveryEditStands ==
    \A d \in DraftId :
        LET now == drafts[d]  due == ideal[d] IN
        Exists(d) /\ due # NoDraft =>
            /\ now.subject = due.subject /\ now.body = due.body
            /\ now.to = due.to /\ now.place.thread = due.place.thread

NoneSpoiled == spoiled = {}

LEMMA ReadsLeaveDrafts ==
    ASSUME NEW r \in Reader, ReadStep(r)
    PROVE  UNCHANGED draftVars
  BY DEF ReadStep, SearchEmails, GetThread, GetEmail, GetAttachment, Begin,
         Search, Thread, Fetch, Gathered, Attachments, Bytes, Label, Ends

LEMMA NoneGetSpoiled ==
    ASSUME NoneSpoiled, Undisturbed, [ReadingNext]_readVars
    PROVE  NoneSpoiled'
  <1> USE DEF NoneSpoiled
  <1>1. ASSUME NEW q \in Req, GmailReplace(q)
        PROVE  spoiled' = {}
    BY <1>1 DEF GmailReplace, Undisturbed
  <1>2. ASSUME NEW d \in DraftId, Leaves(d)
        PROVE  spoiled' = {}
    BY <1>2 DEF Leaves
  <1>3. ASSUME NEW q \in Req, NEW d \in DraftId, Create(q, d)
        PROVE  spoiled' = {}
    BY <1>3 DEF Create, CreateReply, CreateAtOnce, ReadOriginal, GraphCreateReply
  <1>4. ASSUME NEW q \in Req, NEW d \in DraftId, Update(q, d)
        PROVE  spoiled' = {}
    BY <1>4 DEF Update, GmailRead, UpdateInPlace
  <1>5. ASSUME NEW q \in Req, Provider(q)
        PROVE  spoiled' = {}
    BY <1>1, <1>2, <1>3, <1>4, <1>5 DEF Provider, Send, GraphOverwrite, Fails
  <1>6. CASE Owner
    BY <1>2, <1>6 DEF Owner, Arrive, OwnerDeletesMail, OwnerDeletesDraft,
                      OwnerEdits
  <1>7. CASE DraftsNext
    BY <1>5, <1>6, <1>7 DEF DraftsNext
  <1>8. CASE UNCHANGED draftVars
    BY <1>8 DEF draftVars
  <1> QED
    BY <1>7, <1>8, ReadsLeaveDrafts DEF ReadingNext, readVars

(* One Gmail update of a draft at a time, and no other change of it        *)
(* meanwhile: then every edit stands, whatever fails or is deleted.        *)
THEOREM UndisturbedEditsStand ==
    ReadingSpec /\ []Undisturbed => []EveryEditStands
  <1>1. ReadingInit => NoneSpoiled
    BY DEF ReadingInit, DraftsInit, NoneSpoiled
  <1>2. NoneSpoiled /\ Undisturbed /\ [ReadingNext]_readVars => NoneSpoiled'
    BY NoneGetSpoiled
  <1>3. LatestEditStands /\ NoneSpoiled => EveryEditStands
    BY DEF LatestEditStands, Settled, NoneSpoiled, EveryEditStands
  <1> QED
    BY <1>1, <1>2, <1>3, LatestEditsStand, PTL DEF ReadingSpec

(* Graph's PATCH, the fake provider's swap and the drafts of IMAP, which   *)
(* refuses updates, need no such condition: the draft is all it should be. *)
DraftsAsWritten ==
    \A d \in DraftId :
        Exists(d) /\ ideal[d] # NoDraft => drafts[d] = ideal[d]

NotGmail == adapter # "gmail"

THEOREM PatchedEditsStand == ReadingSpec /\ NotGmail => []DraftsAsWritten
  <1>1. NotGmail /\ ReadingInv /\ [ReadingNext]_readVars => NotGmail'
    <2> SUFFICES ASSUME ReadingInv, [ReadingNext]_readVars
                 PROVE  adapter' = adapter
      BY DEF NotGmail
    <2>1. DraftsNext => adapter' = adapter
      BY DraftsGrow DEF Grows, ReadingInv
    <2> QED
      BY <2>1, ReadsLeaveDrafts DEF ReadingNext, readVars, draftVars
  <1>2. NotGmail /\ ReadingInv => Undisturbed
    BY DEF NotGmail, ReadingInv, DraftsInv, CallsOK, CallOK, Undisturbed
  <1>3. ReadingInit => NoneSpoiled
    BY DEF ReadingInit, DraftsInit, NoneSpoiled
  <1>4. NoneSpoiled /\ Undisturbed /\ [ReadingNext]_readVars => NoneSpoiled'
    BY NoneGetSpoiled
  <1>5. LatestEditStands /\ NoneSpoiled /\ NotGmail => DraftsAsWritten
    BY DEF LatestEditStands, Settled, NoneSpoiled, NotGmail, DraftsAsWritten
  <1> QED
    BY <1>1, <1>2, <1>3, <1>4, <1>5, LatestEditsStand, ReadingInvariance, PTL
       DEF ReadingSpec
=============================================================================
