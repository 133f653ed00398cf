------------------------ MODULE TenantRecordsProofs ------------------------
(***************************************************************************)
(* Proofs about a tenant's record, for any number of threads, scripts and  *)
(* onboardings: without a lock, the record is the last onboarding's as     *)
(* long as no two saves overlap, no onboarding is stored while a refresh   *)
(* is under way, and nobody is killed in a save.                           *)
(***************************************************************************)
EXTENDS TenantRecords, TLAPS

(* A call has a record to save when it gets to its save, and the registry  *)
(* builds from a record.                                                   *)
CallOK ==
    \A a \in Actor :
        LET c == actor[a] IN
        /\ c.pc = "idle" <=> c.op = "none"
        /\ c.pc \in {"save", "write"} => c.record \in Record
        /\ c.op = "use" /\ c.pc # "load" => c.record \in Record

(* Whoever saves alone has the file to itself, from its truncate on.       *)
AloneOK ==
    \A a \in Saving :
        /\ actor[a].alone => Saving = {a} /\ file = Empty
        /\ ~mixed => actor[a].alone

(* What a refresh will save is the last onboarding's, unless another was   *)
(* stored since it loaded.                                                 *)
LoadedOK ==
    ~mixed /\ ~overtaken /\ ~killed =>
        \A a \in Actor :
            actor[a].op = "use" /\ actor[a].pc # "load" /\ ~actor[a].late =>
                actor[a].record = stored

RecordInv == RecordTypeOK /\ CallOK /\ AloneOK /\ LoadedOK /\ RecordIsLatest

----------------------------------------------------------------------------
LEMMA NoCallType == NoCall \in Call
  BY DEF NoCall, Call, Kind

LEMMA NewGrantType ==
    ASSUME RecordTypeOK, Granted, NEW kind \in Kind
    PROVE  /\ NewGrant(kind) \in Record
           /\ granted' \in 0..MaxGrants
           /\ live' \subseteq Grant
  BY MaxGrantsAssumption DEF RecordTypeOK, Granted, NewGrant, Record, Grant

LEMMA SpecialValues ==
    /\ Absent \notin Record /\ Empty \notin Record /\ Torn \notin Record
    /\ NoRecord \notin Record
    /\ Absent # Empty /\ Absent # Torn /\ Empty # Torn
  BY FileAssumption

LEMMA InitRecordInv == Init => RecordInv
  <1> SUFFICES ASSUME Init PROVE RecordInv
    OBVIOUS
  <1> USE DEF Init
  <1>1. RecordTypeOK
    <2>1. actor \in [Actor -> Call]
      BY NoCallType
    <2>2. granted \in 0..MaxGrants
      BY MaxGrantsAssumption
    <2> QED
      BY <2>1, <2>2 DEF RecordTypeOK
  <1>2. CallOK
    BY DEF CallOK, NoCall
  <1>3. Saving = {}
    BY DEF Saving, NoCall
  <1> QED
    BY <1>1, <1>2, <1>3 DEF RecordInv, AloneOK, LoadedOK, RecordIsLatest, NoCall

----------------------------------------------------------------------------
(* Steps that leave the file, the onboardings and the saves alone.         *)
SameFile ==
    /\ UNCHANGED <<file, stored, mixed, overtaken, killed>>
    /\ \A a \in Actor : actor'[a].pc = "write" <=> actor[a].pc = "write"
    /\ \A a \in Actor : actor'[a].pc = "write" => actor'[a].alone = actor[a].alone

LEMMA SameFilePreserves ==
    ASSUME RecordInv, SameFile
    PROVE  AloneOK' /\ RecordIsLatest'
  <1>1. Saving' = Saving
    BY DEF Saving, SameFile
  <1>2. \A a \in Saving : actor'[a].alone = actor[a].alone
    BY DEF Saving, SameFile
  <1>3. AloneOK'
    BY <1>1, <1>2 DEF RecordInv, AloneOK, SameFile
  <1>4. RecordIsLatest'
    BY <1>1 DEF RecordInv, RecordIsLatest, SameFile
  <1> QED
    BY <1>3, <1>4

(* The steps of the registry, and the withdrawal of a grant.               *)
LEMMA IdleSteps ==
    ASSUME RecordInv, Registry \/ (\E g \in Grant : Revoke(g)) \/ UNCHANGED vars
    PROVE  RecordInv'
  <1> USE DEF RecordInv
  <1>1. /\ UNCHANGED <<file, granted, setting, actor>>
        /\ UNCHANGED <<stored, mixed, overtaken, killed>>
    BY DEF Registry, GetFromSettings, GetProvider, GetName, Revoke, vars,
           historyVars
  <1>2. SameFile
    BY <1>1 DEF SameFile, historyVars
  <1>3. live' \subseteq Grant
    BY DEF Registry, GetFromSettings, GetProvider, GetName, Revoke, vars,
           RecordTypeOK
  <1>4. service' \in [kind : Kind, name : Kind] \cup {NoService}
    <2>1. CASE GetFromSettings
      BY <2>1 DEF GetFromSettings, RecordTypeOK
    <2>2. CASE GetName
      <3>1. lookup.kind \in Kind
        BY <2>2 DEF GetName, RecordTypeOK, Record
      <3>2. file \in Record => file.kind \in Kind
        BY DEF Record
      <3> QED
        BY <2>2, <3>1, <3>2 DEF GetName
    <2>3. CASE UNCHANGED service
      BY <2>3 DEF RecordTypeOK
    <2> QED
      BY <2>1, <2>2, <2>3 DEF Registry, GetProvider, Revoke, vars
  <1>5. lookup' \in Record \cup {NoRecord}
    BY DEF Registry, GetFromSettings, GetProvider, GetName, Revoke, vars,
           RecordTypeOK
  <1>6. RecordTypeOK'
    BY <1>1, <1>3, <1>4, <1>5 DEF RecordTypeOK, historyVars
  <1>7. CallOK' /\ LoadedOK'
    BY <1>1 DEF CallOK, LoadedOK, historyVars
  <1> QED
    BY <1>2, <1>6, <1>7, SameFilePreserves

(* A call begins, goes on or ends outside its save.                        *)
LEMMA CallSteps ==
    ASSUME RecordInv, NEW a \in Actor, NEW d \in Call,
           actor' = [actor EXCEPT ![a] = d],
           actor[a].pc # "write", d.pc # "write",
           d.pc = "idle" <=> d.op = "none",
           d.pc = "save" => d.record \in Record,
           d.op = "use" /\ d.pc # "load" => d.record \in Record,
           ~mixed /\ ~overtaken /\ ~killed
               /\ d.op = "use" /\ d.pc # "load" /\ ~d.late => d.record = stored,
           granted' \in 0..MaxGrants, live' \subseteq Grant,
           UNCHANGED <<file, setting, service, lookup, historyVars>>
    PROVE  RecordInv'
  <1> USE DEF RecordInv
  <1>1. actor \in [Actor -> Call]
    BY DEF RecordTypeOK
  <1>2. RecordTypeOK'
    <2>1. actor' \in [Actor -> Call]
      BY <1>1
    <2> QED
      BY <2>1 DEF RecordTypeOK, historyVars
  <1>3. SameFile
    BY <1>1 DEF SameFile, historyVars
  <1>4. CallOK'
    BY <1>1 DEF CallOK
  <1>5. LoadedOK'
    BY <1>1 DEF LoadedOK, historyVars
  <1> QED
    BY <1>2, <1>3, <1>4, <1>5, SameFilePreserves

LEMMA BeginSteps ==
    ASSUME RecordInv,
           \/ \E t \in Thread : Use(t) \/ Bootstrap(t)
           \/ \E s \in Script, kind \in Kind : Onboard(s, kind)
    PROVE  RecordInv'
  <1>1. PICK a \in Actor, op \in {"use", "onboard"}, pc \in {"load", "save"},
             kind \in Kind, record \in Record \cup {NoRecord} :
           /\ actor[a].pc = "idle"
           /\ Begin(a, op, pc, kind, record)
           /\ pc = "save" => op = "onboard" /\ record \in Record
    <2>1. CASE \E t \in Thread : Use(t)
      BY <2>1 DEF Use, Actor, RecordInv, RecordTypeOK
    <2>2. CASE \E t \in Thread : Bootstrap(t)
      BY <2>2 DEF Bootstrap, Actor, Kind
    <2>3. CASE \E s \in Script, kind \in Kind : Onboard(s, kind)
      <3>1. PICK s \in Script, kind \in Kind : Onboard(s, kind)
        BY <2>3
      <3>2. NewGrant(kind) \in Record
        BY <3>1, NewGrantType DEF Onboard, RecordInv
      <3> QED
        BY <3>1, <3>2 DEF Onboard, Actor
    <2> QED
      BY <2>1, <2>2, <2>3
  <1> DEFINE d == [op |-> op, pc |-> pc, kind |-> kind, record |-> record,
                   late |-> FALSE, alone |-> TRUE]
  <1>2. d \in Call
    BY DEF Call
  <1>3. actor' = [actor EXCEPT ![a] = d]
    BY <1>1 DEF Begin
  <1>4. UNCHANGED <<file, setting, service, lookup, historyVars>>
    BY DEF Use, Bootstrap, Onboard
  <1>5. granted' \in 0..MaxGrants /\ live' \subseteq Grant
    <2>1. CASE UNCHANGED <<granted, live>>
      BY <2>1 DEF RecordInv, RecordTypeOK
    <2>2. CASE Granted
      BY <2>2, NewGrantType DEF Kind, RecordInv
    <2> QED
      BY <2>1, <2>2 DEF Use, Bootstrap, Onboard
  <1>6. /\ d.pc # "write" /\ d.pc # "idle" /\ d.op # "none"
        /\ d.pc = "save" => d.op # "use" /\ d.record \in Record
        /\ d.op = "use" => d.pc = "load"
    BY <1>1
  <1> HIDE DEF d
  <1> QED
    BY <1>1, <1>2, <1>3, <1>4, <1>5, <1>6, CallSteps

LEMMA EndSteps ==
    ASSUME RecordInv, NEW a \in Actor, actor[a].pc # "write", End(a),
           granted' \in 0..MaxGrants, live' \subseteq Grant,
           UNCHANGED <<file, setting, service, lookup, historyVars>>
    PROVE  RecordInv'
  <1>1. NoCall.pc = "idle" /\ NoCall.op = "none"
    BY DEF NoCall
  <1> QED
    BY <1>1, NoCallType, CallSteps DEF End

(* What a call loads is the last onboarding's record: nobody is saving, or *)
(* the file would be empty.                                                *)
LEMMA LoadSteps ==
    ASSUME RecordInv, NEW a \in Actor, Load(a)
    PROVE  RecordInv'
  <1> DEFINE c == actor[a]
  <1> DEFINE usable == file \in Record /\ file.kind = c.kind
  <1> DEFINE d == [c EXCEPT !.pc = "network",
                            !.record = IF usable THEN file ELSE NoRecord]
  <1>1. actor \in [Actor -> Call] /\ c \in Call
    BY DEF RecordInv, RecordTypeOK
  <1>2. /\ granted' \in 0..MaxGrants /\ live' \subseteq Grant
        /\ UNCHANGED <<file, setting, service, lookup, historyVars>>
        /\ c.pc = "load"
    BY DEF Load, RecordInv, RecordTypeOK
  <1>3. CASE End(a)
    BY <1>2, <1>3, EndSteps
  <1>4. CASE /\ c.op = "onboard" \/ usable
             /\ actor' = [actor EXCEPT ![a] =
                             [@ EXCEPT !.pc = "network",
                                       !.record = IF usable THEN file ELSE NoRecord]]
    <2>1. actor' = [actor EXCEPT ![a] = d]
      BY <1>1, <1>4
    <2>2. d \in Call /\ d.pc = "network" /\ d.op = c.op
      BY <1>1 DEF Call
    <2>3. c.op = "use" => d.record = file /\ file \in Record
      BY <1>1, <1>4 DEF Call
    <2>4. c.op # "none"
      BY <1>2 DEF RecordInv, CallOK
    <2>5. ASSUME ~mixed, ~overtaken, ~killed, d.op = "use"
          PROVE  d.record = stored
      <3>1. Saving = {}
        BY <2>2, <2>3, <2>5, SpecialValues DEF RecordInv, AloneOK
      <3> QED
        BY <2>2, <2>3, <2>5, <3>1, SpecialValues DEF RecordInv, RecordIsLatest
    <2> HIDE DEF d
    <2> QED
      BY <1>2, <2>1, <2>2, <2>3, <2>4, <2>5, CallSteps
  <1> QED
    BY <1>3, <1>4 DEF Load

LEMMA NetworkSteps ==
    ASSUME RecordInv, NEW a \in Actor, Refresh(a) \/ Exchange(a)
    PROVE  RecordInv'
  <1> DEFINE c == actor[a]
  <1>1. actor \in [Actor -> Call] /\ c \in Call
    BY DEF RecordInv, RecordTypeOK
  <1>2. c.pc = "network" /\ UNCHANGED <<file, setting, service, lookup, historyVars>>
    BY DEF Refresh, Exchange
  <1>3. granted' \in 0..MaxGrants /\ live' \subseteq Grant
    <2>1. CASE UNCHANGED <<granted, live>>
      BY <2>1 DEF RecordInv, RecordTypeOK
    <2>2. CASE Granted
      BY <2>2, NewGrantType DEF Kind, RecordInv
    <2> QED
      BY <2>1, <2>2 DEF Refresh, Exchange
  <1>4. CASE End(a)
    BY <1>2, <1>3, <1>4, EndSteps
  <1>5. CASE Refresh(a) /\ actor' = [actor EXCEPT ![a].pc = "save"]
    <2> DEFINE d == [c EXCEPT !.pc = "save"]
    <2>1. actor' = [actor EXCEPT ![a] = d]
      BY <1>1, <1>5
    <2>2. /\ d \in Call /\ d.pc = "save" /\ d.op = "use" /\ d.record = c.record
          /\ d.late = c.late /\ c.op = "use"
      BY <1>1, <1>5 DEF Call, Refresh
    <2>3. /\ c.record \in Record
          /\ ~mixed /\ ~overtaken /\ ~killed /\ ~c.late => c.record = stored
      BY <1>2, <2>2 DEF RecordInv, CallOK, LoadedOK
    <2> HIDE DEF d
    <2> QED
      BY <1>2, <1>3, <2>1, <2>2, <2>3, CallSteps
  <1>6. CASE /\ Exchange(a) /\ Granted
             /\ actor' = [actor EXCEPT ![a] =
                             [@ EXCEPT !.pc = "save",
                                       !.record = NewGrant("graph")]]
    <2> DEFINE d == [c EXCEPT !.pc = "save", !.record = NewGrant("graph")]
    <2>1. actor' = [actor EXCEPT ![a] = d]
      BY <1>1, <1>6
    <2>2. NewGrant("graph") \in Record
      BY <1>6, NewGrantType DEF Kind, RecordInv
    <2>3. /\ d \in Call /\ d.pc = "save" /\ d.op = "onboard"
          /\ d.record \in Record
      BY <1>1, <1>6, <2>2 DEF Call, Exchange
    <2> HIDE DEF d
    <2> QED
      BY <1>2, <1>3, <2>1, <2>3, CallSteps
  <1> QED
    BY <1>4, <1>5, <1>6 DEF Refresh, Exchange

----------------------------------------------------------------------------
LEMMA TruncateSteps ==
    ASSUME RecordInv, NEW a \in Actor, Truncate(a)
    PROVE  RecordInv'
  <1> DEFINE saver == [actor[a] EXCEPT !.pc = "write", !.alone = Saving = {}]
  <1>1. actor \in [Actor -> Call] /\ actor[a].pc = "save" /\ a \notin Saving
    BY DEF RecordInv, RecordTypeOK, Truncate, Saving
  <1>2. /\ saver \in Call /\ saver.pc = "write" /\ saver.op = actor[a].op
        /\ saver.record = actor[a].record /\ saver.late = actor[a].late
        /\ saver.alone = (Saving = {})
    BY <1>1 DEF Call
  <1>3. /\ actor'[a] = saver
        /\ \A b \in Saving : actor'[b] = [actor[b] EXCEPT !.alone = FALSE]
        /\ \A b \in Actor \ {a} : b \notin Saving => actor'[b] = actor[b]
        /\ file' = Empty /\ mixed' = (mixed \/ Saving # {})
        /\ UNCHANGED <<stored, overtaken, killed>>
    BY <1>1 DEF Truncate, Saving
  <1> HIDE DEF saver
  <1>4. \A b \in Actor \ {a} :
           /\ actor'[b] \in Call
           /\ actor'[b].pc = actor[b].pc /\ actor'[b].op = actor[b].op
           /\ actor'[b].record = actor[b].record /\ actor'[b].late = actor[b].late
           /\ b \in Saving => actor'[b].alone = FALSE
    <2> SUFFICES ASSUME NEW b \in Actor \ {a}
                 PROVE  /\ actor'[b] \in Call
                        /\ actor'[b].pc = actor[b].pc
                        /\ actor'[b].op = actor[b].op
                        /\ actor'[b].record = actor[b].record
                        /\ actor'[b].late = actor[b].late
                        /\ b \in Saving => actor'[b].alone = FALSE
      OBVIOUS
    <2>1. actor[b] \in Call
      BY <1>1
    <2>2. CASE b \in Saving
      BY <1>3, <2>1, <2>2 DEF Call
    <2>3. CASE b \notin Saving
      BY <1>3, <2>1, <2>3
    <2> QED
      BY <2>2, <2>3
  <1>5. Saving' = Saving \cup {a}
    BY <1>2, <1>3, <1>4 DEF Saving
  <1>6. RecordTypeOK'
    <2>1. actor' \in [Actor -> Call]
      <3>1. actor' = [b \in Actor |-> actor'[b]]
        BY DEF Truncate
      <3> QED
        BY <1>2, <1>3, <1>4, <3>1
    <2> QED
      BY <2>1 DEF RecordTypeOK, RecordInv, Truncate
  <1>7. CallOK'
    BY <1>1, <1>2, <1>3, <1>4 DEF CallOK, RecordInv
  <1>8. AloneOK'
    <2> SUFFICES ASSUME NEW x \in Saving \cup {a}
                 PROVE  /\ actor'[x].alone => Saving' = {x} /\ file' = Empty
                        /\ ~mixed' => actor'[x].alone
      BY <1>5 DEF AloneOK
    <2>1. CASE x = a
      BY <1>2, <1>3, <1>5, <2>1
    <2>2. CASE x \in Saving
      BY <1>1, <1>3, <1>4, <2>2 DEF Saving
    <2> QED
      BY <2>1, <2>2
  <1>9. LoadedOK'
    <2>1. \A b \in Actor :
             /\ actor'[b].op = actor[b].op /\ actor'[b].record = actor[b].record
             /\ actor'[b].late = actor[b].late
             /\ actor'[b].pc # "load" => actor[b].pc # "load"
      BY <1>1, <1>2, <1>3, <1>4
    <2>2. ~mixed' => ~mixed
      BY <1>3
    <2> QED
      BY <1>3, <2>1, <2>2 DEF LoadedOK, RecordInv
  <1>10. RecordIsLatest'
    BY <1>5 DEF RecordIsLatest
  <1> QED
    BY <1>6, <1>7, <1>8, <1>9, <1>10 DEF RecordInv

LEMMA WriteSteps ==
    ASSUME RecordInv, NEW a \in Actor, Write(a)
    PROVE  RecordInv'
  <1> DEFINE c == actor[a]
  <1>1. actor \in [Actor -> Call] /\ c \in Call /\ a \in Saving
    BY DEF RecordInv, RecordTypeOK, Write, Saving
  <1>2. c.record \in Record /\ c.record # NoRecord
    BY <1>1, SpecialValues DEF RecordInv, CallOK, Saving
  <1>3. /\ UNCHANGED <<live, granted, setting, service, lookup, mixed, killed>>
        /\ file' \in {c.record} \cup IF file = Empty THEN {} ELSE {Torn}
    BY DEF Write
  <1>4. NoCall \in Call /\ NoCall.pc = "idle" /\ NoCall.op = "none"
    BY NoCallType DEF NoCall
  <1>5. actor' \in [Actor -> Call]
    <2>1. CASE c.op = "onboard"
      <3>1. \A b \in Actor : [actor[b] EXCEPT !.late = TRUE] \in Call
        BY <1>1 DEF Call
      <3> QED
        BY <2>1, <3>1, <1>4 DEF Write
    <2>2. CASE c.op # "onboard"
      BY <1>1, <1>4, <2>2 DEF Write, End
    <2> QED
      BY <2>1, <2>2
  <1>6. /\ actor'[a] = NoCall
        /\ \A b \in Actor \ {a} :
              /\ actor'[b].pc = actor[b].pc /\ actor'[b].op = actor[b].op
              /\ actor'[b].record = actor[b].record
              /\ actor'[b].alone = actor[b].alone
              /\ IF c.op = "onboard" THEN actor'[b].late = TRUE
                 ELSE actor'[b].late = actor[b].late
    <2>1. CASE c.op = "onboard"
      <3>1. actor' = [b \in Actor |->
                IF b = a THEN NoCall ELSE [actor[b] EXCEPT !.late = TRUE]]
        BY <2>1 DEF Write
      <3>2. \A b \in Actor : actor[b] \in Call
        BY <1>1
      <3> QED
        BY <2>1, <3>1, <3>2 DEF Call
    <2>2. CASE c.op # "onboard"
      BY <1>1, <2>2 DEF Write, End
    <2> QED
      BY <2>1, <2>2
  <1>7. Saving' = Saving \ {a}
    BY <1>4, <1>6 DEF Saving
  <1>8. /\ stored' = IF c.op = "onboard" THEN c.record ELSE stored
        /\ IF c.op = "onboard" THEN overtaken' = overtaken
           ELSE overtaken' = (overtaken \/ c.late)
    BY DEF Write
  <1>9. RecordTypeOK'
    BY <1>2, <1>3, <1>5, <1>8 DEF RecordInv, RecordTypeOK, Call
  <1>10. CallOK'
    BY <1>4, <1>6 DEF RecordInv, CallOK
  <1>11. AloneOK'
    <2>1. \A x \in Saving \ {a} : actor'[x].alone = actor[x].alone
      BY <1>6 DEF Saving
    <2>2. \A x \in Saving \ {a} : ~actor[x].alone
      BY <1>1 DEF RecordInv, AloneOK
    <2> QED
      BY <1>3, <1>7, <2>1, <2>2 DEF RecordInv, AloneOK
  <1>12. ASSUME ~overtaken' PROVE ~overtaken
    BY <1>8, <1>12
  <1>13. LoadedOK'
    <2> SUFFICES ASSUME ~mixed', ~overtaken', ~killed', NEW b \in Actor,
                        actor'[b].op = "use", actor'[b].pc # "load",
                        ~actor'[b].late
                 PROVE  actor'[b].record = stored'
      BY DEF LoadedOK
    <2>1. b # a
      BY <1>4, <1>6
    <2>2. c.op # "onboard"
      BY <1>6, <2>1
    <2> QED
      BY <1>3, <1>6, <1>8, <1>12, <2>1, <2>2 DEF RecordInv, LoadedOK
  <1>14. RecordIsLatest'
    <2> SUFFICES ASSUME ~mixed', ~overtaken', ~killed'
                 PROVE  file' = stored' /\ stored' # NoRecord
      BY DEF RecordIsLatest
    <2>1. file' = c.record
      BY <1>1, <1>3 DEF RecordInv, AloneOK
    <2>2. c.op # "onboard" => c.record = stored
      <3> SUFFICES ASSUME c.op # "onboard" PROVE c.record = stored
        OBVIOUS
      <3>1. c.op = "use" /\ c.pc # "load"
        BY <1>1 DEF RecordInv, CallOK, Saving, Call
      <3>2. ~c.late
        BY <1>8
      <3> QED
        BY <1>3, <1>12, <3>1, <3>2 DEF RecordInv, LoadedOK
    <2> QED
      BY <1>2, <1>8, <2>1, <2>2
  <1> QED
    BY <1>9, <1>10, <1>11, <1>13, <1>14 DEF RecordInv

----------------------------------------------------------------------------
LEMMA StopSteps ==
    ASSUME RecordInv, NEW group \in SUBSET Actor, Stop(group)
    PROVE  RecordInv'
  <1>1. actor \in [Actor -> Call]
    BY DEF RecordInv, RecordTypeOK
  <1>2. NoCall \in Call /\ NoCall.pc = "idle" /\ NoCall.op = "none"
    BY NoCallType DEF NoCall
  <1>3. /\ UNCHANGED <<file, live, granted, setting, stored, mixed, overtaken>>
        /\ \A b \in group : actor'[b] = NoCall
        /\ \A b \in Actor \ group : actor'[b] = actor[b]
        /\ killed' = (killed \/ group \cap Saving # {})
    BY DEF Stop
  <1>4. Saving' = Saving \ group
    BY <1>2, <1>3 DEF Saving
  <1>5. RecordTypeOK'
    <2>1. actor' \in [Actor -> Call]
      BY <1>1, <1>2 DEF Stop
    <2>2. /\ service' \in [kind : Kind, name : Kind] \cup {NoService}
          /\ lookup' \in Record \cup {NoRecord}
      BY DEF Stop, RecordInv, RecordTypeOK
    <2> QED
      BY <1>3, <2>1, <2>2 DEF RecordInv, RecordTypeOK
  <1>6. CallOK'
    BY <1>2, <1>3 DEF RecordInv, CallOK
  <1>7. AloneOK'
    <2>1. \A x \in Saving \ group : actor'[x] = actor[x]
      BY <1>3 DEF Saving
    <2> QED
      BY <1>3, <1>4, <2>1 DEF RecordInv, AloneOK
  <1>8. ~killed' => ~killed /\ Saving' = Saving
    BY <1>3, <1>4
  <1>9. LoadedOK'
    BY <1>2, <1>3, <1>8 DEF RecordInv, LoadedOK
  <1>10. RecordIsLatest'
    BY <1>3, <1>8 DEF RecordInv, RecordIsLatest
  <1> QED
    BY <1>5, <1>6, <1>7, <1>9, <1>10 DEF RecordInv

----------------------------------------------------------------------------
LEMMA NextRecordInv == RecordInv /\ [Next]_vars => RecordInv'
  <1> SUFFICES ASSUME RecordInv, [Next]_vars PROVE RecordInv'
    OBVIOUS
  <1>1. CASE Registry \/ (\E g \in Grant : Revoke(g)) \/ UNCHANGED vars
    BY <1>1, IdleSteps
  <1>2. CASE \E t \in Thread : Use(t) \/ Bootstrap(t)
    BY <1>2, BeginSteps
  <1>3. CASE \E s \in Script, kind \in Kind : Onboard(s, kind)
    BY <1>3, BeginSteps
  <1>4. ASSUME NEW a \in Actor, Step(a) PROVE RecordInv'
    BY <1>4, LoadSteps, NetworkSteps, TruncateSteps, WriteSteps DEF Step
  <1>5. CASE Stops
    <2>1. Thread \in SUBSET Actor /\ \A s \in Script : {s} \in SUBSET Actor
      BY DEF Actor
    <2> QED
      BY <1>5, <2>1, StopSteps DEF Stops
  <1> QED
    BY <1>1, <1>2, <1>3, <1>4, <1>5 DEF Next

(* In every state reachable by calls, bootstraps, scripts, kills and       *)
(* withdrawn grants, in any order, the inductive invariant holds.          *)
THEOREM RecordInvariance == Spec => []RecordInv
  BY InitRecordInv, NextRecordInv, PTL DEF Spec

(* Type correctness.                                                       *)
THEOREM RecordTypesCorrect == Spec => []RecordTypeOK
  <1>1. RecordInv => RecordTypeOK
    BY DEF RecordInv
  <1> QED
    BY <1>1, RecordInvariance, PTL

(* FileTokenStore without a lock keeps the last onboarding's record, unless *)
(* saves overlap, an onboarding lands in a refresh, or a save is killed.   *)
THEOREM LatestRecordKept == Spec => []RecordIsLatest
  <1>1. RecordInv => RecordIsLatest
    BY DEF RecordInv
  <1> QED
    BY <1>1, RecordInvariance, PTL

(* A bootstrap or a script whose save meets no other leaves its record in  *)
(* the file, whatever was there.                                           *)
THEOREM OnboardingsAreStored == Spec => OnboardingIsStored
  <1>1. ASSUME RecordInv, NEW a \in Actor, Write(a), actor[a].alone
        PROVE  file' = actor[a].record
    <2>1. file = Empty
      BY <1>1 DEF RecordInv, AloneOK, Write, Saving
    <2> QED
      BY <1>1, <2>1 DEF Write
  <1>2. RecordInv /\ [Next]_vars =>
          [\A a \in Actor :
              Write(a) /\ actor[a].op = "onboard" /\ actor[a].alone =>
                  file' = actor[a].record]_vars
    BY <1>1
  <1> QED
    BY <1>2, RecordInvariance, PTL DEF Spec, OnboardingIsStored

----------------------------------------------------------------------------
(* Where BootstrapRepairs holds, which run BrickedTenant violates: as long *)
(* as nobody was killed in a save and no two saves overlapped, the file    *)
(* holds a record, or is not there, whenever nobody is saving.             *)
FileWhole ==
    ~mixed /\ ~killed /\ Saving = {} => file \in Record \cup {Absent}

LEMMA FileStaysWhole ==
    ASSUME RecordInv, FileWhole, [Next]_vars
    PROVE  FileWhole'
  <1>1. CASE \/ Registry \/ (\E g \in Grant : Revoke(g)) \/ UNCHANGED vars
             \/ \E t \in Thread : Use(t) \/ Bootstrap(t)
             \/ \E s \in Script, kind \in Kind : Onboard(s, kind)
             \/ \E a \in Actor : Load(a) \/ Refresh(a) \/ Exchange(a)
    <2>1. UNCHANGED <<file, mixed, killed>>
      BY <1>1 DEF Registry, GetFromSettings, GetProvider, GetName, Revoke, vars,
                  historyVars, Use, Bootstrap, Onboard, Load, Refresh, Exchange
    <2>2. \A a \in Saving : a \in Actor /\ actor[a].pc = "write"
      BY DEF Saving
    <2>3. \A a \in Saving : actor'[a] = actor[a]
      BY <1>1, <2>2
         DEF Registry, GetFromSettings, GetProvider, GetName, Revoke, vars,
             Use, Bootstrap, Onboard, Begin, Load, Refresh, Exchange, End,
             RecordInv, RecordTypeOK
    <2>4. Saving' = {} => Saving = {}
      BY <2>2, <2>3 DEF Saving
    <2> QED
      BY <2>1, <2>4 DEF FileWhole
  <1>2. ASSUME NEW a \in Actor, Truncate(a)
        PROVE  FileWhole'
    <2>1. actor'[a].pc = "write"
      <3>1. actor[a] \in Call
        BY DEF RecordInv, RecordTypeOK
      <3> QED
        BY <1>2, <3>1 DEF Truncate, Call
    <2> QED
      BY <2>1 DEF FileWhole, Saving
  <1>3. ASSUME NEW a \in Actor, Write(a)
        PROVE  FileWhole'
    <2>1. a \in Saving /\ mixed' = mixed
      BY <1>3 DEF Write, Saving
    <2>2. ~mixed => file = Empty
      BY <2>1 DEF RecordInv, AloneOK
    <2>3. actor[a].record \in Record
      BY <1>3 DEF RecordInv, CallOK, Write
    <2>4. ~mixed => file' \in Record
      BY <1>3, <2>2, <2>3 DEF Write
    <2> QED
      BY <2>1, <2>4 DEF FileWhole
  <1>4. CASE Stops
    <2>1. PICK group \in SUBSET Actor : Stop(group)
      <3>1. Thread \in SUBSET Actor /\ \A s \in Script : {s} \in SUBSET Actor
        BY DEF Actor
      <3> QED
        BY <1>4, <3>1 DEF Stops
    <2>2. \A a \in Actor \ group : actor'[a] = actor[a]
      BY <2>1 DEF Stop
    <2>3. ~killed' => ~killed /\ (Saving' = {} => Saving = {})
      BY <2>1, <2>2 DEF Stop, Saving
    <2> QED
      BY <2>1, <2>3 DEF FileWhole, Stop
  <1> QED
    BY <1>1, <1>2, <1>3, <1>4 DEF Next, Step

(* providers/graph/auth.py: a bootstrap with nobody else at the file gets  *)
(* as far as its exchange, whatever was revoked, refreshed or overtaken    *)
(* before, unless a save was cut off or met another.                       *)
THEOREM UncutBootstrapRepairs ==
    Spec /\ [](~mixed /\ ~killed) => BootstrapRepairs
  <1>1. Init => FileWhole
    BY DEF Init, FileWhole
  <1>2. RecordInv /\ FileWhole /\ [Next]_vars => FileWhole'
    BY FileStaysWhole
  <1>3. ASSUME RecordInv, FileWhole, ~mixed, ~killed,
               NEW t \in Thread, Load(t), actor[t].op = "onboard",
               \A a \in Actor \ {t} : actor[a].pc = "idle"
        PROVE  actor'[t].pc = "network"
    <2>1. t \in Actor /\ actor[t].pc = "load"
      BY <1>3 DEF Actor, Load
    <2>2. Saving = {}
      BY <1>3, <2>1 DEF Saving
    <2>3. file \notin {Empty, Torn}
      BY <1>3, <2>2, SpecialValues DEF FileWhole
    <2>4. actor[t] \in Call /\ actor \in [Actor -> Call]
      BY <1>3, <2>1 DEF RecordInv, RecordTypeOK
    <2>5. PICK r : actor' = [actor EXCEPT ![t] =
                                [@ EXCEPT !.pc = "network", !.record = r]]
      BY <1>3, <2>3 DEF Load
    <2>6. actor'[t] = [actor[t] EXCEPT !.pc = "network", !.record = r]
      BY <2>1, <2>4, <2>5
    <2> QED
      BY <2>4, <2>6 DEF Call
  <1>4. RecordInv /\ FileWhole /\ ~mixed /\ ~killed /\ [Next]_vars =>
          [\A t \in Thread :
              Load(t) /\ actor[t].op = "onboard"
                  /\ (\A a \in Actor \ {t} : actor[a].pc = "idle") =>
                  actor'[t].pc = "network"]_vars
    BY <1>3
  <1> QED
    BY <1>1, <1>2, <1>4, RecordInvariance, PTL DEF Spec, BootstrapRepairs
=============================================================================
