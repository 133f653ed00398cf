--------------------------- MODULE MCMailReading ---------------------------
(* Instances of MailReading for TLC: one letter the agent writes, and      *)
(* reviewers who retype its subject or its body.                           *)
EXTENDS MailReading, TLC

CONSTANTS q1, q2

MCLetters == {[subject |-> "first", body |-> "first"]}
MCEdits ==
    {[subject |-> "second", body |-> NoText],
     [subject |-> NoText, body |-> "second"]}

(* The first two attachments of a message are of one size, and the last is *)
(* too large.                                                              *)
MCParts == <<1, 1, 2, 3>>

Symmetry == Permutations(Req)

(* A read and a draft meet in the messages alone, and the owner's messages *)
(* appear in Sent as a draft's do: a state has a read under way or a draft *)
(* in the making, not both, and the draft has room to be sent.             *)
ReadOrWrite ==
    \/ /\ \A r \in Reader : reader[r] = NoRead
       /\ Len(mail) < MaxMail
    \/ /\ \A d \in DraftId : ~Exists(d)
       /\ \A q \in Req : call[q] = NoCall
=============================================================================
