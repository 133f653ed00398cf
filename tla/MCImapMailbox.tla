--------------------------- MODULE MCImapMailbox ---------------------------
(* Instances of ImapMailbox for TLC.                                       *)
EXTENDS ImapMailbox, TLC

(* Two drafts and two copies in Sent.                                      *)
MCMaxUid == [role \in Role |-> IF role = "inbox" THEN 0 ELSE 2]

(* Two messages received, and one draft.                                   *)
MCInboxMaxUid ==
    [role \in Role |-> CASE role = "inbox" -> 2 [] role = "drafts" -> 1
                         [] OTHER -> 0]

MCSymmetry == Permutations(Thread) \cup Permutations(Text)
                  \cup Permutations(MessageId)
=============================================================================
