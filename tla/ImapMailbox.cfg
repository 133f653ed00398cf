SPECIFICATION Spec
CONSTANTS
    Thread = {q1, q2}
    Text = {x}
    MessageId = {m1, m2}
    NoId = NoId
    NoMessage = NoMessage
    MaxUid <- MCMaxUid
    MaxMarks = 1
SYMMETRY MCSymmetry
INVARIANTS MailTypeOK LocatedIsOwn
PROPERTIES SentMeansSent NothingIsLost SeenOnlyIfAsked
