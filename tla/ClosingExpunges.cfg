SPECIFICATION Spec
CONSTANTS
    Thread = {q1}
    Text = {x}
    MessageId = {m1}
    NoId = NoId
    NoMessage = NoMessage
    MaxUid <- MCInboxMaxUid
    MaxMarks = 2
PROPERTY OnlySendDestroys
