SPECIFICATION FlowSpec
CONSTANTS
    a1 = a1
    a2 = a2
    q1 = q1
    q2 = q2
    Req = {q1, q2}
    ApprovalId = {a1, a2}
    Cli = {}
    Tenant = {t1}
    Gmail = {t1}
    Resource = {d1, d2}
    Text = {"original", "retyped"}
    NoText = ""
    NoRecord = NoRecord
    NoCall = NoCall
    NoTask = NoTask
    Nil = Nil
    NoDraft = NoDraft
    SentDraft = SentDraft
    Server = server
    Payload <- MCPayload
    Written <- MCWritten
    CardEdits <- BothEdits
    Ttl = 1
    MaxTime = 2
VIEW WithoutOtherLines
CONSTRAINT OneOrTwoRequests
SYMMETRY Symmetry
INVARIANTS FlowTypeOK SentOnlyWhatWasAsked SentFieldsReviewedOrTyped ApprovedTextWasApplied SentLinesAreTrue
PROPERTIES ImplementsLifecycle KeepsPromise
