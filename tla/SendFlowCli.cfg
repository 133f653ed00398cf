SPECIFICATION FairFlowSpec
CONSTANTS
    a1 = a1
    a2 = a2
    q1 = q1
    q2 = q2
    Req = {q1, q2}
    ApprovalId = {a1}
    Cli = {cli}
    Tenant = {t1}
    Gmail = {}
    Resource = {d1}
    Text = {"original", "retyped"}
    NoText = ""
    NoRecord = NoRecord
    NoCall = NoCall
    NoTask = NoTask
    Nil = Nil
    NoDraft = NoDraft
    SentDraft = SentDraft
    Server = server
    Payload <- MCPayload
    Written <- MCWritten
    CardEdits <- SubjectEdits
    Ttl = 1
    MaxTime = 0
VIEW WithoutHistory
INVARIANTS DeliveredWithinOpenings DeliveredWithinGrants
PROPERTY EveryTaskEnds
