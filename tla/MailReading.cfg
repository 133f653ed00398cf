SPECIFICATION ReadingSpec
CONSTANTS
    q1 = q1
    q2 = q2
    Adapter = {"gmail", "graph", "imap", "fake"}
    Req = {q1, q2}
    DraftId = {d1}
    Text = {"first", "second"}
    NoText = ""
    Quoted = "quoted"
    Letters <- MCLetters
    Edits <- MCEdits
    NoDraft = NoDraft
    GoneDraft = GoneDraft
    NoCall = NoCall
    MaxMail = 3
    Reader = {r1}
    NoRead = NoRead
    MaxLimit = 2
    Page = 2
    Parts <- MCParts
    MaxSize = 2
SYMMETRY Symmetry
CONSTRAINT ReadOrWrite
INVARIANTS ReadingTypeOK LatestEditStands ReplyStaysInThread SearchIsNewest ThreadIsWhole NotFoundIsTrue AttachmentIsItsOwn
