SPECIFICATION FairSpec
CONSTANTS
    ApprovalId = {a1}
    Tenant = {t1, t2}
    Resource = {d1}
    Payload = {pl}
    Ttl = 1
    NoRecord = NoRecord
    Server = server
    Cli = {cli}
    Nobody = nobody
    NoRequest = NoRequest
    Saved <- MCSaved
INVARIANTS FileTypeOK UpdatesKept
PROPERTIES ImplementsStore LockIsReleased
