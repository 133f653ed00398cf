SPECIFICATION Spec
CONSTANTS
    ApprovalId = {a1}
    Tenant = {t1}
    Resource = {d1}
    Payload = {pl}
    Ttl = 1
    NoRecord = NoRecord
    Server = server
    Cli = {cli}
    Nobody = nobody
    NoRequest = NoRequest
    Saved <- MCSaved
INVARIANT NoLostUpdate
