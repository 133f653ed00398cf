SPECIFICATION Spec
CONSTANTS
    a1 = a1
    a2 = a2
    t1 = t1
    t2 = t2
    d1 = d1
    d2 = d2
    NoRecord = NoRecord
    NoCall = NoCall
    Payload = {pl}
    Server = server
    Ttl = 1
    MaxTime = 2
    Tenant = {t1, t2}
    Resource = {d1, d2}
    ApprovalId = {a1}
    Cli = {cli}
SYMMETRY Symmetry
INVARIANTS TypeOK GateWithinGrants TermsKept GateOpensForItsOwn
PROPERTIES NoLateVerdict UsesPort
