SPECIFICATION Spec
CONSTANTS
    Thread = {q1, q2}
    Script = {s1}
    MaxGrants = 3
    Absent = Absent
    Empty = Empty
    Torn = Torn
    NoService = NoService
    NoRecord = NoRecord
PROPERTY BootstrapRepairs
