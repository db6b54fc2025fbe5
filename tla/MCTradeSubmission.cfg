SPECIFICATION SubmissionSpec
CONSTANTS
    Requests = {r1, r2}
    r1 = r1
    r2 = r2
    Signers = {k1, k2}
    k1 = k1
    k2 = k2
    Kinds = {"open", "add", "reduce", "ladder"}
    Cap = 2
INVARIANTS
    SubmissionTypeOK
PROPERTIES
    PromiseKept
    
    RequestsAnswered
CHECK_DEADLOCK FALSE
