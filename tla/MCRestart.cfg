SPECIFICATION AlertsSpec
CONSTANTS
    pA = pA
    Messages = {1, 2}
    Workers = {w1}
    MaxAttempts = 2
    BatchLimit = 2
    MaxCrashes = 1
    Subjects = {pA}
    Incidents = {1, 2}
    SubjectOf <- OneProduct
    Evaluators = {e1, e2}
INVARIANTS
    OneEmailPerIncident
CHECK_DEADLOCK FALSE
