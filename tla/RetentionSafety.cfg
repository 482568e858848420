SPECIFICATION Spec
CONSTANTS
    Lookups = {l1, l2, l3}
    Requests = {r1, r2}
    URLs = {official, mirror}
    MaxAges = {1, 2}
    Capacity = 1
    MaxAttempts = 3
    MaxReloads = 2
    MaxTime = 2
    None = None
SYMMETRY Symmetry
INVARIANTS RetentionBounded InFlightExact MonotonicAnswers
PROPERTIES AnswersAcceptable LatestImplemented
CHECK_DEADLOCK FALSE
