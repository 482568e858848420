SPECIFICATION Spec
CONSTANTS
    Sources = {s1, s2, s3}
    Interval = 3
    Timeout = 2
    MaxFailures = 1
    MaxRestarts = 1
SYMMETRY Symmetry
INVARIANTS ServedWithinRound FreshEnough
