SPECIFICATION FairSpec
CONSTANTS
    Responses = {r1, r2}
    Positions = {1, 2}
    Advisories = {a1, a2}
    Concurrency = 1
    TTL = 1
    MaxTime = 1
    None = None
INVARIANTS PendingExact AtLeastWhatWasKnown
PROPERTIES CacheMovesForward ResponsesEnd
CHECK_DEADLOCK FALSE
