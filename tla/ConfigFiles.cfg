SPECIFICATION FileSpec
CONSTANTS
    redhat = redhat
    community = community
    foreign = foreign
    custom = custom
    v1 = v1
    v2 = v2
    amd = amd
    arm = arm
    mips = mips
    index = index
    Malformed = Malformed
    Unset = Unset
    BuiltIn <- MCBuiltIn
    Platforms = {amd, arm}
    DefaultPlatform = amd
    DefaultInterval = 2
    DefaultTimeout = 1
    DefaultAge = 5
    MaxDuration = 7
    Files <- MCFiles
INVARIANTS ExpansionExact AgeCheckExact
CHECK_DEADLOCK FALSE
