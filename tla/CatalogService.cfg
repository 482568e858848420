SPECIFICATION Spec
CONSTANTS
    redhat = redhat
    community = community
    foreign = foreign
    custom = custom
    v1 = v1
    v2 = v2
    amd = amd
    arm = arm
    mips = mips
    index = index
    f1 = f1
    t1 = t1
    t2 = t2
    base = base
    moved = moved
    openly = openly
    broken = broken
    None = None
    Malformed = Malformed
    Unset = Unset
    BuiltIn <- MCBuiltIn
    Platforms = {amd, arm}
    DefaultPlatform = amd
    DefaultInterval = 2
    DefaultTimeout = 1
    DefaultAge = 5
    MaxDuration = 7
    Contents <- MCContents
    Configs <- MCConfigs
    Parsed <- MCParsed
    MaxEdits = 2
    IDs <- MCIDs
    Images <- MCImages
    TokenFiles = {f1}
    Tokens = {t1, t2}
    Credentials = {t1}
INVARIANTS RememberedIsActive ViewsAgree
PROPERTIES RefreshesAuthorized NothingPassedOver FileTakesEffect
CHECK_DEADLOCK FALSE
