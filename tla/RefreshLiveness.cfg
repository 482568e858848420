SPECIFICATION FairSpec
CONSTANTS
    redhat = redhat
    certified = certified
    old = old
    new = new
    strict = strict
    lax = lax
    w1 = w1
    w2 = w2
    w3 = w3
    w4 = w4
    None = None
    IDs <- MCIDs
    Images <- MCImages
    Readers = {strict}
    Configs <- OneSource
    Workers = {w1, w2, w3}
    DirectSources = {}
    MaxReloads = 1
INVARIANT NoSourceForgotten
PROPERTIES RefreshesEnd
