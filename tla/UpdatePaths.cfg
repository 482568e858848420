SPECIFICATION FairSpec
CONSTANTS
    Bundles <- MCBundles
    Channels <- MCChannels
    Versions <- MCVersions
    Family <- MCFamily
    Suffix <- MCSuffix
    Packages <- MCPackages
    None = None
INVARIANTS OffersExact ReleasesExact NeverLost StaysOnPath NextPrefersNewer
PROPERTY SearchesEnd
CHECK_DEADLOCK FALSE
