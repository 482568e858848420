CONSTANTS
    Packages = {"a", "z"}
    Channels = {"c1", "c2"}
    Bundles = {"b1", "b2"}
    Versions = {"v1", "v2"}
    None = None
    Walkers = {w1, w2}
    Catalogs <- MCCatalogs
SPECIFICATION Spec
INVARIANT SameInAnyOrder
PROPERTIES ReadsWhole ReadEnds
CHECK_DEADLOCK FALSE
