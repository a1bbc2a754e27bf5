SPECIFICATION Spec
CHECK_DEADLOCK FALSE
SYMMETRY Symmetry
CONSTANTS
    m = m
    x = x
    t = t
    s1 = s1
    s2 = s2
    h = h
    rd = rd
    c1 = c1
    c2 = c2
    c3 = c3
    None = None
    Refs <- MCRefs
    Branches <- MCBranches
    Commits <- MCCommits
    Anc <- MCAnc
    Sessions <- Pair
    HeadSetters <- Setter
    Readers <- Reader
    Setting <- MCSetting
    Scenes <- MCScenes
INVARIANTS
    TypeOK
    RefsClosed
    AdvertisedFetchable
    StatusTruthful
    NeverWedged
    HeadDanglesOnlyForCause
PROPERTIES
    FastForwardOnly
