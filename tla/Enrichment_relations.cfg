CONSTANTS
    Entities = {1, 2, 3, 4, 5}
    Artists = {1, 2, 3}
    EdgeType <- MCEdgeType
    Facts <- MCFacts
    ArtistBatches <- MCArtistBatches
    LabelBatches <- MCLabelBatches
    MasterBatches <- MCMasterBatches
    NoTarget = NoTarget
    NoHash = NoHash
    Flushes = {f1, f2}
    REPLAY_GATE = TRUE
SPECIFICATION Spec
INVARIANTS TypeOK RelationsDigestEarned EdgesAreFacts
PROPERTY ReplayResolves
SYMMETRY FlushSymmetry
