CONSTANTS
    Releases = {1, 2}
    Media = {1, 2}
    Family <- MCFamily
    NoBlock = NoBlock
    NoHash = NoHash
    Batches <- MCDuplicates
    DiscogsEdges <- MCDiscogsEdges
    Flushes = {f1}
    nobody = nobody
    REPLAY_GATE = TRUE
SPECIFICATION Spec
PROPERTY BatchIsSequential
