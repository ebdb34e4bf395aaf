CONSTANTS
    Releases = {1, 2}
    Media = {1, 2}
    Family <- MCFamily
    NoBlock = NoBlock
    NoHash = NoHash
    Batches <- MCBatches
    DiscogsEdges <- MCDiscogsEdges
    Flushes = {f1, f2}
    nobody = nobody
    REPLAY_GATE = TRUE
SPECIFICATION Spec
INVARIANT FlushesNeverDeadlock
