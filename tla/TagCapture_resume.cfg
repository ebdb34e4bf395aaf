CONSTANTS
    tags <- MCTags
    genres <- MCGenres
    NONE = 9
    GENRE_ONLY = 8
    Total = 4
    Weights = {0, 1, 3, 4}
    max_requests = 3
    max_attempts = 2
SPECIFICATION Spec
INVARIANTS TypeOK CompletedReplays BeamIsNoWorse EveryTagReported
PROPERTY RunEnds
CHECK_DEADLOCK FALSE
