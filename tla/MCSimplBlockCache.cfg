\* Two sets of two ways, four PCs: evictions, refreshes, confidence loss and
\* clears, with an lru field wide enough that the stamps never wrap,
\* checked against the PathTableMap the table implements.
CONSTANTS
    SetBits = 1
    TagBits = 2
    Assoc = 2
    MaxCounter = 1
    LruBits = 8
    PCs = {0, 1, 2, 3}
    Histories = {0, 1}
    Distances = {0, 1}
    MaxTouches = 6
SPECIFICATION Spec
INVARIANT TypeOK
PROPERTY TableImplementsMap
