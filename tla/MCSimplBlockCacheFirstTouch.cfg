\* The very first touch of the table stamps lru 0, the stamp of an empty way.
CONSTANTS
    SetBits = 1
    TagBits = 2
    Assoc = 2
    MaxCounter = 1
    LruBits = 8
    PCs = {0, 1, 2, 3}
    Histories = {0}
    Distances = {1}
    MaxTouches = 3
SPECIFICATION Spec
PROPERTY VictimIsLeastRecent
