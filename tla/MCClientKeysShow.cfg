SPECIFICATION Spec
CONSTANTS
    Requests = {r1, r2}
    Names = {x, y}
    MaxKeys = 2
INVARIANT
    NewKeyShows
