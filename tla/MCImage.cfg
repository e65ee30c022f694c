\* The jobs from their submission, and one generated image with exporters and receivers.
CONSTANTS
    j1 = j1  j2 = j2  p1 = p1  p2 = p2
    Jobs = {j1, j2}
    Procs = {p1, p2}
    None = None
    Loads <- MCLoads
    MaxAttempts = 2
    MaxCalls = 3
    h1 = h1  h2 = h2
    Hashes = {h1, h2}
    Prepared = {j1}
SPECIFICATION ASpec
SYMMETRY Perms
CHECK_DEADLOCK FALSE
INVARIANTS OneGeneration OneInFlight BoundToOwnTurn Provenance
PROPERTIES CancelHolds
