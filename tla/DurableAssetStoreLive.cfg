\* Liveness needs no symmetry and fewer values: one two-chunk text, two
\* generations, so that a write, a sweep and a concurrent read still overlap.
CONSTANTS
    config = config
    legacy = legacy
    short = short
    long = long
    None = None
    Path = {config, legacy}
    Value = {long}
    Generation = {g1, g2}
    Reader = {r1}
    LegacyPath = legacy
    ChunkCount <- MCChunkCount
SPECIFICATION FairSpec
PROPERTIES
    CallsEnd
