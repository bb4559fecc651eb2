\* One writable path, the legacy known-hosts path, texts of one and two
\* chunks, one concurrent reader.  Three generations: an active one,
\* one under construction and one left behind (or read, or retired).
CONSTANTS
    config = config
    legacy = legacy
    short = short
    long = long
    None = None
    Path = {config, legacy}
    Value = {short, long}
    Generation = {g1, g2, g3}
    Reader = {r1}
    LegacyPath = legacy
    ChunkCount <- MCChunkCount
SYMMETRY GenerationSymmetry
SPECIFICATION Spec
INVARIANTS
    TypeOK
    PublishedComplete
    ReadsAreHonest
PROPERTIES
    ImplementsRegister
    CollectLeavesNoGarbage
