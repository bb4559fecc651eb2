\* One key name and the configuration; two revisions of a key and another key.
CONSTANTS
    a1 = a1
    a2 = a2
    b1 = b1
    A = A
    B = B
    Empty = Empty
    None = None
    Broken = Broken
    Config = Config
    Key = {k1}
    Text = {Empty, t1}
    Material = {a1, a2, b1}
    Identity = {A, B}
    IdOf <- MCIdOf
    Pane = {p1, p2}
    Excluded = {"silent unlink", "listing fails", "short write"}
SYMMETRY PaneSymmetry
SPECIFICATION Spec
INVARIANTS
    TypeOK
    KeptStaysDeletedGoes
    SharedConfigIsDurable
PROPERTIES
    PreparedMeansRestored
    PreviousRemainsActive
