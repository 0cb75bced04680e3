SPECIFICATION Spec
CONSTANTS
    h1 = h1
    h2 = h2
    h3 = h3
    p1 = p1
    p2 = p2
    Series = {s1, s2}
    Handler = {h1, h2, h3}
    Process = {p1, p2}
    ProcOf <- MCProcOf
    MaxNumber = 2
INVARIANTS
    TypeOK
    NoGaps
    ToldMeansQueued
PROPERTIES
    ToldOnce
    DenseSpec
