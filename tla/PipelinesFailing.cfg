SPECIFICATION FairSpec
CONSTANTS
    A = A
    B = B
    C = C
    D = D
    Pipelines = {A, B, C, D}
    Predecessors <- DiamondPredecessors
    Fragments <- TwoThenOne
    Callers = {c1, c2}
    MaxFailures = 2
    AwsMayThrow = TRUE
INVARIANTS TypeOK InputsComplete ResultIsComplete NoUseAfterDestruction
PROPERTY Responds
