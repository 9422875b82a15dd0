SPECIFICATION Spec
CONSTANTS
    Nodes <- MCNodes
    Graphs <- MCGraphs
    Times = {0, 1, 2, 3}
    Anchor = "a"
    AnchorTime = 2
    WindowStart = 1
    MaxDepth = 3
INVARIANTS
    TypeOK
    OnlyCausalEdges
    CompleteUnlessCut
PROPERTY
    Ends
CHECK_DEADLOCK FALSE
