SPECIFICATION FairSpec
CONSTANTS
    Nodes = {a, b, c}
    Coordinator = a
    Writers = {a, b}
    None = None
    MaxSeq = 1
    MaxEvents = 2
INVARIANTS TypeOK CommittedKnown EqualVectorsEqualState
PROPERTIES ImplementsOplog Converges
CHECK_DEADLOCK FALSE
