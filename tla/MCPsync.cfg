SPECIFICATION FairSpec
CONSTANTS
    n1 = n1
    n2 = n2
    n3 = n3
    Nodes = {n1, n2, n3}
    None = None
    BacklogSize = 2
    Setups <- Situations
INVARIANTS
    ReplicaConverges
    PlacesAgree
PROPERTY
    CatchesUp
CHECK_DEADLOCK FALSE
