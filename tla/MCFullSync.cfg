SPECIFICATION Spec
CONSTANTS
    c1 = c1
    c2 = c2
    c3 = c3
    Clients = {c1, c2, c3}
    Dbs <- TwoDbs
    Setups <- Safe
INVARIANTS ReplicaGetsDataset BooksBalance
CHECK_DEADLOCK FALSE
