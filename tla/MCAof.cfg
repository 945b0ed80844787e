SPECIFICATION Spec
CONSTANTS
    Dbs <- TwoDbs
    Setups <- Safe
INVARIANTS FileIsGood RewriteHasAll AckedIsDurable
PROPERTY ShutdownKeepsDataset
CHECK_DEADLOCK FALSE
