SPECIFICATION Spec
CONSTANT Setups <- BusyLinks
INVARIANTS VoteIsDurable
CHECK_DEADLOCK FALSE
