SPECIFICATION Spec
INVARIANTS ClientsServed BlockedSound MoveKeepsKeys FixRepairs PlanExact
CHECK_DEADLOCK FALSE
