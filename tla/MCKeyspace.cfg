SPECIFICATION Spec
CONSTANTS
  Dbs = {0, 1}
  Keys = {"a", "b"}
  Clients = {1, 2, 3}
  Scripts <- MCScripts
  Setups <- MCSetups
INVARIANTS PropagationExact BlockedServed ElementsConserved AtomicSeen
CHECK_DEADLOCK FALSE
