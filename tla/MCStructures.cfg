SPECIFICATION Spec
INVARIANTS LayoutSound AnswersExact
PROPERTY TablesAreMaps
CHECK_DEADLOCK FALSE
