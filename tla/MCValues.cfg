SPECIFICATION Spec
INVARIANTS StreamExact RequestsExact SnapshotExact PackedExact
PROPERTY RewriteExact
CHECK_DEADLOCK FALSE
