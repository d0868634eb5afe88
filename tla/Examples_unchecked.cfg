SPECIFICATION Spec
CONSTANT Programs = {"KmsTriangle"}
INVARIANT FailureChecked
CHECK_DEADLOCK FALSE
