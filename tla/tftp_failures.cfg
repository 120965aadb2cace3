CONSTANT Settings <- OneFailing
SPECIFICATION Spec
INVARIANTS StoredIsStashed
CHECK_DEADLOCK FALSE
