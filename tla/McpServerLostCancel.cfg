SPECIFICATION Spec
CONSTANT Id = {i1}
INVARIANT RevocationReachesCall
CHECK_DEADLOCK FALSE
