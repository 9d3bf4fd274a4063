SPECIFICATION Spec
INVARIANT StopIsClean
