\* Two goroutines of the server call DoWithLock on the default dedupe group.
CONSTANTS
    c1 = c1  c2 = c2  k1 = k1
    NoOwner = NoOwner
    Callers <- MCCallers
    Keys <- MCKeys
    MaxCalls = 1
SPECIFICATION Spec
CHECK_DEADLOCK FALSE
INVARIANT NoPanic
