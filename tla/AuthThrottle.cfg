SPECIFICATION Spec
CONSTANTS
    a1 = a1
    a2 = a2
    f1 = f1
    f2 = f2
    f3 = f3
    Addrs <- TwoAddrs
    Failures <- ThreeFailures
    Limit = 2
    Window = 3
INVARIANT TypeOK
INVARIANT GuessBudget
PROPERTY LockoutDeserved
PROPERTY LockoutEnds
