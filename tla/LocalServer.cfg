SPECIFICATION Spec
CONSTANTS
    s1 = s1
    s2 = s2
    q1 = q1
    q2 = q2
    i1 = i1
    k1 = k1
    k2 = k2
    None = None
    Servers <- TwoServers
    Requests <- TwoRequests
    Installers <- OneInstaller
    Callers <- RequestsAndInstallers
    Children <- TwoChildren
INVARIANT TypeOK
INVARIANT NothingForgotten
INVARIANT ShownIsTrue
SYMMETRY Alike
CHECK_DEADLOCK FALSE
