CONSTANTS
    None = None
    ip1 = ip1
    ip2 = ip2
    k1 = k1
    k2 = k2
    s1 = s1
    s2 = s2
    n1 = n1
    c1 = c1
    c2 = c2
    Ips = {ip1, ip2}
    Ports = {1, 2}
    ClientIds = {k1, k2}
    SessionIds = {s1}
    Names = {n1}
    Messages <- MCShared
    Callers = {c1, c2}
    Edited = {}
    Edits = {}
    PortsCollide = FALSE
    Restarts = TRUE
SPECIFICATION Spec
INVARIANT IndexExact
CHECK_DEADLOCK FALSE
SYMMETRY CallerSymmetry
