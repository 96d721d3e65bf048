SPECIFICATION Spec
CONSTANTS
    s1 = s1
    s2 = s2
    c1 = c1
    c2 = c2
    p1 = p1
    p2 = p2
    Server <- MCServer
    Client <- MCClient
    Point <- MCPoint
    Hidden <- MCHidden
    MaxMounts <- MCMaxMounts
    None = None
INVARIANTS NoCircularWait
PROPERTIES OnlyTheStuckWait StopFrees
