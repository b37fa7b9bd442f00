CONSTANTS
    IPv4 = {"x1", "x2", "x3", "p1", "p2", "h1", "c1"}
    IPv6 = {"six"}
    TTLMax = 3
    Malformed <- MCMalformed
    BadLabels = {"_"}
    LowerCase <- MCLowerCase
    Worlds <- MCWorlds
    Config <- MCConfig
    Children <- MCChildren
    Objects <- MCObjects
    Changes <- MCChanges
    MaxChanges = 2
    MaxFaults = 1
SPECIFICATION Spec
INVARIANTS TypeOK
PROPERTIES Undisturbed AllOrNothing RoutesServed Settles QuietInTheEnd
