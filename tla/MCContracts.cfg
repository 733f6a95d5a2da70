\* HTTP, gRPC and AMQP contracts with every combination of a few sites.
SPECIFICATION Spec
CONSTANTS
    h1 = h1
    h2 = h2
    u1 = u1
    u2 = u2
    Ids <- MCIds
    Protocol <- MCProtocol
    Wildcard <- MCWildcard
    Symbols = {h1, h2, u1, u2}
    Unlocated = Unlocated
    Keys <- MCKeys
    Codebases <- MCCodebases
INVARIANTS CertaintyIsEarned CallsAreRouted KeysDecide
CHECK_DEADLOCK FALSE
