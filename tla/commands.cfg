SPECIFICATION TreeSpec
CONSTANTS
    Senders = {s1, s2}
    Console = {s1}
    Plugins = {p1, p2}
    RegistersIn = {"onLoad", "event", "command"}
    MaxNames = 2
    Workers = 2
    Builtins = {"help"}
    BackendTrees <- MCTrees
    Depth = 3
    s1 = s1
    s2 = s2
    p1 = p1
    p2 = p2
INVARIANTS CycleOrigins OfferExact
PROPERTIES StallLasts CommandsFinish LoadingFinishes
CHECK_DEADLOCK FALSE
