SPECIFICATION PluginSpec
CONSTANTS
    Plugins = {p1, p2}
    Tasks = {t1, t2}
    Priorities = {0, 1}
    MaxHandlers = 3
    p1 = p1
    p2 = p2
    t1 = t1
    t2 = t2
INVARIANT PriorityOrder
