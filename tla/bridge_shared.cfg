SPECIFICATION FairSpec
CONSTANTS
    Conns = {c1, c2}
    Keys = {steve}
    NameOf <- SharedName
    ServerNames = {lobby}
    Servers = {lobby}
    PluginNames = {}
    Fallback = NoServer
    NoServer = NoServer
    NoSession = NoSession
    MaxQueue = 3
    c1 = c1
    c2 = c2
    steve = steve
    lobby = lobby
INVARIANTS OnlineExact NoGhostSession ListedWereAnnounced
PROPERTY KickEnds
