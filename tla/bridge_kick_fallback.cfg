SPECIFICATION Spec
CONSTANTS
    Conns = {c1}
    Keys = {c1}
    NameOf <- OwnName
    ServerNames = {lobby, game}
    Servers = {lobby, game}
    PluginNames = {}
    Fallback = lobby
    NoServer = NoServer
    NoSession = NoSession
    MaxQueue = 1
    c1 = c1
    lobby = lobby
    game = game
INVARIANT KickSticks
