SPECIFICATION Spec
CONSTANTS
    Conns = {c1, c2}
    Keys = {c1, c2}
    NameOf <- OwnName
    ServerNames = {lobby, game, ghost}
    Servers = {lobby, game}
    PluginNames = {game, ghost}
    Fallback = lobby
    NoServer = NoServer
    NoSession = NoSession
    MaxQueue = 1
    c1 = c1
    c2 = c2
    lobby = lobby
    game = game
    ghost = ghost
SYMMETRY ConnSymmetry
INVARIANTS PlayersListed NameMatchesBackend PluginViewCurrent
PROPERTY ImplementsDirectory
