SPECIFICATION ListSpec
CONSTANTS
    Pings = {p1, p2}
    MaxWrites = 3
    Broken = {2}
    Names = {lobby, game}
    DefaultServer = lobby
    FallbackServer = NoServer
    NoServer = NoServer
    Sites <- MCSites
    Hosts <- MCHosts
    Home <- MCHome
    p1 = p1
    p2 = p2
    lobby = lobby
    game = game
    home = home
INVARIANTS CacheMatchesFile ListMatchesRoute
PROPERTY HotReload
