SPECIFICATION FairSpec
CONSTANTS
    ValidateUsernames = TRUE
    TryFallback = TRUE
    Names = {lobby, game, hub, spare}
    Configured = {{}, {spare}, {hub, spare}, {lobby, hub}, {game, lobby, hub}, {game}}
    DefaultServer = lobby
    FallbackServer = hub
    ForcedServer = game
    NoServer = NoServer
    Retries = 2
    MaxPackets = 3
    lobby = lobby
    game = game
    hub = hub
    spare = spare
INVARIANTS LoginReadable AttemptsExact RequestsAnswered ConversationReadable
PROPERTY LoginEnds
CHECK_DEADLOCK FALSE
