SPECIFICATION FairSpec
CONSTANTS
    Ids = {i1}
    i1 = i1
    HasFallback = TRUE
    MaxOut = 2
    MaxActions = 2
    MaxAsked = 3
CHECK_DEADLOCK FALSE
INVARIANTS PendingHasTimer MatchesSentOnce KickPacketOnce GapOnlyByCancel
PROPERTY RequestAnswered
