\* Three calls to one peer: one primary, one parked and one that displaces.
CONSTANTS
    Calls <- MCCalls
    Asks <- MCAsks
    Requests <- MCRequests
    Replies <- MCReplies
    NoCall = NoCall
    Pending = Pending
    Nothing = Nothing
SPECIFICATION FairSpec
INVARIANTS TypeOK NoOrphans AnswerFits
PROPERTIES NobodyStealsAWaiter EveryCallReturns
CHECK_DEADLOCK FALSE
