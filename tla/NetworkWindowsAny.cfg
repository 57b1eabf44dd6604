CONSTANTS
    MaxSessions = 3
    MaxPosted = 3
    MaxEvents = 3
    Clients = {c1, c2, c3}
    MaxThreads = 1
    MaxStarts = 2
    MaxCalls = 1
    Peers = {p1, p2}
    MaxClicks = 3
    Topics = {t1, t2}
    MaxRows = 2
    MaxChat = 1
SPECIFICATION AnySpec
INVARIANTS SentInItsSession StoppedServesNobody WindowsShowTheLink
PROPERTY ThreadsComeFree
\* A crashed program stops, and the clicks are bounded.
CHECK_DEADLOCK FALSE
