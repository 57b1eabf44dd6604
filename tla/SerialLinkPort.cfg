CONSTANTS
    MaxSessions = 2
    MaxShown = 2
    MaxPosted = 2
    MaxEvents = 1
SPECIFICATION FairSpec
INVARIANTS WireFollowsScreen RestShowsTheTruth
PROPERTY PortIsReleased
\* A deleted window stops.
CHECK_DEADLOCK FALSE
