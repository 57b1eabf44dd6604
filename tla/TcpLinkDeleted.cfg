CONSTANTS
    MaxSessions = 1
    MaxPosted = 1
    MaxEvents = 1
SPECIFICATION Spec
INVARIANTS SocketIsThere
\* A crashed program stops.
CHECK_DEADLOCK FALSE
