\* Two sessions with the broker, and a snapshot update at any moment.
SPECIFICATION PubSpec
CONSTANTS
    MaxSessions = 2
INVARIANT RediscoveryNotErased
CHECK_DEADLOCK FALSE
