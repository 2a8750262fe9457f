\* Two clients, two levels, so that the forwarder restarts, and a filter.
SPECIFICATION FairSpec
CONSTANTS
    Client = {c1, c2}
    Transport = {t1, t2}
    ForeignTransport = {file}
    Filter = {f}
    NoFilter = NoFilter
    Level = {info, debug}
    None = None
\* A server that has been destroyed and whose sockets are closed stops.
CHECK_DEADLOCK FALSE
INVARIANTS
    LogSubscribersServed
    EventSubscribersServed
    IdleForwarderIsTransient
    IInv
PROPERTIES
    ForeignTransportsKept
    ImplementsLogStream
    ImplementsFairLogStream
    ClosedClientsForgotten
