\* A second subscriber's filter, a restart's filter.
SPECIFICATION Spec
CONSTANTS
    Client = {c1, c2}
    Transport = {t1, t2}
    ForeignTransport = {file}
    Filter = {f}
    NoFilter = NoFilter
    Level = {info, debug}
    None = None
\* A server that has been destroyed and whose sockets are closed stops.
CHECK_DEADLOCK FALSE
INVARIANT
    OnlyMatchingLogs
