\* Four calls: drivers that fail, do not start, serve.
SPECIFICATION FairSpec
CONSTANT
    MaxCalls = 4
\* The process ends.
CHECK_DEADLOCK FALSE
INVARIANTS
    IInv
    OneDriverHoldsThePort
    RestartsDoNotReject
PROPERTIES
    ImplementsService
    FailedDriverIsReplaced
    ShutdownEnds
