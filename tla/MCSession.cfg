\* Three requests in flight, with one event.
SPECIFICATION FairSpec
CONSTANTS
    MaxRequests = 3
    MaxProgress = 1
    Version <- SomeVersions
\* When every request is answered and the connection is closed, nothing is left.
CHECK_DEADLOCK FALSE
INVARIANTS
    IInv
    EventsWereAskedFor
    AnswersInForce
    ResetAfterAnswer
PROPERTIES
    ImplementsRequests
    RequestsAreAnswered
