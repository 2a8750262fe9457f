\* Two requests: the failure of a call that is not awaited.
SPECIFICATION Spec
CONSTANTS
    MaxRequests = 2
    MaxProgress = 0
    Version <- SomeVersions
CHECK_DEADLOCK FALSE
INVARIANTS
    FailuresAreAnswered
