\* A signal and a failure of the driver.
SPECIFICATION Spec
CONSTANT
    MaxCalls = 2
\* The process ends.
CHECK_DEADLOCK FALSE
INVARIANT
    GracefulShutdown
