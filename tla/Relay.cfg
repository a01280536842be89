SPECIFICATION Spec
CONSTANTS
    Requests = {1, 2}
    MaxInflight = 1
    MaxFaults = 1
VIEW Relevant
INVARIANTS RelaySafe
PROPERTIES ImplementsContract
CHECK_DEADLOCK FALSE
