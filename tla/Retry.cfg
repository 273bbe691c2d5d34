CONSTANTS
    Operations = 3
    MaxDeadline = 24
    Grace = 2
SPECIFICATION Spec
CHECK_DEADLOCK FALSE
INVARIANTS HoldsWorkerInTime FaithfulResult
