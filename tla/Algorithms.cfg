CONSTANTS
    Chars <- Characters
    MaxBuffer = 3
    MaxText = 5
SPECIFICATION Spec
CHECK_DEADLOCK FALSE
INVARIANTS TailExact KeysPurged
