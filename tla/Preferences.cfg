CONSTANTS
    Keys = {"Server IP", "Your Name"}
    Default = 2
    MaxValue = 4
SPECIFICATION Spec
CHECK_DEADLOCK FALSE
INVARIANT Restartable
