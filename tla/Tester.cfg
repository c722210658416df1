SPECIFICATION Spec
CONSTANTS
    N = 2
    Cmd = {a, b}
    a = a
    b = b
    MaxIndex = 2
    MaxGen = 2
    Restarted = {2}
SYMMETRY Commands
INVARIANTS DivergenceCaught NoGaps ReturnedIsCommitted SnapshotThenCommands
CHECK_DEADLOCK FALSE
