SPECIFICATION FairSpec
CONSTANTS
    MaxBytes = 3
    MaxRead = 2
    Capacity = 1
INVARIANTS InOrder LossOnlyToHungUp OrderlyEndIsComplete
PROPERTIES ShutDownEndsThread
