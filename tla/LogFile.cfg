SPECIFICATION FairSpec
CONSTANTS
    ByteCountMax = 2
    RotateCount = 2
    None = None
    MaxRecords = 11
    MaxLost = 1
    MaxRestarts = 2
INVARIANTS TypeOK WritesToCurrentFile RotationNeverExits
PROPERTIES ImplementsJournal FullIsRotated
CHECK_DEADLOCK FALSE
