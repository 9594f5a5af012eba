SPECIFICATION FairSpec
CONSTANTS
    Name <- MCNames
    Disks <- MCDisks
    Folders <- MCFolders
    Alphabetical <- MCAlphabetical
    CommandLines <- MCCommandLines
    MaxDepth = 2
    MaxVia = 2
    None = None
    CR = CR
    LF = LF
INVARIANTS TypeOK OneObjectPerName LossesAreTold ConfiguredAsWritten
PROPERTIES ReadingEnds
CHECK_DEADLOCK FALSE
