SPECIFICATION FairSpec
CONSTANTS
    Piece <- PieceDef
    Junk = "j"
    Installs <- InstallsDef
    Starts <- StartsDef
    FileSize <- FileSizeDef
    MaxFaults = 3
INVARIANTS CheckedSourceIsFound CopyBeforeWrite
PROPERTIES LostOnlyWithTheCopy EventuallyInstalled
