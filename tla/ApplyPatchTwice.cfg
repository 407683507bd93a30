SPECIFICATION FairSpec
CONSTANTS
    Piece <- PieceDef
    Junk = "j"
    Installs <- InstallsDef
    Starts <- StartsDef
    FileSize <- FileSizeDef
    MaxFaults = 2
PROPERTIES KeepsItsPromise
