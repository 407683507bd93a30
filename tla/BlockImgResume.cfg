CONSTANTS
    Block <- MCBlock
    Content <- MCContent
    Zero = "0"
    Junk = "#"
    SourceImage <- MCSource
    StashIds <- MCStashIds
    Lists <- MCLists
    StaleIndex <- NoIndex
    RetryFlags = {TRUE, FALSE}
    MaxFaults = 2
SPECIFICATION FairSpec
INVARIANTS
    TypeOK
    UpdateCorrect
    Resumable
    StashIntact
    ResumePointSafe
PROPERTIES
    OnlyTargetsWritten
    EventuallyUpdated
