CONSTANTS
    Block <- MCBlock
    Content <- MCContent
    Zero = "0"
    Junk = "#"
    SourceImage <- MCSource
    StashIds <- MCStashIds
    Lists <- OnlyNewAroundStash
    StaleIndex <- NoIndex
    RetryFlags = {FALSE}
    MaxFaults = 1
SPECIFICATION Spec
INVARIANTS
    UpdateCorrect
