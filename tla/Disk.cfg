SPECIFICATION FairSpec
CONSTANTS
    Sectors = 3
    MaxBatch = 2
    Values = {0, 1}
    MaxCount = 3
INVARIANTS
    TransferExact
    QuietAfterSuccess
PROPERTIES
    ChangesOnlyInRange
    CallsReturn
