\* All operations against a box that may ignore, be deaf, or move on its own.
CONSTANT MaxStops = 10
SPECIFICATION FairSpec
INVARIANTS
    ContractKept
    RequestsBounded
    QuietBoxReported
    PlayFindsBoxStopped
PROPERTY OperationsEnd
