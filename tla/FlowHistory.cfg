SPECIFICATION Spec
CONSTANTS
    ConfigValues <- MCConfigValues
    DefaultInterval = 4
    DefaultKeep = 2
    MaxStored = 10
    MaxFaults = 2
INVARIANTS
    HistoryBounded
    NewestKept
PROPERTIES
    TrimKeepsEnough
