SPECIFICATION SpecLifecycle
CONSTANTS
    MaxFaults = 1
    Careful = FALSE
INVARIANT NoMixture
