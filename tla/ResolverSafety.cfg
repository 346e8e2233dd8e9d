SPECIFICATION FairSpec
CONSTANTS
    upstream = upstream
    loopback = loopback
    root = root
    manager = manager
    StubTarget = stub
    Absent = Absent
    Root = root
    Texts <- MCTexts
    External <- MCExternal
    Owners <- MCOwners
    ManagerEntries <- MCEntries
    ManagerInterleaves = FALSE
    MaxFaults = 4
INVARIANTS
    Recoverable
PROPERTIES
    OnlyStubAndBack
    NoHairpin
    RetryRestores
