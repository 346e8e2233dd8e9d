SPECIFICATION FairSpec
CONSTANTS
    ipv4 = ipv4
    ipv6 = ipv6
    SendRedirects = send_redirects
    NoSnapshot = NoSnapshot
    Families <- MCFamilies
    FamilyOrder <- MCFamilyOrder
    SysctlValues = {0, 1, 2}
    MaxFaults = 5
INVARIANTS
    TypeOK
    SnapshotIsOriginal
    UnmanagedIsOriginal
    RunningIsGuarded
PROPERTIES
    OnlyReguardExposes
    ImplementsLoan
    RetryRestores
