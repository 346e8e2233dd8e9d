SPECIFICATION FairSpec
CONSTANTS
    chrony = chrony
    root = root
    user = user
    NoChain = NoChain
    Proxy = mitmwall
    Resolver = resolve
    NtpOrder <- MCNtpOrder
    Configurable = {root}
    Ordinary = {user}
    CustomLists <- MCCustomLists
    IsIpv6 = TRUE
    AccountsChange = TRUE
    MaxAdminRules = 1
    MaxFaults = 1
INVARIANTS
    TypeOK
    PolicyEnforced
    AdminRulesKept
    NothingAccumulates
    StopCleans
PROPERTIES
    OpensOnlyInRebuild
    RetryCleans
