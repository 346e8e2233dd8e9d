SPECIFICATION Spec
CONSTANTS
    chrony = chrony
    root = root
    user = user
    NoChain = NoChain
    Proxy = mitmwall
    Resolver = resolve
    NtpOrder <- MCNtpOrder
    Configurable = {root}
    Ordinary = {user}
    CustomLists <- MCCustomLists
    IsIpv6 = FALSE
    AccountsChange = TRUE
    MaxAdminRules = 0
    MaxFaults = 0
INVARIANTS
    StopRemovesNtpBypasses
