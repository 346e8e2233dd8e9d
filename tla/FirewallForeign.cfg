SPECIFICATION FairSpec
CONSTANTS
    chrony = chrony
    root = root
    user = user
    NoChain = NoChain
    Proxy = mitmwall
    Resolver = resolve
    NtpOrder <- MCNoNtp
    Configurable = {root}
    Ordinary = {user}
    CustomLists <- MCCustomLists
    IsIpv6 = FALSE
    AccountsChange = FALSE
    MaxAdminRules = 1
    MaxFaults = 1
PROPERTIES
    RemovesOnlyTagged
