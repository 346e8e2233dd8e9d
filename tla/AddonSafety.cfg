SPECIFICATION Spec
CONSTANTS
    Hosts = {"chatgpt", "machine"}
    LocalHost = "machine"
    Methods = {"GET", "POST"}
    Paths = {"/", "/api"}
    NoPathname = NoPathname
    Headers = {"auth"}
    NoHeaders = NoHeaders
    RuleLists <- MCFewRuleLists
    Parts <- MCParts
    Broken = Broken
    Absent = Absent
    NoText = NoText
    NoRequest = NoRequest
    Interruptible = TRUE
    ConfigValues = {}
    DefaultInterval = 2
    DefaultKeep = 1
    MaxStored = 2
    MaxFaults = 0
INVARIANTS
    TypeOK
    NamesResolve
    AppliedImmediately
PROPERTIES
    OnlyEditsBreakRules
    StartKeepsFiles
    
