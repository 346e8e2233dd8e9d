SPECIFICATION Spec
CONSTANTS
    Hosts = {"chatgpt", "machine"}
    LocalHost = "machine"
    Methods = {"GET", "POST"}
    Paths = {"/", "/api"}
    NoPathname = NoPathname
    Headers = {"auth"}
    NoHeaders = NoHeaders
    RuleLists <- MCRuleLists
    Parts <- MCParts
    Broken = Broken
    Absent = Absent
    NoText = NoText
    NoRequest = NoRequest
    Interruptible = FALSE
    ConfigValues = {}
    DefaultInterval = 2
    DefaultKeep = 1
    MaxStored = 2
    MaxFaults = 0
INVARIANTS
    HeadersAsDocumented
