SPECIFICATION MCSpec
CONSTANTS
    Values <- MCValues
    Characters <- MCCharacters
    Upper <- MCUpper
    Lower <- MCLower
    HeaderNameChars <- MCHeaderNameChars
    Labels <- MCLabels
    RequestMethods <- MCMethods
    RequestPaths <- MCRequestPaths
    ReCompile <- CompileRegex
    ReCompileIgnoringCase <- MCReCompileIgnoringCase
    CompilePattern <- CompilePathnamePattern
    ReSearch <- Search
    ReFullMatch <- FullMatch
    MaxKeys = 3
    MaxLabels = 3
    NameStart <- MCNameStart
    NameContinue <- MCNameContinue
    PatternPaths <- MCPatternPaths
    Segments <- MCSegments
    Slips <- MCSlips
    MaxSegments = 3
    MaxSlipped = 2
INVARIANTS
    TypeOK
    HostsMatchByLabel
    PatternsMeanTheirSegments
    ParametersStayInTheirSegment
    FlatSequencesCoverThePattern
PROPERTIES
    KeysNarrow
CHECK_DEADLOCK FALSE
