CONSTANTS
    Ids = {s1, s2}
    Paths <- MCPaths
    UnsafePaths = {"../c"}
    MaxSources = 2
    MaxArtifacts = 2
SPECIFICATION Spec
INVARIANT ReleasedIsGoverned
