CONSTANTS
    s1 = s1
    s2 = s2
    s3 = s3
    p1 = p1
    p2 = p2
    SHAs <- MCSHAs
    Branches <- MCBranches
    DefaultBranch = "master"
    NoRef = NoRef
    Paths <- MCPaths
    Descriptors <- SameRegistryURIs
    None = None
    Err = Err
    Absent = Absent
    Corrupt = Corrupt
SYMMETRY SHASymmetry
SPECIFICATION Spec
INVARIANT TypeOK
INVARIANT ReturnedCoherent
INVARIANT ResultIsCached
PROPERTY MkdirOnlyAfterFetch
