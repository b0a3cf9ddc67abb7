CONSTANTS
    Schemes = {"https", ""}
    Hosts = {"github.com", "github.corp.com", "github.other.com"}
    URIPaths <- MCPaths
    Queries <- MCQueries
    Manifest = "registry.yaml"
    DefaultBranch = "master"
    Nil = Nil
    Regs = {r1, r2}
    RegURIs <- TwoHostURIs
    None = None

SPECIFICATION Spec


INVARIANT
    CallsReachOwnHost
