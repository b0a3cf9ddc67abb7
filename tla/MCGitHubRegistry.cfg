CONSTANTS
    Schemes = {"https", ""}
    Hosts = {"github.com", "github.corp.com", "github.other.com"}
    URIPaths <- MCPaths
    Queries <- MCQueries
    Manifest = "registry.yaml"
    DefaultBranch = "master"
    Nil = Nil
    Regs = {r1, r2, r3}
    RegURIs <- OneHostURIs
    None = None

SPECIFICATION Spec

\* A public URI makes parseGitHubURI panic, which ends the process.
CHECK_DEADLOCK FALSE

INVARIANTS
    TypeOK
