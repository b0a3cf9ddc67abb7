CONSTANTS
    Schemes = {"https", ""}
    Hosts = {"github.com", "github.corp.com", "gitlab.com"}
    URIPaths <- MCURIPaths
    Queries <- MCQueries
    Manifest = "registry.yaml"
    DefaultBranch = "master"
    Nil = Nil
    NoURI = NoURI

SPECIFICATION Spec

\* Each behaviour is a single call of parseGitHubURI, which returns.
CHECK_DEADLOCK FALSE

INVARIANTS
    TypeOK
    DescriptorShape
    MCRebaseRoundTrip
