-------------------------- MODULE MCRegistryCache --------------------------
(* Small instances of RegistryCache for TLC.                               *)
EXTENDS RegistryCache, TLC

CONSTANTS s1, s2, s3, p1, p2

MCSHAs == {s1, s2, s3}
MCBranches == {"master", "dev"}
MCPaths == {p1, p2}

\* `ks registry set` moves the registry between refs of one registry.yaml.
SameRegistryURIs ==
    {[refSpec |-> r, regSpecRepoPath |-> p1] : r \in {"master", "dev", NoRef}}

\* The registry is re-pointed at another directory of the same repository.
MovedRegistryURIs ==
    {[refSpec |-> "master", regSpecRepoPath |-> p] : p \in MCPaths}

\* The registry is re-pointed from master to a pinned commit of master.
RepinnedURIs ==
    {[refSpec |-> r, regSpecRepoPath |-> p1] : r \in {"master", s1}}

SHASymmetry == Permutations(MCSHAs)

=============================================================================
