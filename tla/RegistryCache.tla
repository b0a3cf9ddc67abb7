--------------------------- MODULE RegistryCache ---------------------------
(***************************************************************************)
(* The registry-inventory cache of pkg/registry/github.go.                 *)
(*                                                                         *)
(* One ksonnet process at a time calls GitHub.FetchRegistrySpec, which     *)
(* loads the cached registry.yaml, asks GitHub for the commit the          *)
(* configured refSpec points to, and then either serves the cache (hit),   *)
(* serves the cache stamped with the refSpec (network failure), or fetches *)
(* registry.yaml at that commit, creates the cache directory and rewrites  *)
(* the cache file.  Between calls the user may re-point the registry with  *)
(* GitHub.SetURI, and upstream branches move at any time.  The process may *)
(* be killed at any step of a call.                                        *)
(*                                                                         *)
(* Data is abstract: the content of registry.yaml at path p in commit s is *)
(* the pair Inventory(p, s); a hubDescriptor is reduced to the two fields  *)
(* the cache protocol reads, refSpec and regSpecRepoPath.                  *)
(***************************************************************************)
EXTENDS FiniteSets

CONSTANTS
    SHAs,           \* commit ids
    Branches,       \* symbolic refs: branch and tag names
    DefaultBranch,  \* "master", what CommitSHA1 resolves the empty refSpec to
    NoRef,          \* the empty refSpec "" (enterprise URI without ?ref=)
    Paths,          \* repo paths of registry.yaml (regSpecRepoPath)
    Descriptors,    \* the parsed URIs the registry can be configured with
    None,           \* no value (nil spec, no result yet)
    Err,            \* a call that returned an error
    Absent,         \* no cache file on disk
    Corrupt         \* a cache file that does not decode to a usable spec

RefSpecs == Branches \cup SHAs \cup {NoRef}

\* The two fields of a hubDescriptor (github.go:483-490) the cache uses.
Descriptor == [refSpec: RefSpecs, regSpecRepoPath: Paths]

\* The registry spec (registry.Spec): its Version, what it lists, and the
\* Version every library entry carries (updateLibVersions makes them equal).
RegSpec == [version: SHAs, content: Paths \X SHAs, libVersion: RefSpecs]

ASSUME ConstAssumption ==
    /\ SHAs # {}
    /\ DefaultBranch \in Branches
    /\ Branches \cap SHAs = {}
    /\ NoRef \notin Branches \cup SHAs
    /\ Descriptors # {}
    /\ Descriptors \subseteq Descriptor
    /\ {None, Err, Absent, Corrupt} \cap RegSpec = {}
    /\ None \notin SHAs
    /\ None # Err
    /\ Absent # Corrupt

VARIABLES
    head,     \* remote: the commit each branch points to
    hd,       \* gh.hd, the parsed form of the configured URI
    cache,    \* the file <cache root>/<registry name>/registry.yaml
    dir,      \* whether the cache directory exists
    pc,       \* where the running FetchRegistrySpec call is
    loaded,   \* its local registrySpec as loaded from the cache
    sha,      \* its local sha, the resolved commit
    fetched,  \* its local registrySpec as fetched from GitHub
    ret       \* what the last call returned

vars == <<head, hd, cache, dir, pc, loaded, sha, fetched, ret>>

PCs == {"idle", "resolve", "fetch", "mkdir", "write", "writing"}

\* Type invariant of the cache protocol: the cache file is absent, corrupt
\* or a spec, and the locals of a call hold a spec, a sha or nothing.
TypeOK ==
    /\ head \in [Branches -> SHAs]
    /\ hd \in Descriptors
    /\ cache \in {Absent, Corrupt} \cup RegSpec
    /\ dir \in BOOLEAN
    /\ pc \in PCs
    /\ loaded \in {None} \cup RegSpec
    /\ sha \in {None} \cup SHAs
    /\ fetched \in {None} \cup RegSpec
    /\ ret \in {None, Err} \cup RegSpec

(***************************************************************************)
(* Helpers.                                                                *)
(***************************************************************************)

\* The content of registry.yaml at path p in commit s.
Inventory(p, s) == <<p, s>>

\* defaultGitHub.CommitSHA1: the empty refSpec means master; a commit id
\* names itself; a branch resolves to where it points now.
CommitSHA1(ref) ==
    CASE ref = NoRef -> head[DefaultBranch]
      [] ref \in SHAs -> ref
      [] OTHER        -> head[ref]

\* updateLibVersions: every library entry is stamped with version.
UpdateLibVersions(spec, version) == [spec EXCEPT !.libVersion = version]

\* The end of a call: it returns r and its locals are gone.
Return(r) ==
    /\ pc' = "idle"
    /\ ret' = r
    /\ loaded' = None
    /\ sha' = None
    /\ fetched' = None

Init ==
    /\ head \in [Branches -> SHAs]
    /\ hd \in Descriptors
    /\ cache = Absent
    /\ dir = FALSE
    /\ pc = "idle"
    /\ loaded = None
    /\ sha = None
    /\ fetched = None
    /\ ret = None

(***************************************************************************)
(* Environment.                                                            *)
(***************************************************************************)

\* Someone pushes to branch b, or moves tag b, upstream.
Push(b, s) ==
    /\ head' = [head EXCEPT ![b] = s]
    /\ UNCHANGED <<hd, cache, dir, pc, loaded, sha, fetched, ret>>

\* The process is killed in the middle of a call; disk keeps what it has.
Crash ==
    /\ pc # "idle"
    /\ Return(None)
    /\ UNCHANGED <<head, hd, cache, dir>>

(***************************************************************************)
(* GitHub.SetURI: the URI is parsed and validated over the network, then   *)
(* gh.hd and the config's URI are replaced.  The cache is left as it is.   *)
(***************************************************************************)
SetURI(d) ==
    /\ pc = "idle"
    /\ hd' = d
    /\ ret' = None
    /\ UNCHANGED <<head, cache, dir, pc, loaded, sha, fetched>>

(***************************************************************************)
(* GitHub.FetchRegistrySpec, one action per step that reads or writes      *)
(* state outside the process.                                              *)
(***************************************************************************)

\* Mutation of LoadCache: a load error is not checked and the file is used.
LoadCacheUnchecked ==
    /\ pc = "idle"
    /\ pc' = "resolve"
    /\ loaded' = cache
    /\ ret' = None
    /\ UNCHANGED <<head, hd, cache, dir, sha, fetched>>

\* load(): a file that is missing or does not decode counts as no cache.
LoadCache ==
    /\ pc = "idle"
    /\ pc' = "resolve"
    /\ loaded' = IF cache \in RegSpec THEN cache ELSE None
    /\ ret' = None
    /\ UNCHANGED <<head, hd, cache, dir, sha, fetched>>

\* resolveLatestSHA fails (error, timeout or empty sha): serve the cache
\* stamped with the configured refSpec, or fail if there is none.
ResolveFailed ==
    /\ pc = "resolve"
    /\ Return(IF loaded = None THEN Err
              ELSE UpdateLibVersions(loaded, hd.refSpec))
    /\ UNCHANGED <<head, hd, cache, dir>>

\* The cached spec was fetched at the commit the refSpec points to now.
CacheIsCurrent == loaded # None /\ loaded.version = CommitSHA1(hd.refSpec)

\* Mutation of ResolveHit: any existing cache counts as current.
ResolveHitAnyCache ==
    /\ pc = "resolve"
    /\ loaded # None
    /\ Return(UpdateLibVersions(loaded, CommitSHA1(hd.refSpec)))
    /\ UNCHANGED <<head, hd, cache, dir>>

\* Cache hit: serve the cached spec stamped with the resolved commit.
ResolveHit ==
    /\ pc = "resolve"
    /\ CacheIsCurrent
    /\ Return(UpdateLibVersions(loaded, CommitSHA1(hd.refSpec)))
    /\ UNCHANGED <<head, hd, cache, dir>>

\* Mutation of ResolveStale: the cache directory is created before the fetch.
ResolveStaleEarlyMkdir ==
    /\ pc = "resolve"
    /\ ~CacheIsCurrent
    /\ sha' = CommitSHA1(hd.refSpec)
    /\ pc' = "fetch"
    /\ dir' = TRUE
    /\ UNCHANGED <<head, hd, cache, loaded, fetched, ret>>

\* Cache missing or stale: go and fetch registry.yaml at the resolved commit.
ResolveStale ==
    /\ pc = "resolve"
    /\ ~CacheIsCurrent
    /\ sha' = CommitSHA1(hd.refSpec)
    /\ pc' = "fetch"
    /\ UNCHANGED <<head, hd, cache, dir, loaded, fetched, ret>>

\* Mutation of FetchRemoteSpec: Contents is called without the Ref option
\* and reads the default branch.
FetchRemoteSpecDefaultBranch ==
    /\ pc = "fetch"
    /\ fetched' = [version    |-> sha,
                   content    |-> Inventory(hd.regSpecRepoPath,
                                            head[DefaultBranch]),
                   libVersion |-> sha]
    /\ pc' = "mkdir"
    /\ UNCHANGED <<head, hd, cache, dir, loaded, sha, ret>>

\* fetchRemoteSpec at sha, then updateLibVersions(sha); Marshal.
FetchRemoteSpec ==
    /\ pc = "fetch"
    /\ fetched' = [version    |-> sha,
                   content    |-> Inventory(hd.regSpecRepoPath, sha),
                   libVersion |-> sha]
    /\ pc' = "mkdir"
    /\ UNCHANGED <<head, hd, cache, dir, loaded, sha, ret>>

\* Contents fails, or registry.yaml is missing or does not decode.
FetchRemoteSpecFailed ==
    /\ pc = "fetch"
    /\ Return(Err)
    /\ UNCHANGED <<head, hd, cache, dir>>

\* MkdirAll of the cache directory, only now that the fetch succeeded.
MkdirCache ==
    /\ pc = "mkdir"
    /\ dir' = TRUE
    /\ pc' = "write"
    /\ UNCHANGED <<head, hd, cache, loaded, sha, fetched, ret>>

MkdirCacheFailed ==
    /\ pc = "mkdir"
    /\ Return(Err)
    /\ UNCHANGED <<head, hd, cache, dir>>

\* afero.WriteFile opens the file with O_TRUNC: the old cache is gone
\* before any byte of the new one is written.
WriteFileOpen ==
    /\ pc = "write"
    /\ cache' = Corrupt
    /\ pc' = "writing"
    /\ UNCHANGED <<head, hd, dir, loaded, sha, fetched, ret>>

WriteFileOpenFailed ==
    /\ pc = "write"
    /\ Return(Err)
    /\ UNCHANGED <<head, hd, cache, dir>>

\* The bytes are written; the call returns the fetched spec.
WriteFileData ==
    /\ pc = "writing"
    /\ cache' = fetched
    /\ Return(fetched)
    /\ UNCHANGED <<head, hd, dir>>

\* Mutation of WriteFileDataFailed: the write error is ignored.
WriteFileDataFailedIgnored ==
    /\ pc = "writing"
    /\ Return(fetched)
    /\ UNCHANGED <<head, hd, cache, dir>>

\* Write or Close fails: the file is left truncated or partly written.
WriteFileDataFailed ==
    /\ pc = "writing"
    /\ Return(Err)
    /\ UNCHANGED <<head, hd, cache, dir>>

Next ==
    \/ \E b \in Branches, s \in SHAs : Push(b, s)
    \/ Crash
    \/ \E d \in Descriptors : SetURI(d)
    \/ LoadCache
    \/ ResolveFailed
    \/ ResolveHit
    \/ ResolveStale
    \/ FetchRemoteSpec
    \/ FetchRemoteSpecFailed
    \/ MkdirCache
    \/ MkdirCacheFailed
    \/ WriteFileOpen
    \/ WriteFileOpenFailed
    \/ WriteFileData
    \/ WriteFileDataFailed

Spec == Init /\ [][Next]_vars

(***************************************************************************)
(* Configurations under which the cache file, which is named after the     *)
(* registry and not after its URI, can only hold content of the current    *)
(* URI: every URI the registry is set to names the same registry.yaml,     *)
(* and a URI pinned to a commit is the only one it is ever set to.         *)
(***************************************************************************)
CoherentConfig ==
    /\ \A d1, d2 \in Descriptors : d1.regSpecRepoPath = d2.regSpecRepoPath
    /\ \A d \in Descriptors : d.refSpec \in SHAs => Descriptors = {d}

(***************************************************************************)
(* Properties.                                                             *)
(***************************************************************************)

\* Whatever FetchRegistrySpec returns with a commit id as library version
\* (cache hit, fresh fetch, or the network-failure fallback of a pinned
\* URI) lists exactly the registry.yaml of the configured path at that
\* commit: library versions are reproducible.
ReturnedCoherent ==
    ret \in RegSpec /\ ret.libVersion \in SHAs =>
        ret.content = Inventory(hd.regSpecRepoPath, ret.libVersion)

\* A result stamped with a commit id is what the cache file now holds, so
\* the next call finds it current while the refSpec still points there
\* (the idempotence FetchRegistrySpec's cache is for).
ResultIsCached ==
    ret \in RegSpec /\ ret.libVersion \in SHAs => cache = ret

\* The cache directory is only ever created by a call holding a
\* successfully fetched spec (the NOTE at FetchRegistrySpec's MkdirAll).
MkdirOnlyAfterFetch ==
    [][~dir /\ dir' => fetched \in RegSpec]_vars

\* Once the cache holds a usable spec, it keeps holding one: no failure
\* or crash of a later refresh destroys the fallback.
FallbackNeverLost ==
    [][(cache \in RegSpec) => (cache' \in RegSpec)]_vars

=============================================================================
