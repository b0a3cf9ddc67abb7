# TLA+ models of the ksonnet GitHub registry

This directory holds the formal models of the GitHub registry of ksonnet:
- `src/pkg/registry/github.go`;
- the GitHub client package `github`, in `src/unnamed/part_000`;
- the `param delete` action, in `src/pkg/actions/param_delete.go`.

There are TLA+ modules, TLC configurations that model-check them on small
instances, and TLAPS proofs of the main safety properties of the cache
protocol, the registry objects, the library resolver and `param delete`
for every value of the constants. `PROJECT.json` lists components, runs, mutants, the
map from definitions to source lines, findings, hazards and theorems.

## 1. The system

| Part | Code | What it does |
|---|---|---|
| URI descriptor parser | `parseGitHubURI`, `rebaseToRoot` | Turns a registry URI (public `github.com/org/repo/tree/ref/path`, or enterprise `https://host/api/v3/repos/org/repo/contents/path?ref=r`) into a `hubDescriptor`: base URL, org, repo, refSpec, `regRepoPath`, `regSpecRepoPath`. |
| Registry object | `NewGitHub`, `SetURI`, `ValidateURI`, `SetBaseURL` | Holds the registry's config and descriptor. Every registry uses the package-level `github.DefaultClient`. |
| Transport | `defaultGitHub.CommitSHA1`, `Contents`, `ValidateURL`, `client()` | GitHub API calls. The empty refSpec means `master`. Every call builds a go-github client on the singleton's current `baseURL`. |
| Cache manager | `FetchRegistrySpec`, `fetchRemoteSpec`, `resolveLatestSHA`, `updateLibVersions` | Serves `registry.yaml` (the inventory) from `<cache>/<registry name>/registry.yaml`. On a network failure it falls back to the cached copy. When the cache is stale it refetches at the resolved commit and rewrites the file. |
| Content resolver | `resolveDir`, `ResolveLibrary`, `ResolveLibrarySpec`, `chrootOnFile/Dir` | Depth-first walk of a library's directory at a commit. Calls `onFile`/`onDir` with paths rebased to the registry root. |
| `param delete` | `NewParamDelete`, `Run`, `deleteGlobal`, `deleteLocal` | CLI dispatch to environment, global or component parameter deletion. |

How the parts interact:
- `NewGitHub` and `SetURI` call the parser.
- `NewGitHub` points the shared client at the descriptor's API root; `SetURI` does not.
- The cache manager and the resolver call the transport with the descriptor's fields.
- `SetURI` replaces the descriptor between calls of the cache manager, but leaves the cache file, which is keyed by registry name, as it is.

### Inventory

The state the models track:
- **Cache manager:** the remote branch heads, the descriptor, the cache file (absent, a decoded spec, or corrupt/empty), whether the cache directory exists, and the locals of a running `FetchRegistrySpec`: the loaded spec, the resolved sha and the fetched spec.
- **Registry object:** each registry's URI and descriptor, the shared client's `baseURL`, and the last network call.
- **Parser:** a pure function.
- **Content resolver:** the library being resolved, the `libRefSpec`, the resolved commit, the `resolveDir` call stack (one frame per directory: the directory and the next entry of its listing), the entry in hand, the callbacks made so far, and the returned `LibraryConfig`.
- **`param delete`:** the options of one invocation, where the command is, the store `Run` chose, and the keys held by every store (environment-component, environment-global, module, component).

What makes the code hard to test:
- branches move between calls and inside a call;
- the process can be killed at any step, including between the truncation and the write of the cache file;
- the network can fail at any call, and `SetURI` can run between calls;
- several registries share one client;
- the resolver's recursion: an error at any depth, after callbacks already ran, and a submodule or a symlink anywhere in the tree;
- the parser has many URI shapes, and off-by-one slices at its boundaries.

## 2. Modules

| Module | Models | Kind |
|---|---|---|
| `RegistryCache` | The cache protocol of `FetchRegistrySpec` (github.go:131-290) with `SetURI`, upstream pushes and crashes. | state machine |
| `RegistryCacheProofs` | TLAPS proofs about `RegistryCache`. | theorems |
| `MCRegistryCache` | Model values and descriptor sets for TLC. | MC |
| `GitHubURI` | `parseGitHubURI` (github.go:497-651) and `rebaseToRoot` (658-671) as operators on real strings. | pure operators |
| `URIParser` | One call of the parser per behaviour, and the contract properties. | state machine |
| `MCURIParser` | The URI space checked. | MC |
| `GitHubRegistry` | `NewGitHub`, `SetURI` with `ValidateURI`, `SetBaseURL` and network calls of several registries over the shared `DefaultClient`. It EXTENDS `GitHubURI`, so a registry is built from the real parse of its URI. | state machine |
| `MCGitHubRegistry` | Registries and URIs for TLC. | MC |
| `LibraryResolution` | What `ResolveLibrary` promises (spec.md 4.2, 4.3): the callbacks in depth-first order, stopping at a submodule; failure at any point; success only after the whole walk. | abstract spec |
| `LibraryResolver` | `ResolveLibrary` (github.go:364-427), `resolveDir` (430-471) and the chroot callbacks (337-361), one action per network call and per callback. It implements `LibraryResolution`. | state machine |
| `LibraryResolverRefinement` | The refinement mapping from `LibraryResolver` to `LibraryResolution`. | refinement |
| `LibraryResolverProofs` | TLAPS proofs of `TypeOK`, `ReturnJustified` and `AnnouncedBeforeListed` of `LibraryResolver`, on the auxiliary invariant `StackIsPath`. | theorems |
| `MCLibraryResolver` | A repository tree with four libraries. | MC |
| `ParamDeleteCommand` | What `param delete` promises, as one step: remove the typed key from the named store, or fail and change nothing. | abstract spec |
| `ParamDelete` | `NewParamDelete`, `Run`, `deleteGlobal`, `deleteLocal` of param_delete.go, over four parameter stores. | state machine |
| `ParamDeleteProofs` | TLAPS proofs of `TypeOK` and the refinement of `ParamDeleteCommand`. | theorems |
| `MCParamDelete` | Names for TLC. | MC |

### RegistryCache

Data is abstract:
- The content of `registry.yaml` at path `p` in commit `s` is `Inventory(p, s)`.
- A registry spec is a record of its `Version`, its content and the version stamped on its libraries (`libVersion`).
- A descriptor is reduced to the two fields the protocol reads: `refSpec` and `regSpecRepoPath`.
- `CommitSHA1` resolves the empty ref to `master`, a commit id to itself, and a branch to its head.

One action per step of `FetchRegistrySpec`, in code order. `pc` says where the running call is.

| Action | Code | Effect |
|---|---|---|
| `LoadCache` | `load`, lines 177-189 | A corrupt file counts as absent. |
| `ResolveFailed` | lines 192-203 | Returns an error, or the cached spec re-stamped with `hd.refSpec`. |
| `ResolveHit` | lines 207-210 | The cached spec re-stamped with the sha. |
| `ResolveStale` | `resolveLatestSHA` | Takes the sha and goes on to the fetch. |
| `FetchRemoteSpec` / `FetchRemoteSpecFailed` | `fetchRemoteSpec` | Registry.yaml at the sha, `Version` = sha, then `updateLibVersions`. |
| `MkdirCache` / `MkdirCacheFailed` | `MkdirAll` | Creates the cache directory. |
| `WriteFileOpen` / `WriteFileOpenFailed` | `afero.WriteFile` | The open with `O_TRUNC`: the file becomes corrupt (empty). |
| `WriteFileData` / `WriteFileDataFailed` | `afero.WriteFile` | The write. |

The environment adds three actions:
- `Push(b, s)`: a branch or tag moves upstream.
- `Crash`: the process is killed mid-call; the disk keeps what it has.
- `SetURI(d)`: re-points the registry between calls.

Marshal cannot fail on a spec that was just unmarshalled, so its error path is not a step.

### GitHubURI and URIParser

A URI is a record: scheme (`""` when written without one), host, path as its list of segments, and query as `url.Values`. The operators reproduce what the code does to the characters:
- the four accepted prefixes and the bare `github.` forms, which get `http://` prepended;
- `strings.Split` (`<<"">> \o path`) and `strings.Join`, as a recursive function, not a RECURSIVE operator;
- the search for `repos`, the `baseIndex` arithmetic, the query switch, trailing-slash stripping and appending the manifest name;
- `TrimPrefix`.

The outcome is `ok` with a descriptor, `error`, or `panic`. A public URI with no query reaches the debug print of `hd.baseURL.String()` with a nil `baseURL` (line 558), which is a nil dereference: the model returns `panic` there. The public branch after that line (lines 560-648) is therefore unreachable and is not modelled.

### GitHubRegistry

State:
- `reg[r]`: a registry's URI and descriptor;
- `clientBase`: `DefaultClient.baseURL`;
- `lastCall`: a registry and the root its call used;
- `alive`: false after a panic ends the process.

Actions:
- `NewGitHub(r, u)`: parse; on error, build nothing; on a panic, the process ends; otherwise store the descriptor and `SetBaseURL`.
- `SetURI(r, u, reachable)`: parse; validate with the HEAD request either reachable or not; only then replace the URI and descriptor. The client is not touched.
- `Call(r)`: a network call on the client's current `baseURL`.

### LibraryResolution and LibraryResolver

The repository at the resolved commit is a constant tree: `Kind[n]` (file, dir, symlink, submodule) and `Children[n]`, the listing of a directory in the order the API returns it. Because the commit is fixed, a listing and a later fetch of the same path agree, so the "file that turns out to be a directory" error (line 448) cannot happen and is not a step.

The abstract module defines `Walk[n]`, a recursive function (not a RECURSIVE operator): the callbacks below `n` in listing order, `<<"dir", c>>` followed by the walk of `c` for a directory, nothing for a symlink, and a stop at a submodule. Its actions are:
- `Deliver`: the next callback of the walk;
- `Fail`: a transport or callback error, at any point, keeping what was delivered;
- `Refuse`: a structural error, once the walk has gone as far as it can and the tree does not allow success (a submodule, a library that is a file, a `parts.yaml` that is a directory);
- `Finish`: success, after the whole walk and with a `parts.yaml` that is a file.

The detailed module turns the Go recursion into an explicit stack:

| Action | Code |
|---|---|
| `ResolveSHA` / `ResolveSHAFailed` / `ResolveSHAEmpty` | `resolveLatestSHA` or `CommitSHA1`, lines 375-387 |
| `List` / `ListFailed` | `Contents(path)` at the top of `resolveDir`; a file is "resolves to a file" |
| `Entry` | one turn of the `range` loop: a file goes to the fetch, a directory to `onDir`, a symlink is skipped, a submodule returns the error; past the end the frame returns |
| `Fetch` / `FetchFailed` | `Contents(itemPath)` and `GetContent` of a file entry |
| `OnFile`, `OnDir`, `CallbackFailed` | the chrooted callbacks; after `onDir` the walk lists the subdirectory |
| `FetchSpec` / `FetchSpecFailed` | the second fetch of `parts.yaml`, `Unmarshal`, and the `LibraryConfig` |

In `LibraryResolverRefinement`, `LR == INSTANCE LibraryResolution` maps the library, the callbacks, the status and the cause of a failure one to one. `Implements == LR!Spec` is checked as a temporal property.

`StackIsPath`, defined in `LibraryResolverProofs`, is the auxiliary invariant the proofs rest on. It is not a property of its own, because Go's `range` loop and call stack give it for free. It states what the explicit stack stands for: the Go call stack of `resolveDir` is a path down the tree. The bottom frame lists the library. Each frame above lists the entry at which its caller's loop stopped, and the caller's index is already one past it (the `continue` after the recursive call). The entry in hand is the one the top frame's loop is at.

`ReturnJustified` and `AnnouncedBeforeListed` state two parts of the refinement that do not need `Walk`. The first says what a return is based on: the commit resolved and the tree. The second says that `onDir` comes before a directory is listed.

The empty string, an empty `libRefSpec` and the zero `resolvedSHA`, is the definition `Blank`. The SMT backend of TLAPS cannot take the literal `""`, so the proofs never expand it. `ParamDelete` names the empty option value the same way.

### ParamDelete

The functions that edit the stores (`env.DeleteParam`, `env.UnsetGlobalParams`, `component.GetModule`, `component.ResolvePath`, the `DeleteParam` methods) are not in this repository. Each is a step that either deletes the key it is given or fails and changes nothing. `ResolvePath` returns a nil component for a module name, the case the code checks for at line 120.

A key is a sequence of segments. The environment functions receive the raw path whole (`<<rawPath>>`); modules and components receive `strings.Split(rawPath, ".")`, modelled on the characters by `Split`.

Actions:
- `NewParamDelete`: a load error, or `--env` with `--global`, returns an error;
- `RunEnv`, `RunGlobal`, `RunLocal`: the three branches of `Run`, with the module and component lookups;
- `Delete` / `DeleteFailed`: the chosen function.

`ParamDeleteCommand` is the command's promise in one step. `Remove` deletes `Key(o)` from the store `Target(o)`, and `Refuse` fails without changing any store. `Command == INSTANCE ParamDeleteCommand` maps the options and the stores one to one, the result to `"pending"` until `pc = "done"`, `Target` to `Named` and `Key` to `KeyOf` of that store. `ImplementsCommand == Command!Spec` is checked by TLC and proved.

## 3. Runs

All runs use `tlc -workers 2 -config <cfg> <MC module>`.

| Run | cfg | Checks | Result |
|---|---|---|---|
| `cache_same_registry` | `MCRegistryCache.cfg` | `TypeOK`, `ReturnedCoherent`, `ResultIsCached`, `MkdirOnlyAfterFetch` | pass, 372 states |
| `cache_moved_path` | `RegistryCacheMoved.cfg` | `ReturnedCoherent` | violated |
| `cache_repinned` | `RegistryCacheRepinned.cfg` | `ReturnedCoherent` | violated |
| `cache_truncate` | `RegistryCacheTruncate.cfg` | `FallbackNeverLost` | violated |
| `uri_parser` | `MCURIParser.cfg` | `TypeOK`, `DescriptorShape`, `MCRebaseRoundTrip` | pass, 51 241 states |
| `uri_public_panics` | `URIParserTotal.cfg` | `ParserTotal` | violated |
| `uri_enterprise_grammar` | `URIParserGrammar.cfg` | `RevisionFromQuery` | violated |
| `registry_descriptors` | `MCGitHubRegistry.cfg` | `TypeOK` | pass, 162 states |
| `registry_shared_client` | `GitHubRegistryShared.cfg` | `CallsReachOwnHost` | violated |
| `library_resolver` | `MCLibraryResolver.cfg` | `TypeOK`, `ReturnJustified`, `Implements`, `AnnouncedBeforeListed` | pass, 201 states |
| `library_resolver_empty_sha` | `LibraryResolverNil.cfg` | `ResultStamped` | violated |
| `param_delete` | `MCParamDelete.cfg` | `TypeOK`, `ImplementsCommand` | pass, 390 states |

### The properties

- **`ReturnedCoherent`:** a spec returned with a commit id as library version lists `registry.yaml` of the configured path at exactly that commit. This is the spec's trust property: library versions are reproducible.
- **`ResultIsCached`:** such a result is what the cache file holds, so the next call for that commit is a hit.
- **`MkdirOnlyAfterFetch`** (action property): the cache directory appears only once a spec has been fetched.
- **`FallbackNeverLost`** (action property): once the cache holds a usable spec, no step leaves it without one.
- **`DescriptorShape`:** `regSpecRepoPath` is `regRepoPath` joined with the manifest name, and neither path has a leading or trailing `/`.
- **`RebaseRoundTrip`:** `rebaseToRoot` gives back the registry-relative path of every item below the root.
- **`ParserTotal`:** the parser never panics.
- **`RevisionFromQuery`:** every enterprise URI that `GrammarParse` accepts is accepted by the parser, with the revision `GrammarParse` gives it. `GrammarParse` is a reference parser written from the registry URI grammar of spec.md 4.1: the `ref` query when there is one, otherwise the default branch for a repository root and `""` below it.
- **`CallsReachOwnHost`:** each call goes to its registry's API root.
- **`Implements`:** `LibraryResolver` implements `LibraryResolution`. The callbacks come in depth-first listing order, with a directory announced before its content and symlinks skipped; nothing follows a submodule; an error leaves exactly a prefix of the walk delivered; a structural error only happens for a tree that has a structural problem; and success only follows the whole walk.
- **`ReturnJustified`:** a return without an error is either the `nil, nil, nil` of an empty `libRefSpec` whose latest commit came back `""`, or follows the whole walk (empty stack) and a `parts.yaml` that is a file, with the `LibraryConfig` stamped with the resolved version. A structural error names a real defect: the library is not a directory, its `parts.yaml` is one, or the entry the top frame's loop is at is a submodule.
- **`AnnouncedBeforeListed`** (action property): every step that opens a `resolveDir` frame opens it for the library, from `ResolveLibrary`, or for the directory the last callback announced to `onDir` (the caller's mkdir before any write below it).
- **`ResultStamped`:** a `ResolveLibrary` without an error returns a `LibraryConfig` stamped with the resolved commit.
- **`ImplementsCommand`:** `ParamDelete` implements `ParamDeleteCommand`: the whole command is one removal of the typed key from the named store, or one failure that changes nothing.

### Bounds and why they suffice

**Cache runs:**
- three commits under symmetry and two branches;
- refSpecs: master, dev and the empty ref in the passing run, and a pinned commit in `cache_repinned`;
- one or two registry paths.

A registry pinned to a single commit is not run. `ReturnedCoherentHolds` and `ResultIsCachedHolds` prove that case for every configuration that `CoherentConfig` allows.

That is enough for every interleaving that matters:
- a branch moves between resolve and fetch and between calls;
- a kill at each of the five in-call steps;
- a hit, a stale cache and a corrupt cache;
- `SetURI` between any two calls.

Each violation needs at most two distinct paths or a pinned and an unpinned ref.

**Parser run:** every path of up to five segments over {`repos`, `o`, `contents`, `registry.yaml`}, each with and without a trailing `/`, plus two paths below an `api/v3` prefix. It combines two schemes, three hosts (public, enterprise, another provider) and five query shapes: none, one ref, a ref given twice, another key, and two keys. This covers:
- every branch of the parser: length below `baseIndex+3`, exactly `+3` and `+4` (the root), and longer;
- a `repos` segment anywhere in the path;
- every query case.

Paths with an empty segment inside (`a//b`) are left out because they are not well-formed input.

**Registry run:** three registries, and URIs that:
- parse (a root and a directory on one enterprise host);
- fail to parse (no `repos`);
- panic (public).

The shared-client run needs only two registries on two hosts.

**Resolver run:** one tree with four libraries, each given `libRefSpec` `""` or `v1`:
- `nginx`: `parts.yaml` first in its listing, a subdirectory holding an empty directory before a file, and a symlink between two entries;
- `redis`: a file, then a directory whose first entry is a submodule followed by a file, then another file;
- `single`: a library name that is a file;
- `odd`: a `parts.yaml` that is a directory.

Every call and callback can fail at every step. `CommitSHA1` can answer `""` for `v1` (`EmptySHA = {"v1"}`). The walk's version is then `""`, and the model keeps the same tree (see the hazard at line 383). The violation run gives the empty answer to the `""` ref instead.

This covers:
- failure at every depth;
- a return from a nested frame into its parent's loop;
- an empty listing;
- every structural error.

**`param delete` run:**
- components `web` and `db`; the root module `""` and `nested`; environments `dev` and `prod`;
- paths `image`, `image.tag` and `""`;
- names `""`, a component, a module and an unknown name;
- every combination of `--env`, `--global` and a load error.

### Mutants

Every property of every passing run is broken by a mutant of a mapped definition, a plausible bug in that code (`PROJECT.json`, `mutants`):
- a hit without the version check;
- a failed write reported as success;
- `mkdir` before the fetch;
- a fetch at the default branch instead of the resolved sha;
- an unchecked cache load;
- a kept trailing slash;
- a nil error returned for a missing `repos`;
- no final `/` trim in `rebaseToRoot`;
- an unchecked parse error;
- a submodule skipped like a symlink;
- the raw path, not the split one, deleted from a component store (breaks `ImplementsCommand`);
- the `LibraryConfig` stamped with the ref instead of the commit;
- the nil component of a module name not refused;
- a symlink refused like a submodule, a shared `case "symlink", "submodule":` (breaks `ReturnJustified`);
- a directory entry recursed into without the `onDir` callback (breaks `AnnouncedBeforeListed`).

**Deadlock.** Deadlock is checked except in four places, which say `CHECK_DEADLOCK FALSE`:
- The parser run is one call of a function that returns, so it ends after one step.
- The registry run contains a public URI, whose panic ends the process.
- The resolver and `param delete` runs model one call, which ends when it returns.

**Fairness.** No module assumes fairness, and every checked property is a safety property. Whether `ResolveLibrary` returns hangs on the network, not on the walk. Assume every `Contents` and `CommitSHA1` call returns, and termination follows from a `range` loop over a finite listing and recursion into strictly deeper paths. That assumption does not hold when `GITHUB_TOKEN` is set: `oauth2.NewClient` drops the 10 s `http.Client` timeout, and every call uses `context.Background()` (lines 262 and 431). So no liveness property is stated, and the two hazards stay without one.

## 4. Findings

| Run | Source | Finding |
|---|---|---|
| `uri_public_panics` | github.go:558 | Every public `github.com` URI panics in `parseGitHubURI`. The debug print calls `String()` on a nil `*url.URL`, so no public registry can be created, set or validated. |
| `uri_enterprise_grammar` | github.go:609 | An enterprise URI that names the repository root with a `ref` query, for example `.../api/v3/repos/o/o?ref=dev`, gets refSpec `master`. The root branch overrides the revision parsed from the query, although spec.md 4.1 takes the enterprise revision only from that query and gives the default branch only to a root without one. |
| `registry_shared_client` | github.go:95 and 747 | All registries share `DefaultClient`. The last `NewGitHub` decides where every registry's calls go, and `SetURI` never updates it. |
| `cache_moved_path` | github.go:207 | The cache is keyed by registry name and the hit test looks at `Version` only. After `SetURI` to another path of the same repository, the old inventory is served. |
| `cache_repinned` | github.go:202 | With a commit-id refSpec, the offline fallback stamps that commit on an inventory of another commit. Degraded mode can no longer be told apart. |
| `library_resolver_empty_sha` | github.go:378 | `resolveLatestSHA` can answer an empty commit id with a nil error, and the code checks for that. `ResolveLibrary` then returns `errors.Wrapf(nil, ...)`, which is nil, so the caller gets no error, no parts spec and no `LibraryConfig`. For a given `libRefSpec`, an empty answer is not checked at all (383-386): the walk lists the default branch and the config carries version `""`. |
| `cache_truncate` | github.go:248 | `afero.WriteFile` truncates the cache in place. A kill in between loses the only offline fallback, although the spec says the cache file is replaced atomically and never partially written. |

## 5. Proofs

Three modules hold proofs, each checked with `tlapm <module>.tla`, and every obligation is proved: `RegistryCacheProofs`, `ParamDeleteProofs` and `LibraryResolverProofs`.

**Assumptions.** The theorems rest on `ConstAssumption`, which says:
- there are commits;
- the default branch is a branch;
- branches, commit ids and the empty ref are distinct;
- descriptors are well formed;
- the sentinel values are not specs, and `None` is not a commit id.

`ReturnedCoherentHolds` and `ResultIsCachedHolds` also assume `CoherentConfig`:
- every URI the registry may be set to names the same registry path;
- a URI pinned to a commit id is the only one.

The runs `cache_moved_path` and `cache_repinned` show that neither half of `CoherentConfig` can be dropped.

**Theorems:**
- `TypeCorrect`: `Spec => []TypeOK`.
- `ReturnedCoherentHolds`: `CoherentConfig => (Spec => []ReturnedCoherent)`.
- `ResultIsCachedHolds`: `CoherentConfig => (Spec => []ResultIsCached)`.
- `MkdirOnlyAfterFetchHolds`: `Spec => MkdirOnlyAfterFetch`, the action property `[][~dir /\ dir' => fetched \in RegSpec]_vars`.

**Argument.**
- `TypeOK` alone is not inductive, because the fetch, mkdir and write steps use the locals set earlier. `TypeInv` adds `LocalsSet`: a sha once resolved, a spec once fetched.
- `IInv` extends `TypeInv`. It says that the cache file, the loaded spec and the fetched spec are each coherent with the current descriptor (`CoherentWith`: content at its own `Version`, libraries stamped with it, and the pinned commit if there is one), and that the resolved sha is the pinned commit if there is one.
- `IInvInductive` proves `IInv` inductive. It has one step per action. `SetURI` is carried by the lemmas `ConfigSwap`/`CoherentSwap`, which are where `CoherentConfig` is used.
- `CInv` adds three facts:
  - a call in progress has no result;
  - while resolving, the loaded spec is the cache file;
  - `ResultIsCached` itself.

  The hit and fallback cases use `RestampSame`: re-stamping a spec with its own version changes nothing.
- Each theorem combines `Init => Inv`, the inductive step and `Inv => P` with PTL.
- `MkdirOnlyAfterFetchHolds` needs only `TypeInv`. The lemma `MkdirStep` shows that under `TypeInv` every step that creates the directory is `MkdirCache`, whose guard is `fetched \in RegSpec`.

**`ParamDeleteProofs`.** The invariant `IInv` says that a finished command either removed the typed key from `Named(opts)` or, when it failed, changed nothing. It holds for any components, modules, environments and paths, and adds what holds on the way:
- nothing is deleted before `Delete`;
- a command past `NewParamDelete` does not have both `--env` and `--global` (the guard of line 76);
- the store `Run` chose is `Named(opts)`.

Each branch of `Run` is one step of the proof.

`TypeCorrect` (`Spec => []TypeOK`) is proved from `TypeOK` itself, which is inductive once the lemma `BeforeKeys` shows that every initial store holds only `Keys`.

`ImplementsCommandHolds` (`Spec => ImplementsCommand`) is the refinement proved step by step:
- `CommandInit`: an initial state maps to an initial state of `ParamDeleteCommand` (the result is `"pending"`);
- `CommandStep`: under `IInv`, every step maps to a step of `ParamDeleteCommand` or to a stutter. When `NewParamDelete`, `RunEnv`, `RunGlobal` and `RunLocal` go on, they change neither the stores nor the mapped result, so they stutter. `Delete` is `Remove`, because `IInv` says its store is `Named(opts)`. Every failure, of any step, is `Refuse`.

**`LibraryResolverProofs`.** `TypeCorrect` (`Spec => []TypeOK`) holds for every tree, library and `libRefSpec` that satisfy `ResolverAssumption`. `TypeOK` alone is not inductive: `Entry` reads `Children[Top.dir][Top.next]`, which is a node only while the stack is non-empty and the index inside the listing. That is part of `StackIsPath`, so the inductive invariant is `IInv == TypeOK /\ StackIsPath`.

The proof splits `StackIsPath` into `Shape(stack)`, the shape of the stack alone, and `Control`, how the shape relates to `pc` and `cur`. Lemmas about the three stack operations:
- `AdvanceFrames` and `AdvanceShape`: moving the top frame on past an entry of its listing keeps the shape, and the new top stops just after that entry;
- `PopFrames` and `PopShape`: returning from `resolveDir` keeps the callers' frames;
- `PushShape`: the frame pushed by `List` keeps the shape, because the entry in hand is a directory and is the library or the entry the caller has just moved past.

`IInvInductive` has one step per action. `Entry` is split into the return, the file, the directory, the symlink and the submodule.

`ReturnJustifiedHolds` (`Spec => []ReturnJustified`) uses `RInv == IInv /\ Settled /\ ReturnJustified`. `ReturnJustified` alone is not inductive, for two reasons:
- A state that already has an outcome must take no further step. `Settled` says that while `pc # "done"` the status is running, there is no cause and no config. The lemma `Running` shows that every action starts from such a state.
- The `nil, nil, nil` return must find the version unresolved. `Settled` says the version is `Blank` while `pc = "sha"`, and that `lib` is one of `Libs`, which the `parts.yaml` case needs.

The structural cases then rest on `StackIsPath`:
- `List` refuses a file only at the library, because below it the entry in hand is a directory;
- `Entry` refuses at the submodule its loop is at, with the stack unchanged;
- `FetchSpec` runs with an empty stack.

The lemma `NoVerdict` covers every step that reaches no outcome or fails for a transport or callback reason.

`AnnouncedBeforeListedHolds` (`Spec => AnnouncedBeforeListed`) uses `AInv == IInv /\ ListAnnounced`. `ListAnnounced` says that when `pc = "list"` with a non-empty stack, the last callback is `<<"dir", cur>>`. `OnDir` is the only step into `"list"` with a non-empty stack. The lemma `AnnouncedStepHolds` shows `AInv /\ [Next]_vars => [AnnouncedStep]_vars` with one case per action:
- only `List` on a directory makes the stack longer;
- a return shortens it (`PopFrames`);
- `OnFile`, `OnDir` and a skipped symlink keep its length (`AdvanceFrames`).

Both invariants were first checked by TLC on the resolver's instance.

**Model-checked only.** These properties are checked by TLC and not proved:
- The parser properties. `GitHubURI` uses strings and a recursive `Join`, so what the parser computes for every input is induction over data, which the provers cannot do.
- `TypeOK`, `DescriptorShape` and `MCRebaseRoundTrip` of the parser run, and `TypeOK` of `GitHubRegistry`. Each rests on what the recursive `Join` and the string operators of `GitHubURI` return for every input. Two things block these proofs:
  - Using the equation of `Join`'s recursive function needs the existence theorems of `NaturalsInduction` (`NatInductiveDef`, `RecursiveFcnOfNat`), which take an operator parameter the provers cannot instantiate.
  - The provers treat `STRING` as an opaque set: they prove neither `s \o t \in STRING` for strings `s` and `t` nor anything about `Len` and `SubSeq` of a string.
- The resolver's refinement `Implements`. The invariant that relates the stack of frames to `Walk` is a statement about a recursive function for every tree, which is again induction over data. `Walk` is also defined by well-founded recursion over the tree, and its existence has the same blocker. The parts of that invariant and of the refinement that do not mention `Walk` are proved: `ReturnJustified` and `AnnouncedBeforeListed`, on the auxiliary invariant `StackIsPath`.
- `FallbackNeverLost`, whose run is a violation: the property does not hold.

## 6. Not modelled, and the plan

**Not modelled:**
- **`ResolveLibrarySpec`** (298-329): one `CommitSHA1` and one `Contents` call, with no state of its own; its only branch, a `parts.yaml` that is a directory, is the one `FetchSpec` models.
- **`CacheRoot` and `fetchRemoteAndSave`**: a path computation identical to `rebaseToRoot`, and a copy of `fetchRemoteSpec`'s result to a writer. Neither changes state the models track.
- **The public branch of the parser** (lines 560-648), which is unreachable while line 558 panics.
- **A branch moving during one library walk.** This can happen when `CommitSHA1` answers `""` for a given ref (line 383). The resolver keeps the tree of one commit.
- **Content `Marshal`/`Unmarshal`**, the logging and the debug prints, except the one at line 558, which changes control.

**Plan:**
- Compose the resolver with the registry model, so a walk uses the shared client's current host.
- Model `ResolveLibrarySpec` with the same transport steps, once the resolver is composed with the registry.
