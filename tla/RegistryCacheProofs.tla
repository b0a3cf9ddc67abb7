------------------------ MODULE RegistryCacheProofs ------------------------
(***************************************************************************)
(* Proofs about RegistryCache for every value of its constants.            *)
(***************************************************************************)
EXTENDS RegistryCache, TLAPS

USE ConstAssumption

(***************************************************************************)
(* CommitSHA1 of the configured refSpec is a commit id, and a refSpec that *)
(* is already a commit id resolves to itself.                              *)
(***************************************************************************)
LEMMA CommitSHA1Resolves ==
    ASSUME TypeOK
    PROVE  /\ CommitSHA1(hd.refSpec) \in SHAs
           /\ hd.refSpec \in SHAs => CommitSHA1(hd.refSpec) = hd.refSpec
<1>1. hd.refSpec \in RefSpecs
  BY DEF TypeOK, Descriptor
<1>2. CASE hd.refSpec = NoRef
  BY <1>2 DEF TypeOK, CommitSHA1
<1>3. CASE hd.refSpec \in SHAs
  BY <1>3 DEF CommitSHA1
<1>4. CASE hd.refSpec \in Branches
  BY <1>4 DEF TypeOK, CommitSHA1
<1>5. QED
  BY <1>1, <1>2, <1>3, <1>4 DEF RefSpecs

\* The sentinels are not specs.
LEMMA SentinelsNotSpecs ==
    /\ None \notin RegSpec
    /\ Err \notin RegSpec
    /\ Absent \notin RegSpec
    /\ Corrupt \notin RegSpec
    /\ None \notin SHAs
BY ConstAssumption

(***************************************************************************)
(* TypeOK alone is not inductive: the steps after ResolveStale use the     *)
(* locals it and FetchRemoteSpec set.  LocalsSet says which locals hold a  *)
(* value at each point of a call.                                          *)
(***************************************************************************)
LocalsSet ==
    /\ pc \in {"fetch", "mkdir", "write", "writing"} => sha \in SHAs
    /\ pc \in {"mkdir", "write", "writing"} => fetched \in RegSpec

TypeInv == TypeOK /\ LocalsSet

LEMMA TypeInvInductive == TypeInv /\ [Next]_vars => TypeInv'
<1> SUFFICES ASSUME TypeInv, [Next]_vars PROVE TypeInv'
  OBVIOUS
<1> USE DEF TypeInv, TypeOK, LocalsSet, PCs
<1>1. hd.refSpec \in RefSpecs
  BY DEF Descriptor
<1>2. CommitSHA1(hd.refSpec) \in SHAs
  BY CommitSHA1Resolves
<1>3. ASSUME NEW b \in Branches, NEW s \in SHAs, Push(b, s) PROVE TypeInv'
  BY <1>3 DEF Push
<1>4. CASE Crash
  BY <1>4 DEF Crash, Return
<1>5. ASSUME NEW d \in Descriptors, SetURI(d) PROVE TypeInv'
  BY <1>5 DEF SetURI
<1>6. CASE LoadCache
  BY <1>6 DEF LoadCache
<1>7. CASE ResolveFailed
  BY <1>1, <1>7 DEF ResolveFailed, Return, UpdateLibVersions, RegSpec
<1>8. CASE ResolveHit
  BY <1>2, <1>8 DEF ResolveHit, CacheIsCurrent, Return, UpdateLibVersions,
                    RegSpec, RefSpecs
<1>9. CASE ResolveStale
  BY <1>2, <1>9 DEF ResolveStale
<1>10. CASE FetchRemoteSpec
  BY <1>10 DEF FetchRemoteSpec, RegSpec, RefSpecs, Inventory, Descriptor
<1>11. CASE FetchRemoteSpecFailed
  BY <1>11 DEF FetchRemoteSpecFailed, Return
<1>12. CASE MkdirCache
  BY <1>12 DEF MkdirCache
<1>13. CASE MkdirCacheFailed
  BY <1>13 DEF MkdirCacheFailed, Return
<1>14. CASE WriteFileOpen
  BY <1>14 DEF WriteFileOpen
<1>15. CASE WriteFileOpenFailed
  BY <1>15 DEF WriteFileOpenFailed, Return
<1>16. CASE WriteFileData
  BY <1>16 DEF WriteFileData, Return
<1>17. CASE WriteFileDataFailed
  BY <1>17 DEF WriteFileDataFailed, Return
<1>18. CASE UNCHANGED vars
  BY <1>18 DEF vars
<1>19. QED
  BY <1>3, <1>4, <1>5, <1>6, <1>7, <1>8, <1>9, <1>10, <1>11, <1>12,
     <1>13, <1>14, <1>15, <1>16, <1>17, <1>18 DEF Next

(***************************************************************************)
(* Type correctness: every reachable state has the types of TypeOK.        *)
(***************************************************************************)
THEOREM TypeCorrect == Spec => []TypeOK
<1>1. Init => TypeInv
  BY DEF Init, TypeInv, TypeOK, LocalsSet, PCs
<1>2. TypeInv => TypeOK
  BY DEF TypeInv
<1>3. QED
  BY <1>1, <1>2, TypeInvInductive, PTL DEF Spec

(***************************************************************************)
(* Coherence of a spec value with a descriptor h: it lists registry.yaml   *)
(* of h's path at its own Version, its libraries carry that Version, and   *)
(* if h is pinned to a commit, that commit is its Version.                 *)
(***************************************************************************)
CoherentWith(s, h) ==
    /\ s.content = Inventory(h.regSpecRepoPath, s.version)
    /\ s.libVersion = s.version
    /\ h.refSpec \in SHAs => s.version = h.refSpec

\* The inductive invariant behind ReturnedCoherent: the cache file, both
\* local copies of the spec and the resolved sha agree with gh.hd.
IInv ==
    /\ TypeInv
    /\ cache \in RegSpec => CoherentWith(cache, hd)
    /\ loaded \in RegSpec => CoherentWith(loaded, hd)
    /\ fetched \in RegSpec => CoherentWith(fetched, hd)
    /\ sha \in SHAs /\ hd.refSpec \in SHAs => sha = hd.refSpec
    /\ ReturnedCoherent

\* Under CoherentConfig, changing the URI changes nothing coherence sees.
LEMMA ConfigSwap ==
    ASSUME CoherentConfig, NEW h1 \in Descriptors, NEW h2 \in Descriptors
    PROVE  /\ h1.regSpecRepoPath = h2.regSpecRepoPath
           /\ h2.refSpec \in SHAs => h1 = h2
BY DEF CoherentConfig

LEMMA CoherentSwap ==
    ASSUME CoherentConfig, NEW h1 \in Descriptors, NEW h2 \in Descriptors,
           NEW s \in RegSpec, CoherentWith(s, h1)
    PROVE  CoherentWith(s, h2)
BY ConfigSwap DEF CoherentWith

\* Every step keeps IInv, under a coherent configuration.
LEMMA IInvInductive ==
    ASSUME CoherentConfig, IInv, [Next]_vars
    PROVE  IInv'
<1>1. TypeInv'
  BY TypeInvInductive DEF IInv
<1> USE <1>1 DEF IInv
<1>2. /\ CommitSHA1(hd.refSpec) \in SHAs
      /\ hd.refSpec \in SHAs => CommitSHA1(hd.refSpec) = hd.refSpec
  BY CommitSHA1Resolves DEF TypeInv
<1>3. ASSUME NEW b \in Branches, NEW s \in SHAs, Push(b, s) PROVE IInv'
  BY <1>3 DEF Push, ReturnedCoherent, CoherentWith
<1>4. CASE Crash
  BY <1>4 DEF Crash, Return, ReturnedCoherent, CoherentWith, TypeInv,
              TypeOK
<1>5. ASSUME NEW d \in Descriptors, SetURI(d) PROVE IInv'
  <2>1. hd \in Descriptors
    BY DEF TypeInv, TypeOK
  <2>2. cache \in RegSpec => CoherentWith(cache, d)
    BY <2>1, CoherentSwap
  <2>3. loaded \in RegSpec => CoherentWith(loaded, d)
    BY <2>1, CoherentSwap
  <2>4. fetched \in RegSpec => CoherentWith(fetched, d)
    BY <2>1, CoherentSwap
  <2>5. sha \in SHAs /\ d.refSpec \in SHAs => sha = d.refSpec
    BY <2>1, ConfigSwap
  <2>6. QED
    BY <1>5, <2>2, <2>3, <2>4, <2>5 DEF SetURI, ReturnedCoherent, TypeInv,
                                     TypeOK
<1>6. CASE LoadCache
  BY <1>6 DEF LoadCache, ReturnedCoherent, TypeInv, TypeOK
<1>7. CASE ResolveFailed
  BY <1>7 DEF ResolveFailed, Return, UpdateLibVersions, ReturnedCoherent,
              CoherentWith, TypeInv, TypeOK
<1>8. CASE ResolveHit
  BY <1>2, <1>8 DEF ResolveHit, CacheIsCurrent, Return, UpdateLibVersions,
                    ReturnedCoherent, CoherentWith, TypeInv, TypeOK
<1>9. CASE ResolveStale
  BY <1>2, <1>9 DEF ResolveStale, ReturnedCoherent
<1>10. CASE FetchRemoteSpec
  BY <1>10 DEF FetchRemoteSpec, ReturnedCoherent, CoherentWith, TypeInv,
               LocalsSet
<1>11. CASE FetchRemoteSpecFailed
  BY <1>11 DEF FetchRemoteSpecFailed, Return, ReturnedCoherent, TypeInv,
               TypeOK
<1>12. CASE MkdirCache
  BY <1>12 DEF MkdirCache, ReturnedCoherent
<1>13. CASE MkdirCacheFailed
  BY <1>13 DEF MkdirCacheFailed, Return, ReturnedCoherent, TypeInv, TypeOK
<1>14. CASE WriteFileOpen
  BY <1>14 DEF WriteFileOpen, ReturnedCoherent, TypeInv, TypeOK
<1>15. CASE WriteFileOpenFailed
  BY <1>15 DEF WriteFileOpenFailed, Return, ReturnedCoherent, TypeInv,
               TypeOK
<1>16. CASE WriteFileData
  BY <1>16 DEF WriteFileData, Return, ReturnedCoherent, CoherentWith,
               TypeInv, TypeOK, LocalsSet
<1>17. CASE WriteFileDataFailed
  BY <1>17 DEF WriteFileDataFailed, Return, ReturnedCoherent, TypeInv,
               TypeOK
<1>18. CASE UNCHANGED vars
  BY <1>18 DEF vars, ReturnedCoherent, CoherentWith
<1>19. QED
  BY <1>3, <1>4, <1>5, <1>6, <1>7, <1>8, <1>9, <1>10, <1>11, <1>12,
     <1>13, <1>14, <1>15, <1>16, <1>17, <1>18 DEF Next

(***************************************************************************)
(* Reproducible library versions: under a coherent configuration, every    *)
(* spec FetchRegistrySpec returns with a commit id as library version      *)
(* lists the configured registry.yaml at exactly that commit.              *)
(***************************************************************************)
THEOREM ReturnedCoherentHolds ==
    ASSUME CoherentConfig
    PROVE  Spec => []ReturnedCoherent
<1>1. Init => IInv
  <2> SUFFICES ASSUME Init PROVE IInv
    OBVIOUS
  <2>1. TypeInv
    BY DEF Init, TypeInv, TypeOK, LocalsSet, PCs
  <2>2. QED
    BY <2>1, SentinelsNotSpecs DEF Init, IInv, ReturnedCoherent
<1>2. IInv /\ [Next]_vars => IInv'
  BY IInvInductive
<1>3. IInv => ReturnedCoherent
  BY DEF IInv
<1>4. QED
  BY <1>1, <1>2, <1>3, PTL DEF Spec

(***************************************************************************)
(* The invariant behind ResultIsCached adds to IInv that a call only has a *)
(* result once it is over, and that while it resolves, the spec it loaded  *)
(* is still what the cache file holds (nothing else writes the file).      *)
(***************************************************************************)
CInv ==
    /\ IInv
    /\ pc # "idle" => ret = None
    /\ pc = "resolve" /\ loaded \in RegSpec => loaded = cache
    /\ ResultIsCached

\* A record stamped with the Version it already carries is unchanged.
LEMMA RestampSame ==
    ASSUME NEW s \in RegSpec, s.libVersion = s.version
    PROVE  UpdateLibVersions(s, s.version) = s
BY DEF UpdateLibVersions, RegSpec

(***************************************************************************)
(* Idempotence of FetchRegistrySpec: under a coherent configuration, a     *)
(* spec returned with a commit id as library version is exactly what the   *)
(* cache file holds afterwards, so the next call that resolves the same    *)
(* commit is served from the cache without fetching.                       *)
(***************************************************************************)
THEOREM ResultIsCachedHolds ==
    ASSUME CoherentConfig
    PROVE  Spec => []ResultIsCached
<1>1. Init => CInv
  BY DEF Init, CInv, IInv, TypeInv, TypeOK, LocalsSet, PCs, ReturnedCoherent,
         ResultIsCached
<1>2. CInv /\ [Next]_vars => CInv'
  <2> SUFFICES ASSUME CInv, [Next]_vars PROVE CInv'
    OBVIOUS
  <2>1. IInv'
    BY IInvInductive DEF CInv
  <2> USE <2>1 DEF CInv
  <2>2. /\ CommitSHA1(hd.refSpec) \in SHAs
        /\ hd.refSpec \in SHAs => CommitSHA1(hd.refSpec) = hd.refSpec
    BY CommitSHA1Resolves DEF IInv, TypeInv
  <2>3. ASSUME NEW b \in Branches, NEW s \in SHAs, Push(b, s) PROVE CInv'
    BY <2>3 DEF Push, ResultIsCached
  <2>4. CASE Crash
    BY <2>4 DEF Crash, Return, ResultIsCached, IInv, TypeInv, TypeOK
  <2>5. ASSUME NEW d \in Descriptors, SetURI(d) PROVE CInv'
    BY <2>5 DEF SetURI, ResultIsCached, IInv, TypeInv, TypeOK
  <2>6. CASE LoadCache
    BY <2>6 DEF LoadCache, ResultIsCached, IInv, TypeInv, TypeOK
  <2>7. CASE ResolveFailed
    <3>1. CASE loaded = None
      BY <2>7, <3>1 DEF ResolveFailed, Return, ResultIsCached, IInv,
                        TypeInv, TypeOK
    <3>2. CASE loaded # None /\ hd.refSpec \notin SHAs
      BY <2>7, <3>2 DEF ResolveFailed, Return, ResultIsCached,
                        UpdateLibVersions, IInv, TypeInv, TypeOK
    <3>3. CASE loaded # None /\ hd.refSpec \in SHAs
      <4>1. loaded \in RegSpec /\ loaded = cache
        BY <2>7, <3>3 DEF ResolveFailed, IInv, TypeInv, TypeOK
      <4>2. loaded.version = hd.refSpec /\ loaded.libVersion = loaded.version
        BY <3>3, <4>1 DEF IInv, CoherentWith
      <4>3. UpdateLibVersions(loaded, hd.refSpec) = loaded
        BY <4>1, <4>2, RestampSame
      <4>4. QED
        BY <2>7, <4>1, <4>3 DEF ResolveFailed, Return, ResultIsCached,
                                IInv, TypeInv, TypeOK
    <3>4. QED
      BY <3>1, <3>2, <3>3
  <2>8. CASE ResolveHit
    <3>1. loaded \in RegSpec /\ loaded = cache
      BY <2>8 DEF ResolveHit, CacheIsCurrent, IInv, TypeInv, TypeOK
    <3>2. loaded.version = CommitSHA1(hd.refSpec)
          /\ loaded.libVersion = loaded.version
      BY <2>8, <3>1 DEF ResolveHit, CacheIsCurrent, IInv, CoherentWith
    <3>3. UpdateLibVersions(loaded, CommitSHA1(hd.refSpec)) = loaded
      BY <3>1, <3>2, RestampSame
    <3>4. QED
      BY <2>8, <3>1, <3>3 DEF ResolveHit, Return, ResultIsCached, IInv,
                              TypeInv, TypeOK
  <2>9. CASE ResolveStale
    BY <2>9 DEF ResolveStale, ResultIsCached
  <2>10. CASE FetchRemoteSpec
    BY <2>10 DEF FetchRemoteSpec, ResultIsCached
  <2>11. CASE FetchRemoteSpecFailed
    BY <2>11 DEF FetchRemoteSpecFailed, Return, ResultIsCached, IInv,
                 TypeInv, TypeOK
  <2>12. CASE MkdirCache
    BY <2>12 DEF MkdirCache, ResultIsCached
  <2>13. CASE MkdirCacheFailed
    BY <2>13 DEF MkdirCacheFailed, Return, ResultIsCached, IInv, TypeInv,
                 TypeOK
  <2>14. CASE WriteFileOpen
    BY <2>14 DEF WriteFileOpen, ResultIsCached, IInv, TypeInv, TypeOK
  <2>15. CASE WriteFileOpenFailed
    BY <2>15 DEF WriteFileOpenFailed, Return, ResultIsCached, IInv, TypeInv,
                 TypeOK
  <2>16. CASE WriteFileData
    BY <2>16 DEF WriteFileData, Return, ResultIsCached
  <2>17. CASE WriteFileDataFailed
    BY <2>17 DEF WriteFileDataFailed, Return, ResultIsCached, IInv, TypeInv,
                 TypeOK
  <2>18. CASE UNCHANGED vars
    BY <2>18 DEF vars, ResultIsCached
  <2>19. QED
    BY <2>3, <2>4, <2>5, <2>6, <2>7, <2>8, <2>9, <2>10, <2>11, <2>12,
       <2>13, <2>14, <2>15, <2>16, <2>17, <2>18 DEF Next
<1>3. CInv => ResultIsCached
  BY DEF CInv
<1>4. QED
  BY <1>1, <1>2, <1>3, PTL DEF Spec


(***************************************************************************)
(* Only MkdirCache creates the cache directory, and it runs at "mkdir",    *)
(* where LocalsSet says the fetched spec is held.                          *)
(***************************************************************************)
LEMMA MkdirStep ==
    TypeInv /\ [Next]_vars => [~dir /\ dir' => fetched \in RegSpec]_vars
<1> SUFFICES ASSUME TypeInv, [Next]_vars, ~dir, dir' PROVE fetched \in RegSpec
  OBVIOUS
<1>1. ASSUME NEW b \in Branches, NEW s \in SHAs, Push(b, s) PROVE FALSE
  BY <1>1 DEF Push
<1>2. ASSUME NEW d \in Descriptors, SetURI(d) PROVE FALSE
  BY <1>2 DEF SetURI
<1>3. CASE MkdirCache
  BY <1>3 DEF MkdirCache, TypeInv, LocalsSet
<1>4. ~MkdirCache => ~(\/ Crash \/ LoadCache \/ ResolveFailed \/ ResolveHit
                       \/ ResolveStale \/ FetchRemoteSpec
                       \/ FetchRemoteSpecFailed \/ MkdirCacheFailed
                       \/ WriteFileOpen \/ WriteFileOpenFailed
                       \/ WriteFileData \/ WriteFileDataFailed
                       \/ UNCHANGED vars)
  BY DEF Crash, LoadCache, ResolveFailed, ResolveHit, ResolveStale,
         FetchRemoteSpec, FetchRemoteSpecFailed, MkdirCacheFailed,
         WriteFileOpen, WriteFileOpenFailed, WriteFileData,
         WriteFileDataFailed, vars
<1>5. QED
  BY <1>1, <1>2, <1>3, <1>4 DEF Next

(***************************************************************************)
(* The cache directory is only ever created by a call that holds a         *)
(* successfully fetched spec, whatever crashes, failures and SetURI calls  *)
(* interleave (the NOTE at FetchRegistrySpec's MkdirAll; the action        *)
(* property MkdirOnlyAfterFetch the cache run checks).                     *)
(***************************************************************************)
THEOREM MkdirOnlyAfterFetchHolds == Spec => MkdirOnlyAfterFetch
<1>1. Spec => []TypeInv
  <2>1. Init => TypeInv
    BY DEF Init, TypeInv, TypeOK, LocalsSet, PCs
  <2>2. QED
    BY <2>1, TypeInvInductive, PTL DEF Spec
<1>2. QED
  BY <1>1, MkdirStep, PTL DEF Spec, MkdirOnlyAfterFetch


================================================================================
