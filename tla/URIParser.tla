------------------------------ MODULE URIParser ------------------------------
(***************************************************************************)
(* One call of parseGitHubURI per behaviour, and what the registry's       *)
(* descriptor contract says of its result.                                 *)
(***************************************************************************)
EXTENDS GitHubURI

CONSTANT NoURI  \* no call made yet

VARIABLES uri, out

vars == <<uri, out>>

Init == uri = NoURI /\ out = Error

ParseURI(u) == uri = NoURI /\ uri' = u /\ out' = ParseGitHubURI(u)

Next == uri = NoURI /\ \E u \in URIs : ParseURI(u)

Spec == Init /\ [][Next]_vars

----------------------------------------------------------------------------
(* Properties.                                                             *)

\* Type invariant: a call returns a hubDescriptor, an error or a panic.
TypeOK ==
    /\ uri \in URIs \cup {NoURI}
    /\ out.status \in {"ok", "error", "panic"}
    /\ out.status = "ok" => out.hd \in HubDescriptors

\* The descriptor invariant of the registry (regSpecRepoPath is regRepoPath
\* joined with the manifest name, and neither has a leading or trailing
\* "/") holds of every descriptor parseGitHubURI returns, trailing-slash
\* URIs included.
DescriptorShape ==
    out.status = "ok" =>
        LET d == out.hd
        IN  /\ d.regSpecRepoPath =
                   IF d.regRepoPath = "" THEN Manifest
                                         ELSE d.regRepoPath \o "/" \o Manifest
            /\ \A q \in {d.regRepoPath, d.regSpecRepoPath} :
                   ~HasPrefix(q, "/") /\ ~HasSuffix(q, "/")

\* The path GitHub's contents API gives an item at registry-relative path
\* rel: the repository-relative path, without a leading "/".
ItemPath(hd, rel) ==
    IF hd.regRepoPath = "" THEN rel ELSE hd.regRepoPath \o "/" \o rel

\* Round trip of chrootOnFile/chrootOnDir: for a registry parsed from its
\* URI, rebaseToRoot of the repository path of any item under the registry
\* gives back the item's registry-relative path.
RebaseRoundTrip(rels) ==
    out.status = "ok" =>
        \A rel \in rels : RebaseToRoot(out.hd, ItemPath(out.hd, rel)) = rel

\* The parser never crashes the process: every URI yields a descriptor or
\* an error (parseGitHubURI, the debug print of hd.baseURL).
ParserTotal == out.status # "panic"

\* The descriptor the grammar of the registry URI gives an enterprise URI
\* "scheme://host/.../repos/org/repo[/contents/path...][?ref=ref]": the ref
\* comes only from the query; without one it is the default branch for a
\* repository root and "" (resolved later) otherwise.  The path follows
\* "contents".
GrammarParse(u) ==
    LET comps == <<"">> \o u.path
        at    == {i \in 1..Len(comps) : comps[i] = "repos"}
        r     == CHOOSE i \in at : \A k \in at : i <= k
        rest  == SubSeq(comps, r + 3, Len(comps))
        dir   == IF rest # <<>> /\ rest[Len(rest)] = ""
                 THEN SubSeq(rest, 2, Len(rest) - 1) ELSE Tail(rest)
        keys  == DOMAIN u.query
        scheme == IF WebURI(u) THEN u.scheme ELSE "http"
    IN  IF /\ at # {}
           /\ r + 2 <= Len(comps)
           /\ comps[r + 1] # "" /\ comps[r + 2] # ""
           /\ (rest \in {<<>>, <<"">>} \/ rest[1] = "contents")
           /\ (keys = {} \/ (keys = {"ref"} /\ Len(u.query["ref"]) = 1))
        THEN Outcome("ok", HubDescriptor(
                 scheme \o "://" \o u.host \o Join(SubSeq(comps, 1, r - 1)) \o "/",
                 comps[r + 1], comps[r + 2],
                 CASE keys # {}                  -> u.query["ref"][1]
                   [] rest \in {<<>>, <<"">>}     -> DefaultBranch
                   [] OTHER                       -> "",
                 IF rest \in {<<>>, <<"">>} THEN <<>> ELSE dir))
        ELSE Error

\* The revision of an enterprise registry comes from its ref query (spec
\* 4.1): every enterprise URI of the grammar is accepted by
\* parseGitHubURI with the revision the grammar gives it, ?ref= included,
\* whether the URI names the repository root or a directory below it.
RevisionFromQuery ==
    uri # NoURI /\ AcceptedURI(uri) /\ IsEnterprise(uri)
    /\ GrammarParse(uri).status = "ok" =>
        /\ out.status = "ok"
        /\ out.hd.refSpec = GrammarParse(uri).hd.refSpec


=============================================================================
