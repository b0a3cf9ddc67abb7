------------------------------ MODULE GitHubURI ------------------------------
(***************************************************************************)
(* The URI descriptor parser of the GitHub registry: parseGitHubURI and    *)
(* rebaseToRoot of pkg/registry/github.go.                                 *)
(*                                                                         *)
(* A URI is a record: its scheme ("" when written without one), its host,  *)
(* its path as the sequence of its "/"-separated segments and its query as *)
(* a function from keys to value lists (url.Values).  The parser works on  *)
(* real strings: the prefix tests, strings.Split, strings.Join and         *)
(* strings.TrimPrefix are modelled by what they do to the characters.      *)
(***************************************************************************)
EXTENDS Integers, Sequences, FiniteSets

CONSTANTS
    Schemes,        \* schemes a URI is written with; "" for none
    Hosts,          \* host names
    URIPaths,       \* paths, as sequences of segments
    Queries,        \* query strings, as functions from keys to value lists
    Manifest,       \* registryYAMLFile
    DefaultBranch,  \* defaultGitHubBranch
    Nil             \* the nil *url.URL of a public descriptor

URIs == [scheme: Schemes, host: Hosts, path: URIPaths, query: Queries]

----------------------------------------------------------------------------
(* String helpers of the strings package.                                  *)

HasPrefix(s, p) == Len(p) <= Len(s) /\ SubSeq(s, 1, Len(p)) = p

HasSuffix(s, p) == Len(p) <= Len(s) /\ SubSeq(s, Len(s) - Len(p) + 1, Len(s)) = p

TrimPrefix(s, p) == IF HasPrefix(s, p) THEN SubSeq(s, Len(p) + 1, Len(s)) ELSE s

\* strings.Join(segs, "/")
Join(segs) ==
    LET j[i \in 0..Len(segs)] ==
            IF i = 0 THEN ""
            ELSE IF i = 1 THEN segs[1]
            ELSE j[i - 1] \o "/" \o segs[i]
    IN  j[Len(segs)]

\* The text of a URI up to its query, which the prefix tests look at.
URIText(u) ==
    (IF u.scheme = "" THEN "" ELSE u.scheme \o "://")
    \o u.host
    \o (IF u.path = <<>> THEN "" ELSE "/" \o Join(u.path))

----------------------------------------------------------------------------
(* The outcome of a call: a descriptor, an error, or a runtime panic.      *)

Outcome(status, hd) == [status |-> status, hd |-> hd]

Error == Outcome("error", Nil)

Panic == Outcome("panic", Nil)

\* The type hubDescriptor.
HubDescriptors ==
    [baseURL: STRING \cup {Nil}, org: STRING, repo: STRING, refSpec: STRING,
     regRepoPath: STRING, regSpecRepoPath: STRING]

HubDescriptor(base, org, repo, ref, dir) ==
    [baseURL |-> base, org |-> org, repo |-> repo, refSpec |-> ref,
     regRepoPath |-> Join(dir), regSpecRepoPath |-> Join(dir \o <<Manifest>>)]

WebPrefixes ==
    {"http://github.", "https://github.", "http://www.github.",
     "https://www.github."}

BarePrefixes == {"github.", "www.github."}

\* Mutant: the trailing empty segment of "dir/" is kept in regRepoPath.
ParseEnterpriseKeepSlash(scheme, host, comps, query) ==
    LET at    == {i \in 1..Len(comps) : comps[i] = "repos"}
        B     == (CHOOSE i \in at : \A k \in at : i <= k) - 1
        base  == scheme \o "://" \o host \o Join(SubSeq(comps, 1, B)) \o "/"
        keys  == DOMAIN query
        refOK == \/ keys = {}
                 \/ keys = {"ref"} /\ Len(query["ref"]) = 1
        ref   == IF keys = {} THEN "" ELSE query["ref"][1]
        L     == Len(comps)
    IN  CASE at = {}     -> Error
          [] ~refOK      -> Error
          [] L < B + 3   -> Error
          [] L > B + 4 /\ at # {} /\ refOK -> Outcome("ok", HubDescriptor(base, comps[B + 2],
                                        comps[B + 3], ref, SubSeq(comps, B + 5, L)))
          [] OTHER       -> Outcome("ok", HubDescriptor(base, comps[B + 2],
                                        comps[B + 3], DefaultBranch, <<>>))

\* Mutant: the missing "repos" segment returns the nil error of url.Parse
\* (return nil, err) instead of a new one.
ParseEnterpriseNilErr(scheme, host, comps, query) ==
    LET at    == {i \in 1..Len(comps) : comps[i] = "repos"}
        B     == (CHOOSE i \in at : \A k \in at : i <= k) - 1
        base  == scheme \o "://" \o host \o Join(SubSeq(comps, 1, B)) \o "/"
        keys  == DOMAIN query
        refOK == \/ keys = {}
                 \/ keys = {"ref"} /\ Len(query["ref"]) = 1
        ref   == IF keys = {} THEN "" ELSE query["ref"][1]
        L     == Len(comps)
        dir   == IF comps[L] = "" THEN SubSeq(comps, B + 5, L - 1)
                                  ELSE SubSeq(comps, B + 5, L)
    IN  CASE at = {}     -> Outcome("ok", Nil)
          [] ~refOK      -> Error
          [] L < B + 3   -> Error
          [] L > B + 4 /\ at # {} /\ refOK -> Outcome("ok", HubDescriptor(base, comps[B + 2],
                                        comps[B + 3], ref, dir))
          [] OTHER       -> Outcome("ok", HubDescriptor(base, comps[B + 2],
                                        comps[B + 3], DefaultBranch, <<>>))

\* The enterprise branch, from the search for the "repos" segment to the
\* return; comps are the components of strings.Split(parsed.Path, "/").
\* B is the 0-based baseIndex, so Go's components[i] is comps[i + 1].
ParseEnterprise(scheme, host, comps, query) ==
    LET at    == {i \in 1..Len(comps) : comps[i] = "repos"}
        B     == (CHOOSE i \in at : \A k \in at : i <= k) - 1
        base  == scheme \o "://" \o host \o Join(SubSeq(comps, 1, B)) \o "/"
        keys  == DOMAIN query
        refOK == \/ keys = {}
                 \/ keys = {"ref"} /\ Len(query["ref"]) = 1
        ref   == IF keys = {} THEN "" ELSE query["ref"][1]
        L     == Len(comps)
        dir   == IF comps[L] = "" THEN SubSeq(comps, B + 5, L - 1)
                                  ELSE SubSeq(comps, B + 5, L)
    IN  CASE at = {}     -> Error
          [] ~refOK      -> Error
          [] L < B + 3   -> Error
          [] L > B + 4 /\ at # {} /\ refOK -> Outcome("ok", HubDescriptor(base, comps[B + 2],
                                        comps[B + 3], ref, dir))
          [] OTHER       -> Outcome("ok", HubDescriptor(base, comps[B + 2],
                                        comps[B + 3], DefaultBranch, <<>>))

\* The normalisation at the top of parseGitHubURI: a URI written with an
\* http(s) scheme and a github host is kept, one written without a scheme
\* gets "http://", any other is refused.
WebURI(u) == \E p \in WebPrefixes : HasPrefix(URIText(u), p)

AcceptedURI(u) == WebURI(u) \/ \E p \in BarePrefixes : HasPrefix(URIText(u), p)

IsEnterprise(u) == ~HasSuffix(u.host, "github.com")

\* parseGitHubURI.  A public URI reaches the debug print of
\* hd.baseURL.String() with hd.baseURL nil, which dereferences nil.
ParseGitHubURI(u) ==
    CASE ~AcceptedURI(u)                      -> Error
      [] AcceptedURI(u) /\ IsEnterprise(u)    ->
            ParseEnterprise(IF WebURI(u) THEN u.scheme ELSE "http", u.host,
                            <<"">> \o u.path, u.query)
      [] AcceptedURI(u) /\ ~IsEnterprise(u) /\ DOMAIN u.query # {} -> Error
      [] OTHER                                -> Panic

\* Mutant: the "/" left after cutting the registry root is not trimmed.
RebaseToRootUntrimmed(hd, path) ==
    TrimPrefix(TrimPrefix(path, "/"), hd.regRepoPath)

\* rebaseToRoot: a repository path made relative to the registry root.
RebaseToRoot(hd, path) ==
    TrimPrefix(TrimPrefix(TrimPrefix(path, "/"), hd.regRepoPath), "/")

=============================================================================
