-------------------------- MODULE MCGitHubRegistry --------------------------
(***************************************************************************)
(* Model-checking instance of GitHubRegistry: two registries and URIs on   *)
(* two enterprise hosts, one URI that does not parse, and, in the runs     *)
(* about panics, one public URI.                                           *)
(***************************************************************************)
EXTENDS GitHubRegistry, TLC

\* Enterprise registry roots on two hosts.
CorpA == [scheme |-> "https", host |-> "github.corp.com",
          path |-> <<"api", "v3", "repos", "o", "parts">>, query |-> <<>>]
CorpADir == [CorpA EXCEPT !.path = @ \o <<"contents", "incubator", "">>]
CorpB == [CorpA EXCEPT !.host = "github.other.com"]
\* "repos" missing: an error.
CorpBad == [CorpA EXCEPT !.path = <<"o", "parts">>]
\* A public URI.
Public == [CorpA EXCEPT !.host = "github.com",
                        !.path = <<"o", "parts", "tree", "master", "incubator">>]

OneHostURIs == {CorpA, CorpADir, CorpBad, Public}
TwoHostURIs == {CorpA, CorpB}

MCURIs == OneHostURIs \cup TwoHostURIs

MCPaths == {u.path : u \in MCURIs}

MCQueries == {<<>>}

=============================================================================
