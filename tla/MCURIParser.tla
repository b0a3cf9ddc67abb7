---------------------------- MODULE MCURIParser ----------------------------
(***************************************************************************)
(* Model-checking instance of URIParser: every path of at most five        *)
(* segments over the segments the parser tests for, a few enterprise paths *)
(* mounted below an API prefix, public and enterprise hosts, a host of     *)
(* another provider, and the query shapes the parser tells apart.          *)
(***************************************************************************)
EXTENDS URIParser, TLC

MCSegments == {"repos", "o", "contents", "registry.yaml"}

\* Paths in which "" (a doubled or trailing "/") is at most the last segment.
SegPaths(n) == [1..n -> MCSegments]

MCURIPaths ==
    LET short == UNION {SegPaths(n) : n \in 0..4}
    IN  short \cup {p \o <<"">> : p \in short}
        \cup SegPaths(5)
        \cup {<<"api", "v3", "repos", "o", "o", "contents", "d", "">>,
              <<"api", "v3", "repos", "o", "o">>}

MCQueries ==
    {<<>>,
     [k \in {"ref"} |-> <<"dev">>],
     [k \in {"ref"} |-> <<"dev", "v1">>],
     [k \in {"sha"} |-> <<"dev">>],
     [k \in {"ref", "sha"} |-> <<"dev">>]}

\* Registry-relative paths of items below the registry root.
MCItemPaths == {"registry.yaml", "o/parts.yaml", "o"}

\* RebaseRoundTrip for a file at the registry root, a file in a library
\* directory and the library directory itself.
MCRebaseRoundTrip == RebaseRoundTrip(MCItemPaths)

=============================================================================
