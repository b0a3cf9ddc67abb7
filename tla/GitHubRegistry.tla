---------------------------- MODULE GitHubRegistry ----------------------------
(***************************************************************************)
(* Several GitHub registries of one ks process and the GitHub client they  *)
(* share.  NewGitHub (pkg/registry/github.go) gives every registry         *)
(* github.DefaultClient, a package-level singleton, and points that        *)
(* client at the API root of the registry it just built (SetBaseURL);      *)
(* SetURI replaces a registry's descriptor after ValidateURI and leaves    *)
(* the client alone.  Every network call of a registry (CommitSHA1 and     *)
(* Contents through defaultGitHub.client()) goes to the client's current   *)
(* baseURL.  A panic of parseGitHubURI ends the process.                   *)
(***************************************************************************)
EXTENDS GitHubURI

CONSTANTS
    Regs,       \* registry names of the app
    RegURIs,    \* URIs the app's registry configurations and SetURI use
    None        \* no registry built yet / no call made yet

ASSUME RegistryAssumption == RegURIs \subseteq URIs

VARIABLES
    reg,        \* reg[r]: the GitHub value of registry r (spec.URI and hd)
    clientBase, \* DefaultClient.baseURL
    lastCall,   \* the last network call: its registry and the root it used
    alive       \* FALSE once a panic has ended the process

vars == <<reg, clientBase, lastCall, alive>>

Init ==
    /\ reg = [r \in Regs |-> None]
    /\ clientBase = Nil
    /\ lastCall = None
    /\ alive = TRUE

\* GitHub.SetBaseURL: defaultGitHub.SetBaseURL of the shared client.
SetBaseURL(base) == clientBase' = base

\* Mutant: the error of parseGitHubURI is not checked.
NewGitHubIgnoreErr(r, u) ==
    LET o == ParseGitHubURI(u)
    IN  /\ alive
        /\ reg[r] = None
        /\ IF o.status = "panic"
           THEN alive' = FALSE /\ UNCHANGED <<reg, clientBase, lastCall>>
           ELSE /\ reg' = [reg EXCEPT ![r] = [uri |-> u, hd |-> o.hd]]
                /\ clientBase' = IF o.hd = Nil THEN Nil ELSE o.hd.baseURL
                /\ UNCHANGED <<lastCall, alive>>

\* NewGitHub(a, registryRef): parse the URI, keep the descriptor and point
\* the shared client at its API root.  An error builds no registry.
NewGitHub(r, u) ==
    LET o == ParseGitHubURI(u)
    IN  /\ alive
        /\ reg[r] = None
        /\ o.status # "error"
        /\ IF o.status = "panic"
           THEN alive' = FALSE /\ UNCHANGED <<reg, clientBase, lastCall>>
           ELSE /\ reg' = [reg EXCEPT ![r] = [uri |-> u, hd |-> o.hd]]
                /\ SetBaseURL(o.hd.baseURL)
                /\ UNCHANGED <<lastCall, alive>>

\* SetURI(uri): parse the URI (an error leaves everything as it was), then
\* ValidateURI: the HEAD request of ValidateURL (reachable or not) and a
\* second, identical parse; only then gh.hd and gh.spec.URI change.
SetURI(r, u, reachable) ==
    LET o == ParseGitHubURI(u)
    IN  /\ alive
        /\ reg[r] # None
        /\ o.status # "error"
        /\ IF o.status = "panic"
           THEN alive' = FALSE /\ UNCHANGED <<reg, clientBase, lastCall>>
           ELSE /\ reachable
                /\ reg' = [reg EXCEPT ![r] = [uri |-> u, hd |-> o.hd]]
                /\ UNCHANGED <<clientBase, lastCall, alive>>

\* A network call of registry r (resolveLatestSHA, fetchRemoteSpec,
\* ResolveLibrary): the client builds a go-github client on its baseURL.
Call(r) ==
    /\ alive
    /\ reg[r] # None
    /\ lastCall' = [reg |-> r, base |-> clientBase]
    /\ UNCHANGED <<reg, clientBase, alive>>

Next ==
    \/ \E r \in Regs, u \in RegURIs : NewGitHub(r, u)
    \/ \E r \in Regs, u \in RegURIs, ok \in BOOLEAN : SetURI(r, u, ok)
    \/ \E r \in Regs : Call(r)

Spec == Init /\ [][Next]_vars

----------------------------------------------------------------------------
(* Properties.                                                             *)

\* Type invariant: built registries hold a configured URI and a
\* hubDescriptor, and the client's baseURL is nil or a URL.
TypeOK ==
    /\ \A r \in Regs :
           reg[r] = None \/ reg[r] \in [uri: RegURIs, hd: HubDescriptors]
    /\ clientBase \in STRING \cup {Nil}
    /\ alive \in BOOLEAN

\* Every network call of a registry goes to the API root of that
\* registry's own descriptor (nil: api.github.com).
CallsReachOwnHost ==
    lastCall # None => lastCall.base = reg[lastCall.reg].hd.baseURL

=============================================================================
