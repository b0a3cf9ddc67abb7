---------------------------- MODULE LibraryResolver ----------------------------
(***************************************************************************)
(* GitHub.ResolveLibrary and GitHub.resolveDir of pkg/registry/github.go,  *)
(* one step per network call and per callback.                             *)
(*                                                                         *)
(* ResolveLibrary resolves the commit (resolveLatestSHA for an empty       *)
(* libRefSpec, CommitSHA1 otherwise), walks the library directory with     *)
(* resolveDir, fetches <library>/parts.yaml once more and returns the      *)
(* parts spec with a LibraryConfig stamped with the commit.  resolveDir is *)
(* recursive; its Go call stack is the sequence of frames stack, a frame   *)
(* being a directory and the index of the next entry of its listing.  The  *)
(* callbacks are the chrootOnFile / chrootOnDir wrappers; their rebasing   *)
(* is modelled in GitHubURI (RebaseToRoot), entries here are node names.   *)
(* Every Contents call and every callback may fail.  The tree is the one   *)
(* of a fixed commit, so a listing and a later fetch agree.                *)
(***************************************************************************)
EXTENDS Naturals, Sequences

CONSTANTS
    Nodes, Kind, Children, Libs, PartsOf,   \* as in LibraryResolution
    LibRefSpecs,    \* the libRefSpec arguments: "" or a ref
    EmptySHA,       \* the libRefSpecs CommitSHA1 may answer "" for, no error
    None            \* no result

ASSUME ResolverAssumption ==
    /\ Libs \subseteq Nodes
    /\ \A l \in Libs : PartsOf[l] \in Nodes
    /\ \A n \in Nodes : Kind[n] \in {"file", "dir", "symlink", "submodule"}
    /\ \A n \in Nodes : Children[n] \in Seq(Nodes)
    /\ \A l \in Libs : Kind[PartsOf[l]] \in {"file", "dir"}
    /\ EmptySHA \subseteq LibRefSpecs

VARIABLES
    lib,        \* the library directory of the call (from partName)
    libRefSpec, \* the libRefSpec argument of the call
    pc,         \* "sha", "list", "entry", "fetch", "onFile", "onDir",
                \* "spec" or "done"
    stack,      \* resolveDir frames: [dir |-> d, next |-> i]
    cur,        \* the entry being fetched or announced / the dir to list
    version,    \* resolvedSHA: "sha" or ""
    log,        \* the callbacks made, as in LibraryResolution
    status,     \* "running", "ok" or "error"
    cause,      \* "transport", "callback" or "structure" once failed
    result      \* the LibraryConfig returned, or None

\* The empty string: an empty libRefSpec (the default branch), and the
\* zero value of resolvedSHA.
Blank == ""

vars == <<lib, libRefSpec, pc, stack, cur, version, log, status, cause, result>>

Init ==
    /\ lib \in Libs
    /\ libRefSpec \in LibRefSpecs
    /\ pc = "sha"
    /\ stack = <<>>
    /\ cur = lib
    /\ version = Blank
    /\ log = <<>>
    /\ status = "running"
    /\ cause = "none"
    /\ result = None

\* Returning an error ends the call; what the callbacks did stays done.
Abort(why) ==
    /\ pc' = "done"
    /\ status' = "error"
    /\ cause' = why
    /\ UNCHANGED <<stack, cur, version, log, result>>

Top == stack[Len(stack)]

\* Go's `continue` of the range loop: the top frame moves to its next entry.
Advance(s) == [s EXCEPT ![Len(s)].next = @ + 1]

----------------------------------------------------------------------------
(* Resolving the commit.                                                   *)

\* resolveLatestSHA / CommitSHA1 answers with a commit.
ResolveSHA ==
    /\ pc = "sha"
    /\ version' = "sha"
    /\ pc' = "list"
    /\ UNCHANGED <<lib, libRefSpec, stack, cur, log, status, cause, result>>

\* The call fails: ResolveLibrary returns the wrapped error.
ResolveSHAFailed ==
    /\ pc = "sha"
    /\ Abort("transport")
    /\ UNCHANGED <<lib, libRefSpec>>

\* The call answers "" without an error.  For an empty libRefSpec
\* errors.Wrapf(nil, ...) is nil: ResolveLibrary returns nil, nil, nil.
\* For a given libRefSpec the "" is not checked and becomes the version.
ResolveSHAEmpty ==
    /\ pc = "sha"
    /\ libRefSpec \in EmptySHA
    /\ IF libRefSpec = Blank
       THEN /\ pc' = "done"
            /\ status' = "ok"
            /\ UNCHANGED <<stack, cur, version, log, cause, result>>
       ELSE /\ pc' = "list"
            /\ UNCHANGED <<stack, cur, version, log, status, cause, result>>
    /\ UNCHANGED <<lib, libRefSpec>>

----------------------------------------------------------------------------
(* resolveDir.                                                             *)

\* Contents(path) of the directory cur: a file is refused ("resolves to a
\* file"); a directory becomes the new frame.
List ==
    /\ pc = "list"
    /\ IF Kind[cur] = "dir"
       THEN /\ stack' = Append(stack, [dir |-> cur, next |-> 1])
            /\ pc' = "entry"
            /\ UNCHANGED <<cur, version, log, status, cause, result>>
       ELSE Abort("structure")
    /\ UNCHANGED <<lib, libRefSpec>>

ListFailed ==
    /\ pc = "list"
    /\ Abort("transport")
    /\ UNCHANGED <<lib, libRefSpec>>

\* Mutant: a submodule entry is skipped like a symlink.
EntrySkipSubmodule ==
    /\ pc = "entry"
    /\ LET kids == Children[Top.dir]
       IN  IF Top.next > Len(kids)
           THEN /\ stack' = SubSeq(stack, 1, Len(stack) - 1)
                /\ pc' = IF Len(stack) = 1 THEN "spec" ELSE "entry"
                /\ UNCHANGED <<cur, version, log, status, cause, result>>
           ELSE LET c == kids[Top.next] IN
                CASE Kind[c] = "file"      ->
                         /\ cur' = c /\ pc' = "fetch"
                         /\ UNCHANGED <<stack, version, log, status, cause, result>>
                  [] Kind[c] = "dir"       ->
                         /\ cur' = c /\ pc' = "onDir"
                         /\ UNCHANGED <<stack, version, log, status, cause, result>>
                  [] Kind[c] \in {"symlink", "submodule"} ->
                         /\ stack' = Advance(stack)
                         /\ UNCHANGED <<pc, cur, version, log, status, cause, result>>
    /\ UNCHANGED <<lib, libRefSpec>>

\* Mutant: a symlink is refused like a submodule (case "symlink",
\* "submodule": sharing the return).
EntryRefuseSymlink ==
    /\ pc = "entry"
    /\ LET kids == Children[Top.dir]
       IN  IF Top.next > Len(kids)
           THEN /\ stack' = SubSeq(stack, 1, Len(stack) - 1)
                /\ pc' = IF Len(stack) = 1 THEN "spec" ELSE "entry"
                /\ UNCHANGED <<cur, version, log, status, cause, result>>
           ELSE LET c == kids[Top.next] IN
                CASE Kind[c] = "file"      ->
                         /\ cur' = c /\ pc' = "fetch"
                         /\ UNCHANGED <<stack, version, log, status, cause, result>>
                  [] Kind[c] = "dir"       ->
                         /\ cur' = c /\ pc' = "onDir"
                         /\ UNCHANGED <<stack, version, log, status, cause, result>>
                  [] Kind[c] \in {"symlink", "submodule"} -> Abort("structure")
    /\ UNCHANGED <<lib, libRefSpec>>

\* Mutant: a directory entry is recursed into without the onDir callback.
EntryRecurseWithoutOnDir ==
    /\ pc = "entry"
    /\ LET kids == Children[Top.dir]
       IN  IF Top.next > Len(kids)
           THEN /\ stack' = SubSeq(stack, 1, Len(stack) - 1)
                /\ pc' = IF Len(stack) = 1 THEN "spec" ELSE "entry"
                /\ UNCHANGED <<cur, version, log, status, cause, result>>
           ELSE LET c == kids[Top.next] IN
                CASE Kind[c] = "file"      ->
                         /\ cur' = c /\ pc' = "fetch"
                         /\ UNCHANGED <<stack, version, log, status, cause, result>>
                  [] Kind[c] = "dir"       ->
                         /\ cur' = c /\ pc' = "list" /\ stack' = Advance(stack)
                         /\ UNCHANGED <<version, log, status, cause, result>>
                  [] Kind[c] = "symlink"   ->
                         /\ stack' = Advance(stack)
                         /\ UNCHANGED <<pc, cur, version, log, status, cause, result>>
                  [] Kind[c] = "submodule" -> Abort("structure")
    /\ UNCHANGED <<lib, libRefSpec>>

\* One turn of the loop over the listing of the top frame; past its end,
\* resolveDir returns nil to its caller (or to ResolveLibrary).
Entry ==
    /\ pc = "entry"
    /\ LET kids == Children[Top.dir]
       IN  IF Top.next > Len(kids)
           THEN /\ stack' = SubSeq(stack, 1, Len(stack) - 1)
                /\ pc' = IF Len(stack) = 1 THEN "spec" ELSE "entry"
                /\ UNCHANGED <<cur, version, log, status, cause, result>>
           ELSE LET c == kids[Top.next] IN
                CASE Kind[c] = "file"      ->
                         /\ cur' = c /\ pc' = "fetch"
                         /\ UNCHANGED <<stack, version, log, status, cause, result>>
                  [] Kind[c] = "dir"       ->
                         /\ cur' = c /\ pc' = "onDir"
                         /\ UNCHANGED <<stack, version, log, status, cause, result>>
                  [] Kind[c] = "symlink"   ->
                         /\ stack' = Advance(stack)
                         /\ UNCHANGED <<pc, cur, version, log, status, cause, result>>
                  [] Kind[c] = "submodule" -> Abort("structure")
    /\ UNCHANGED <<lib, libRefSpec>>

\* Contents(itemPath) of a file entry, and file.GetContent.
Fetch ==
    /\ pc = "fetch"
    /\ pc' = "onFile"
    /\ UNCHANGED <<lib, libRefSpec, stack, cur, version, log, status, cause, result>>

FetchFailed ==
    /\ pc = "fetch"
    /\ Abort("transport")
    /\ UNCHANGED <<lib, libRefSpec>>

\* onFile(itemPath, contents) returns nil; the loop goes on.
OnFile ==
    /\ pc = "onFile"
    /\ log' = Append(log, <<"file", cur>>)
    /\ stack' = Advance(stack)
    /\ pc' = "entry"
    /\ UNCHANGED <<lib, libRefSpec, cur, version, status, cause, result>>

\* A callback returns an error: resolveDir returns it at once.
CallbackFailed ==
    /\ pc \in {"onFile", "onDir"}
    /\ Abort("callback")
    /\ UNCHANGED <<lib, libRefSpec>>

\* onDir(itemPath) returns nil, then resolveDir recurses into the entry;
\* the parent frame resumes after it at its next entry.
OnDir ==
    /\ pc = "onDir"
    /\ log' = Append(log, <<"dir", cur>>)
    /\ stack' = Advance(stack)
    /\ pc' = "list"
    /\ UNCHANGED <<lib, libRefSpec, cur, version, status, cause, result>>

----------------------------------------------------------------------------
(* The second fetch of parts.yaml and the return.                          *)

\* Mutant: the LibraryConfig is stamped with libRefSpec, not the commit.
FetchSpecStampRef ==
    /\ pc = "spec"
    /\ IF Kind[PartsOf[lib]] = "file"
       THEN /\ pc' = "done"
            /\ status' = "ok"
            /\ result' = [version |-> libRefSpec]
            /\ UNCHANGED <<stack, cur, version, log, cause>>
       ELSE Abort("structure")
    /\ UNCHANGED <<lib, libRefSpec>>

\* Contents(<library>/parts.yaml): a directory is refused, a file is
\* decoded and unmarshalled and the LibraryConfig is stamped with the
\* resolved commit.
FetchSpec ==
    /\ pc = "spec"
    /\ IF Kind[PartsOf[lib]] = "file"
       THEN /\ pc' = "done"
            /\ status' = "ok"
            /\ result' = [version |-> version]
            /\ UNCHANGED <<stack, cur, version, log, cause>>
       ELSE Abort("structure")
    /\ UNCHANGED <<lib, libRefSpec>>

\* The fetch, GetContent or parts.Unmarshal fails.
FetchSpecFailed ==
    /\ pc = "spec"
    /\ Abort("transport")
    /\ UNCHANGED <<lib, libRefSpec>>

Next ==
    \/ ResolveSHA \/ ResolveSHAFailed \/ ResolveSHAEmpty
    \/ List \/ ListFailed \/ Entry
    \/ Fetch \/ FetchFailed \/ OnFile \/ OnDir \/ CallbackFailed
    \/ FetchSpec \/ FetchSpecFailed

Spec == Init /\ [][Next]_vars

----------------------------------------------------------------------------
(* Properties.                                                             *)

\* Type invariant.
TypeOK ==
    /\ pc \in {"sha", "list", "entry", "fetch", "onFile", "onDir", "spec", "done"}
    /\ stack \in Seq([dir: Nodes, next: Nat \ {0}])
    /\ cur \in Nodes
    /\ version \in {"sha", Blank}
    /\ log \in Seq({"dir", "file"} \X Nodes)
    /\ status \in {"running", "ok", "error"}
    /\ result \in {None} \cup [version: {"sha", Blank}]

\* A ResolveLibrary that returns no error returns a LibraryConfig stamped
\* with the resolved commit (spec.md 4.3: "build and return the library
\* resolution record").
ResultStamped ==
    status = "ok" => result # None /\ result.version = "sha"

\* What ResolveLibrary returns is justified by the commit it resolved and
\* by the tree.  A nil error comes either from the empty-libRefSpec path
\* whose resolveLatestSHA answered "" (nil, nil, nil: no config, nothing
\* resolved), or after resolveDir has returned to ResolveLibrary and
\* parts.yaml was fetched as a file, with a LibraryConfig stamped with the
\* resolved commit.  A structural error ("resolves to a file", "points at
\* a file", "doesn't support ... submodules") names a real defect: the
\* library is not a directory, its parts.yaml is a directory, or the
\* entry the loop of the top frame is at is a submodule.
ReturnJustified ==
    /\ status = "ok" =>
           \/ /\ result = None
              /\ libRefSpec = Blank
              /\ version = Blank
           \/ /\ stack = <<>>
              /\ Kind[PartsOf[lib]] = "file"
              /\ result = [version |-> version]
    /\ cause = "structure" =>
           \/ /\ stack = <<>>
              /\ Kind[lib] # "dir" \/ Kind[PartsOf[lib]] = "dir"
           \/ /\ stack # <<>>
              /\ Top.next <= Len(Children[Top.dir])
              /\ Kind[Children[Top.dir][Top.next]] = "submodule"

\* onDir runs before resolveDir lists the directory (the caller's mkdir
\* before any file of it is written): every step that opens a resolveDir
\* frame opens it either for the library itself, from ResolveLibrary, or
\* for the directory the last callback announced.
AnnouncedBeforeListed ==
    [][Len(stack') > Len(stack) =>
           \/ stack = <<>> /\ stack'[Len(stack')].dir = lib
           \/ log # <<>> /\ log[Len(log)] = <<"dir", stack'[Len(stack')].dir>>
      ]_vars

================================================================================
