--------------------------- MODULE LibraryResolution ---------------------------
(***************************************************************************)
(* What GitHub.ResolveLibrary promises its caller (spec.md 4.2 and 4.3),   *)
(* at the level of the callbacks it makes.  The library is a tree of       *)
(* repository entries at one commit.  The caller sees onDirectory and      *)
(* onFile calls in depth-first order, each directory's entries in listing  *)
(* order, a directory announced before its content, symlinks skipped; a    *)
(* submodule stops the walk.  At any point the resolution may fail with a  *)
(* transport or callback error, and what was delivered stays delivered.    *)
(* It succeeds only after the whole walk, and only when the library's      *)
(* parts.yaml is a file; a submodule, a library that is a file or a        *)
(* parts.yaml that is a directory end it with a structural error.          *)
(***************************************************************************)
EXTENDS Naturals, Sequences

CONSTANTS
    Nodes,      \* repository entries, at the resolved commit
    Kind,       \* Kind[n] \in {"file", "dir", "symlink", "submodule"}
    Children,   \* Children[n]: the listing of directory n, in API order
    Libs,       \* library directories, <regRepoPath>/<partName>
    PartsOf     \* PartsOf[l]: the entry at <l>/parts.yaml

VARIABLES
    lib,        \* the library being resolved
    log,        \* the callbacks made so far: <<"dir", n>> or <<"file", n>>
    status,     \* "running", "ok" or "error"
    cause       \* why it failed: "transport", "callback" or "structure"

\* The depth-first walk below directory n: the callbacks it makes and
\* whether a submodule stopped it.  The listing of n is folded left to
\* right; once stopped, the rest of the listing is not looked at.
Walk[n \in Nodes] ==
    LET kids == Children[n]
        w[i \in 0..Len(kids)] ==
            IF i = 0 THEN [ev |-> <<>>, stop |-> FALSE]
            ELSE LET prev == w[i - 1]
                     c    == kids[i]
                 IN  IF prev.stop THEN prev
                     ELSE CASE Kind[c] = "file"      ->
                                   [prev EXCEPT !.ev = @ \o << <<"file", c>> >>]
                            [] Kind[c] = "dir"       ->
                                   [ev   |-> prev.ev \o << <<"dir", c>> >>
                                                     \o Walk[c].ev,
                                    stop |-> Walk[c].stop]
                            [] Kind[c] = "symlink"   -> prev
                            [] Kind[c] = "submodule" -> [prev EXCEPT !.stop = TRUE]
    IN  w[Len(kids)]

\* The callbacks of a complete resolution, in order.
Order == IF Kind[lib] = "dir" THEN Walk[lib].ev ELSE <<>>

\* The walk cannot succeed: the library is not a directory or holds a
\* submodule where the walk reaches it.
Blocked == Kind[lib] # "dir" \/ Walk[lib].stop

Init ==
    /\ lib \in Libs
    /\ log = <<>>
    /\ status = "running"
    /\ cause = "none"

\* The next callback of the walk.
Deliver ==
    /\ status = "running"
    /\ Len(log) < Len(Order)
    /\ log' = Append(log, Order[Len(log) + 1])
    /\ UNCHANGED <<lib, status, cause>>

\* A network call or a callback fails: the resolution ends, nothing is
\* rolled back.
Fail(why) ==
    /\ status = "running"
    /\ status' = "error"
    /\ cause' = why
    /\ UNCHANGED <<lib, log>>

\* The walk has gone as far as it can and the library cannot be resolved.
Refuse ==
    /\ status = "running"
    /\ log = Order
    /\ Blocked \/ Kind[PartsOf[lib]] = "dir"
    /\ status' = "error"
    /\ cause' = "structure"
    /\ UNCHANGED <<lib, log>>

\* The whole walk is delivered and parts.yaml is a file.
Finish ==
    /\ status = "running"
    /\ log = Order
    /\ ~Blocked
    /\ Kind[PartsOf[lib]] = "file"
    /\ status' = "ok"
    /\ UNCHANGED <<lib, log, cause>>

Next ==
    \/ Deliver
    \/ \E why \in {"transport", "callback"} : Fail(why)
    \/ Refuse
    \/ Finish

Spec == Init /\ [][Next]_<<lib, log, status, cause>>

================================================================================
