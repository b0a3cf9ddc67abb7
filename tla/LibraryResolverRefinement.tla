----------------------- MODULE LibraryResolverRefinement -----------------------
(***************************************************************************)
(* LibraryResolver against its abstract specification LibraryResolution.  *)
(* The refinement is checked by TLC only: the abstract module defines the *)
(* walk as a recursive function over the tree, and what it computes would  *)
(* take an induction over the tree to prove.  LibraryResolverProofs proves *)
(* its theorems about LibraryResolver without this mapping.                *)
(***************************************************************************)
EXTENDS LibraryResolver

\* The abstract state is the library, the callbacks made so far and the
\* outcome of the call; the stack, the entry in hand, the resolved version
\* and the returned config are the implementation's own.
LR == INSTANCE LibraryResolution
          WITH lib <- lib, log <- log, status <- status, cause <- cause

\* resolveDir implements the promise of LibraryResolution: the callbacks
\* are the depth-first walk in listing order, directory before content,
\* symlinks skipped, nothing after a submodule; an error keeps what was
\* delivered; success comes only after the whole walk and a parts.yaml
\* that is a file, and a structural error only when the tree has one.
Implements == LR!Spec

================================================================================
