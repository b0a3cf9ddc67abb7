------------------------ MODULE LibraryResolverProofs ------------------------
(***************************************************************************)
(* Proofs about LibraryResolver for every tree, library and libRefSpec:    *)
(* its values are well typed, its returns are justified by the tree, and   *)
(* onDir precedes every listing; all rest on resolveDir's call stack being *)
(* a path down the tree.                                                   *)
(***************************************************************************)
EXTENDS LibraryResolver, SequenceTheorems, TLAPS



\* A resolveDir frame.
Frames == [dir: Nodes, next: Nat \ {0}]

\* The strengthening the proofs below rest on, checked by TLC as part of
\* their inductive invariants.  The Go call stack of resolveDir is a path
\* down the library's tree: the
\* bottom frame lists the library, each frame above lists the entry its
\* caller's loop stopped at (the caller has moved one past it), every
\* loop index is within its listing, and the entry in hand (to fetch, to
\* announce, or to list next) is the one the top frame's loop is at.
StackIsPath ==
    /\ \A k \in 1..Len(stack) :
           /\ Kind[stack[k].dir] = "dir"
           /\ stack[k].next \in 1..Len(Children[stack[k].dir]) + 1
    /\ stack # <<>> => stack[1].dir = lib
    /\ \A k \in 1..Len(stack) - 1 :
           /\ stack[k].next >= 2
           /\ Children[stack[k].dir][stack[k].next - 1] = stack[k + 1].dir
    /\ pc \in {"sha", "spec"} => stack = <<>>
    /\ pc \in {"sha", "list"} /\ stack = <<>> => cur = lib
    /\ pc \in {"entry", "fetch", "onFile", "onDir"} => stack # <<>>
    /\ pc \in {"fetch", "onFile", "onDir"} =>
           /\ Top.next <= Len(Children[Top.dir])
           /\ cur = Children[Top.dir][Top.next]
           /\ Kind[cur] = IF pc = "onDir" THEN "dir" ELSE "file"
    /\ pc = "list" /\ stack # <<>> =>
           /\ Top.next >= 2
           /\ cur = Children[Top.dir][Top.next - 1]
           /\ Kind[cur] = "dir"

(***************************************************************************)
(* Advance moves the top frame's index on and keeps every other frame.     *)
(***************************************************************************)
LEMMA AdvanceFrames ==
    ASSUME NEW s \in Seq(Frames), s # <<>>
    PROVE  /\ Advance(s) \in Seq(Frames)
           /\ Len(Advance(s)) = Len(s)
           /\ \A k \in 1..Len(s) - 1 : Advance(s)[k] = s[k]
           /\ Advance(s)[Len(s)].dir = s[Len(s)].dir
           /\ Advance(s)[Len(s)].next = s[Len(s)].next + 1
<1> DEFINE n == Len(s)
           t == s[n]
           u == [dir |-> t.dir, next |-> t.next + 1]
<1>0. Len(s) >= 1
  BY EmptySeq
<1>1. n \in 1..Len(s) /\ t \in Frames
  BY <1>0, ElementOfSeq
<1>2. u \in Frames /\ [t EXCEPT !.next = t.next + 1] = u
  BY <1>1 DEF Frames
<1>3. Advance(s) = [s EXCEPT ![n] = [t EXCEPT !.next = t.next + 1]]
  BY Zenon DEF Advance
<1>5. Advance(s) = [s EXCEPT ![n] = u]
  BY Zenon, <1>2, <1>3
<1>4. QED
  BY <1>1, <1>2, <1>5, ExceptSeq

\* The length SubSeq gives a prefix of n elements.  Z3 does not prove this
\* when n is written as Len(s) - 1, so it is proved once for a bound n.
LEMMA PrefixLength ==
    ASSUME NEW n \in Nat PROVE (IF 1 <= n THEN n - 1 + 1 ELSE 0) = n
  BY SMT

(***************************************************************************)
(* Returning from resolveDir drops the top frame and keeps the others.     *)
(***************************************************************************)
LEMMA PopFrames ==
    ASSUME NEW s \in Seq(Frames), s # <<>>
    PROVE  /\ SubSeq(s, 1, Len(s) - 1) \in Seq(Frames)
           /\ Len(SubSeq(s, 1, Len(s) - 1)) = Len(s) - 1
           /\ \A k \in 1..Len(s) - 1 : SubSeq(s, 1, Len(s) - 1)[k] = s[k]
<1> DEFINE n == Len(s) - 1
<1>1. n \in Nat
  BY EmptySeq
<1>2. \A i \in 1..n : s[i] \in Frames
  BY <1>1
<1>3. /\ SubSeq(s, 1, n) \in Seq(Frames)
      /\ Len(SubSeq(s, 1, n)) = IF 1 <= n THEN n - 1 + 1 ELSE 0
      /\ \A i \in 1..n - 1 + 1 : SubSeq(s, 1, n)[i] = s[1 + i - 1]
  BY <1>1, <1>2, SubSeqProperties
<1>4. (IF 1 <= n THEN n - 1 + 1 ELSE 0) = n
  BY <1>1, PrefixLength, Zenon
<1>5. Len(SubSeq(s, 1, n)) = n
  BY <1>3, <1>4
<1>6. \A k \in 1..n : SubSeq(s, 1, n)[k] = s[k]
  BY <1>3
<1>7. QED
  BY <1>3, <1>5, <1>6 DEF n

(***************************************************************************)
(* The inductive invariant: the types and the shape of the stack.  TypeOK  *)
(* alone is not inductive: Entry reads the top frame's listing, which is   *)
(* only defined when the stack is not empty and the index is in range.     *)
(***************************************************************************)
IInv == TypeOK /\ StackIsPath

LEMMA InitIInv == Init => IInv
BY ResolverAssumption DEF Init, IInv, TypeOK, StackIsPath

\* A non-empty stack has a top frame.
LEMMA TopFrame ==
    ASSUME TypeOK, stack # <<>>
    PROVE  /\ stack \in Seq(Frames)
           /\ Len(stack) \in Nat \ {0}
           /\ Top \in Frames
<1>1. stack \in Seq(Frames)
  BY DEF TypeOK, Frames
<1>2. Len(stack) \in Nat \ {0}
  BY <1>1, EmptySeq
<1>3. Top \in Frames
  BY <1>1, <1>2, ElementOfSeq DEF Top
<1>4. QED
  BY <1>1, <1>2, <1>3

\* The entry the top frame's loop is at.
LEMMA EntryAt ==
    ASSUME TypeOK, stack # <<>>, Top.next <= Len(Children[Top.dir])
    PROVE  /\ Children[Top.dir][Top.next] \in Nodes
           /\ Top \in Frames
<1>1. Top \in Frames
  BY TopFrame
<1>2. Children[Top.dir] \in Seq(Nodes)
  BY <1>1, ResolverAssumption DEF Frames
<1>3. Top.next \in 1..Len(Children[Top.dir])
  BY <1>1 DEF Frames
<1>4. QED
  BY <1>1, <1>2, <1>3, ElementOfSeq

(***************************************************************************)
(* StackIsPath splits into the shape of the stack, which the stack         *)
(* operations must keep, and how the shape relates to pc and cur.          *)
(***************************************************************************)
Shape(s) ==
    /\ \A k \in 1..Len(s) :
           /\ Kind[s[k].dir] = "dir"
           /\ s[k].next \in 1..Len(Children[s[k].dir]) + 1
    /\ s # <<>> => s[1].dir = lib
    /\ \A k \in 1..Len(s) - 1 :
           /\ s[k].next >= 2
           /\ Children[s[k].dir][s[k].next - 1] = s[k + 1].dir

Control ==
    /\ pc \in {"sha", "spec"} => stack = <<>>
    /\ pc \in {"sha", "list"} /\ stack = <<>> => cur = lib
    /\ pc \in {"entry", "fetch", "onFile", "onDir"} => stack # <<>>
    /\ pc \in {"fetch", "onFile", "onDir"} =>
           /\ Top.next <= Len(Children[Top.dir])
           /\ cur = Children[Top.dir][Top.next]
           /\ Kind[cur] = IF pc = "onDir" THEN "dir" ELSE "file"
    /\ pc = "list" /\ stack # <<>> =>
           /\ Top.next >= 2
           /\ cur = Children[Top.dir][Top.next - 1]
           /\ Kind[cur] = "dir"

LEMMA StackIsPathSplit == StackIsPath <=> Shape(stack) /\ Control
  BY DEF StackIsPath, Shape, Control

\* Moving the top frame on past an entry of its listing keeps the shape,
\* and the new top frame stops just after that entry.
LEMMA AdvanceShape ==
    ASSUME TypeOK, Shape(stack), stack # <<>>,
           Top.next <= Len(Children[Top.dir])
    PROVE  LET s == Advance(stack) IN
           /\ s \in Seq(Frames)
           /\ s # <<>>
           /\ Shape(s)
           /\ s[Len(s)].dir = Top.dir
           /\ s[Len(s)].next = Top.next + 1
<1> DEFINE s == Advance(stack)
           n == Len(stack)
<1>0. n \in Nat \ {0}
  BY TopFrame
<1>1. stack \in Seq(Frames) /\ Top \in Frames
  BY TopFrame
<1>2. /\ s \in Seq(Frames)
      /\ Len(s) = n
      /\ \A k \in 1..n - 1 : s[k] = stack[k]
      /\ s[n].dir = stack[n].dir
      /\ s[n].next = stack[n].next + 1
  BY <1>1, AdvanceFrames
<1>3. s # <<>>
  BY <1>0, <1>1, <1>2
<1>4. ASSUME NEW k \in 1..Len(s)
      PROVE  /\ Kind[s[k].dir] = "dir"
             /\ s[k].next \in 1..Len(Children[s[k].dir]) + 1
  <2>1. CASE k < n
    BY <2>1, <1>2 DEF Shape
  <2>2. CASE k = n
    BY <2>2, <1>1, <1>2 DEF Shape, Top, Frames
  <2>3. k < n \/ k = n
    BY <1>0, <1>2
  <2>4. QED
    BY <2>1, <2>2, <2>3, Zenon
<1>5. s[1].dir = lib
  <2>1. CASE n = 1
    BY <2>1, <1>2 DEF Shape
  <2>2. CASE n > 1
    BY <2>2, <1>2 DEF Shape
  <2>3. n > 1 \/ n = 1
    BY <1>0
  <2>4. QED
    BY <2>1, <2>2, <2>3, Zenon
<1>6. ASSUME NEW k \in 1..Len(s) - 1
      PROVE  /\ s[k].next >= 2
             /\ Children[s[k].dir][s[k].next - 1] = s[k + 1].dir
  <2>0. /\ k \in 1..n - 1 /\ s[k] = stack[k]
        /\ stack[k].next >= 2
        /\ Children[stack[k].dir][stack[k].next - 1] = stack[k + 1].dir
    BY <1>0, <1>1, <1>2 DEF Shape
  <2>1. CASE k + 1 < n
    <3>1. s[k + 1] = stack[k + 1]
      BY <2>1, <1>0, <1>1, <1>2
    <3>2. QED
      BY <2>0, <3>1
  <2>2. CASE k + 1 = n
    <3>1. s[k + 1].dir = stack[k + 1].dir
      BY <2>2, <1>2
    <3>2. QED
      BY <2>0, <3>1
  <2>3. k + 1 < n \/ k + 1 = n
    BY <2>0, <1>0
  <2>4. QED
    BY <2>1, <2>2, <2>3, Zenon
<1>7. QED
  BY <1>2, <1>3, <1>4, <1>5, <1>6 DEF Shape, Top

\* Returning from resolveDir keeps the shape of the callers' frames.
LEMMA PopShape ==
    ASSUME TypeOK, Shape(stack), stack # <<>>
    PROVE  LET p == SubSeq(stack, 1, Len(stack) - 1) IN
           /\ p \in Seq(Frames)
           /\ Len(p) = Len(stack) - 1
           /\ Shape(p)
<1> DEFINE p == SubSeq(stack, 1, Len(stack) - 1)
           n == Len(stack)
<1>0. n \in Nat \ {0}
  BY TopFrame
<1>1. /\ p \in Seq(Frames)
      /\ Len(p) = n - 1
      /\ \A k \in 1..n - 1 : p[k] = stack[k]
  BY TopFrame, PopFrames
<1>2. ASSUME NEW k \in 1..Len(p)
      PROVE  /\ Kind[p[k].dir] = "dir"
             /\ p[k].next \in 1..Len(Children[p[k].dir]) + 1
  <2>1. k \in 1..n /\ p[k] = stack[k]
    BY <1>0, <1>1
  <2>2. QED
    BY <2>1 DEF Shape
<1>3. p # <<>> => p[1].dir = lib
  <2>1. SUFFICES ASSUME p # <<>> PROVE p[1].dir = lib
    OBVIOUS
  <2>2. 1 \in 1..n - 1
    BY <2>1, <1>0, <1>1, EmptySeq
  <2>3. QED
    BY <2>2, <1>1 DEF Shape
<1>4. ASSUME NEW k \in 1..Len(p) - 1
      PROVE  /\ p[k].next >= 2
             /\ Children[p[k].dir][p[k].next - 1] = p[k + 1].dir
  <2>1. /\ k \in 1..n - 1 /\ k + 1 \in 1..n - 1
        /\ p[k] = stack[k] /\ p[k + 1] = stack[k + 1]
    BY <1>0, <1>1
  <2>2. QED
    BY <2>1 DEF Shape
<1>5. QED
  BY <1>1, <1>2, <1>3, <1>4 DEF Shape

\* Calling resolveDir on the entry in hand pushes a frame that keeps the
\* shape: the entry is a directory, the library itself at the bottom, and
\* otherwise the entry the caller's loop has just moved past.
LEMMA PushShape ==
    ASSUME TypeOK, Shape(stack), cur \in Nodes, Kind[cur] = "dir",
           stack = <<>> => cur = lib,
           stack # <<>> => /\ Top.next >= 2
                           /\ cur = Children[Top.dir][Top.next - 1]
    PROVE  LET q == Append(stack, [dir |-> cur, next |-> 1]) IN
           /\ q \in Seq(Frames)
           /\ q # <<>>
           /\ Shape(q)
           /\ q[Len(q)] = [dir |-> cur, next |-> 1]
<1> DEFINE f == [dir |-> cur, next |-> 1]
           q == Append(stack, f)
           n == Len(stack)
<1>0. stack \in Seq(Frames) /\ n \in Nat
  BY DEF TypeOK, Frames
<1>1. f \in Frames
  BY DEF Frames
<1>2. /\ q \in Seq(Frames)
      /\ Len(q) = n + 1
      /\ \A k \in 1..n : q[k] = stack[k]
      /\ q[n + 1] = f
  BY <1>0, <1>1, AppendProperties
<1>3. q # <<>>
  BY <1>0, <1>2, EmptySeq
<1>4. ASSUME NEW k \in 1..Len(q)
      PROVE  /\ Kind[q[k].dir] = "dir"
             /\ q[k].next \in 1..Len(Children[q[k].dir]) + 1
  <2>1. CASE k \in 1..n
    BY <2>1, <1>2 DEF Shape
  <2>2. CASE k = n + 1
    <3>1. Len(Children[cur]) \in Nat
      BY ResolverAssumption, LenProperties
    <3>2. QED
      BY <2>2, <1>2, <3>1
  <2>3. QED
    BY <2>1, <2>2, <1>0, <1>2
<1>5. q[1].dir = lib
  <2>1. CASE n = 0
    BY <2>1, <1>0, <1>2, EmptySeq
  <2>2. CASE n # 0
    BY <2>2, <1>0, <1>2, EmptySeq DEF Shape
  <2>3. QED
    BY <2>1, <2>2
<1>6. ASSUME NEW k \in 1..Len(q) - 1
      PROVE  /\ q[k].next >= 2
             /\ Children[q[k].dir][q[k].next - 1] = q[k + 1].dir
  <2>1. k \in 1..n /\ q[k] = stack[k]
    BY <1>0, <1>2
  <2>2. CASE k + 1 \in 1..n
    BY <2>1, <2>2, <1>2 DEF Shape
  <2>3. CASE k = n
    <3>1. stack # <<>> /\ Top = stack[k]
      BY <2>1, <2>3, <1>0, EmptySeq DEF Top
    <3>2. q[k + 1].dir = cur
      BY <2>3, <1>2
    <3>3. QED
      BY <2>1, <3>1, <3>2
  <2>4. QED
    BY <2>1, <2>2, <2>3, <1>0
<1>7. QED
  BY <1>2, <1>3, <1>4, <1>5, <1>6 DEF Shape

\* A step that keeps the stack and the library keeps the shape.
LEMMA SameStack ==
    ASSUME Shape(stack), stack' = stack, lib' = lib, Control'
    PROVE  StackIsPath'
  BY DEF StackIsPath, Shape, Control

LEMMA IInvInductive == IInv /\ [Next]_vars => IInv'
<1> SUFFICES ASSUME TypeOK, Shape(stack), Control, [Next]_vars
             PROVE  TypeOK' /\ StackIsPath'
  BY StackIsPathSplit DEF IInv
<1>0. stack \in Seq(Frames)
  BY DEF TypeOK, Frames
<1>1. CASE ResolveSHA
  BY <1>1 DEF ResolveSHA, TypeOK, Shape, Control, StackIsPath
<1>2. CASE ResolveSHAFailed
  BY <1>2 DEF ResolveSHAFailed, Abort, TypeOK, Shape, Control, StackIsPath
<1>3. CASE ResolveSHAEmpty
  <2>1. CASE libRefSpec = Blank
    BY <1>3, <2>1 DEF ResolveSHAEmpty, TypeOK, Shape, Control, StackIsPath
  <2>2. CASE libRefSpec # Blank
    BY <1>3, <2>2 DEF ResolveSHAEmpty, TypeOK, Shape, Control, StackIsPath
  <2>3. QED
    BY <2>1, <2>2
<1>4. CASE List
  <2>1. CASE Kind[cur] = "dir"
    <3> DEFINE q == Append(stack, [dir |-> cur, next |-> 1])
    <3>1. /\ stack' = q /\ pc' = "entry"
          /\ UNCHANGED <<lib, cur, version, log, status, cause, result>>
      BY <1>4, <2>1 DEF List
    <3>2. /\ q \in Seq(Frames) /\ q # <<>> /\ Shape(q)
      BY <1>4, <2>1, PushShape DEF List, TypeOK, Control
    <3>3. TypeOK'
      BY <3>1, <3>2 DEF TypeOK, Frames
    <3>4. StackIsPath'
      BY <3>1, <3>2 DEF StackIsPath, Shape
    <3>5. QED
      BY <3>3, <3>4
  <2>2. CASE Kind[cur] # "dir"
    BY <1>4, <2>2 DEF List, Abort, TypeOK, Shape, Control, StackIsPath
  <2>3. QED
    BY <2>1, <2>2
<1>5. CASE ListFailed
  BY <1>5 DEF ListFailed, Abort, TypeOK, Shape, Control, StackIsPath
<1>6. CASE Entry
  <2> DEFINE kids == Children[Top.dir]
             c    == kids[Top.next]
  <2>0. pc = "entry" /\ stack # <<>>
    BY <1>6 DEF Entry, Control
  <2>1. CASE Top.next > Len(kids)
    <3> DEFINE p == SubSeq(stack, 1, Len(stack) - 1)
    <3>1. /\ stack' = p
          /\ pc' = IF Len(stack) = 1 THEN "spec" ELSE "entry"
          /\ UNCHANGED <<lib, cur, version, log, status, cause, result>>
      BY <1>6, <2>1 DEF Entry
    <3>2. /\ p \in Seq(Frames) /\ Len(p) = Len(stack) - 1 /\ Shape(p)
      BY <2>0, PopShape
    <3>3. Len(stack) = 1 <=> p = <<>>
      <4>1. Len(stack) \in Nat \ {0}
        BY <2>0, TopFrame
      <4>2. p = <<>> <=> Len(p) = 0
        BY <3>2, EmptySeq
      <4>3. QED
        BY <4>1, <4>2, <3>2
    <3>4. TypeOK'
      BY <3>1, <3>2 DEF TypeOK, Frames
    <3>5. StackIsPath'
      BY <3>1, <3>2, <3>3 DEF StackIsPath, Shape
    <3>6. QED
      BY <3>4, <3>5
  <2>2. CASE ~(Top.next > Len(kids))
    <3>0. /\ Top.next <= Len(kids)
          /\ c \in Nodes
          /\ Kind[c] \in {"file", "dir", "symlink", "submodule"}
      <4>1. Top \in Frames /\ kids \in Seq(Nodes)
        BY <2>0, TopFrame, ResolverAssumption DEF Frames
      <4>2. Top.next <= Len(kids)
        BY <2>2, <4>1, LenProperties DEF Frames
      <4>3. QED
        BY <2>0, <4>2, EntryAt, ResolverAssumption
    <3>1. CASE Kind[c] = "file"
      <4>1. /\ cur' = c /\ pc' = "fetch"
            /\ UNCHANGED <<lib, stack, version, log, status, cause, result>>
        BY <1>6, <2>2, <3>1 DEF Entry
      <4>2. TypeOK'
        BY <4>1, <3>0 DEF TypeOK
      <4>3. Control'
        BY <4>1, <3>0, <3>1, <2>0 DEF Control, Top
      <4>4. QED
        BY <4>1, <4>2, <4>3, SameStack
    <3>2. CASE Kind[c] = "dir"
      <4>1. /\ cur' = c /\ pc' = "onDir"
            /\ UNCHANGED <<lib, stack, version, log, status, cause, result>>
        BY <1>6, <2>2, <3>2 DEF Entry
      <4>2. TypeOK'
        BY <4>1, <3>0 DEF TypeOK
      <4>3. Control'
        BY <4>1, <3>0, <3>2, <2>0 DEF Control, Top
      <4>4. QED
        BY <4>1, <4>2, <4>3, SameStack
    <3>3. CASE Kind[c] = "symlink"
      <4> DEFINE a == Advance(stack)
      <4>1. /\ stack' = a /\ pc' = "entry"
            /\ UNCHANGED <<lib, cur, version, log, status, cause, result>>
        BY <1>6, <2>2, <3>3 DEF Entry
      <4>2. /\ a \in Seq(Frames) /\ a # <<>> /\ Shape(a)
        BY <3>0, <2>0, AdvanceShape
      <4>3. TypeOK'
        BY <4>1, <4>2 DEF TypeOK, Frames
      <4>4. StackIsPath'
        BY <4>1, <4>2 DEF StackIsPath, Shape
      <4>5. QED
        BY <4>3, <4>4
    <3>4. CASE Kind[c] = "submodule"
      BY <1>6, <2>2, <3>4 DEF Entry, Abort, TypeOK, Shape, Control, StackIsPath
    <3>5. QED
      BY <3>0, <3>1, <3>2, <3>3, <3>4
  <2>3. QED
    BY <2>1, <2>2
<1>7. CASE Fetch
  <2>1. TypeOK'
    BY <1>7 DEF Fetch, TypeOK
  <2>2. Control'
    BY <1>7 DEF Fetch, Control, Top
  <2>3. QED
    BY <1>7, <2>1, <2>2, SameStack DEF Fetch
<1>8. CASE FetchFailed
  BY <1>8 DEF FetchFailed, Abort, TypeOK, Shape, Control, StackIsPath
<1>9. CASE OnFile
  <2> DEFINE a == Advance(stack)
  <2>0. /\ stack # <<>> /\ Top.next <= Len(Children[Top.dir])
        /\ cur = Children[Top.dir][Top.next]
    BY <1>9 DEF OnFile, Control
  <2>1. /\ a \in Seq(Frames) /\ a # <<>> /\ Shape(a)
    BY <2>0, AdvanceShape
  <2>2. /\ stack' = a /\ pc' = "entry" /\ log' = Append(log, <<"file", cur>>)
        /\ UNCHANGED <<lib, cur, version, status, cause, result>>
    BY <1>9 DEF OnFile
  <2>3. TypeOK'
    <3>1. cur \in Nodes /\ log \in Seq({"dir", "file"} \X Nodes)
      BY DEF TypeOK
    <3>2. Append(log, <<"file", cur>>) \in Seq({"dir", "file"} \X Nodes)
      BY <3>1, AppendProperties
    <3>3. QED
      BY <2>1, <2>2, <3>2 DEF TypeOK, Frames
  <2>4. StackIsPath'
    BY <2>1, <2>2 DEF StackIsPath, Shape
  <2>5. QED
    BY <2>3, <2>4
<1>10. CASE OnDir
  <2> DEFINE a == Advance(stack)
  <2>0. /\ stack # <<>> /\ Top.next <= Len(Children[Top.dir])
        /\ cur = Children[Top.dir][Top.next] /\ Kind[cur] = "dir"
    BY <1>10 DEF OnDir, Control
  <2>1. /\ a \in Seq(Frames) /\ a # <<>> /\ Shape(a)
        /\ a[Len(a)].dir = Top.dir /\ a[Len(a)].next = Top.next + 1
    BY <2>0, AdvanceShape
  <2>2. /\ stack' = a /\ pc' = "list" /\ log' = Append(log, <<"dir", cur>>)
        /\ UNCHANGED <<lib, cur, version, status, cause, result>>
    BY <1>10 DEF OnDir
  <2>3. TypeOK'
    <3>1. cur \in Nodes /\ log \in Seq({"dir", "file"} \X Nodes)
      BY DEF TypeOK
    <3>2. Append(log, <<"dir", cur>>) \in Seq({"dir", "file"} \X Nodes)
      BY <3>1, AppendProperties
    <3>3. QED
      BY <2>1, <2>2, <3>2 DEF TypeOK, Frames
  <2>4. /\ Top'.next >= 2
        /\ cur' = Children[Top'.dir][Top'.next - 1]
    <3>1. Top.next \in Nat \ {0}
      BY <2>0, TopFrame DEF Frames
    <3> DEFINE t == a[Len(a)]
    <3>2. Top' = t
      BY <2>2 DEF Top
    <3>3. t.dir = Top.dir /\ t.next = Top.next + 1
      BY <2>1
    <3>4. t.next - 1 = Top.next /\ t.next >= 2
      BY <3>1, <3>3
    <3>5. cur' = Children[t.dir][t.next - 1]
      <4>1. cur' = cur
        BY <2>2
      <4>2. Children[t.dir][t.next - 1] = Children[Top.dir][Top.next]
        BY <3>3, <3>4
      <4>3. QED
        BY <2>0, <4>1, <4>2
    <3>6. QED
      BY <3>2, <3>4, <3>5
  <2>5. StackIsPath'
    BY <2>0, <2>1, <2>2, <2>4 DEF StackIsPath, Shape
  <2>6. QED
    BY <2>3, <2>5
<1>11. CASE CallbackFailed
  BY <1>11 DEF CallbackFailed, Abort, TypeOK, Shape, Control, StackIsPath
<1>12. CASE FetchSpec
  <2>1. CASE Kind[PartsOf[lib]] = "file"
    BY <1>12, <2>1 DEF FetchSpec, TypeOK, Shape, Control, StackIsPath
  <2>2. CASE Kind[PartsOf[lib]] # "file"
    BY <1>12, <2>2 DEF FetchSpec, Abort, TypeOK, Shape, Control, StackIsPath
  <2>3. QED
    BY <2>1, <2>2
<1>13. CASE FetchSpecFailed
  BY <1>13 DEF FetchSpecFailed, Abort, TypeOK, Shape, Control, StackIsPath
<1>14. CASE UNCHANGED vars
  BY <1>14 DEF vars, TypeOK, Shape, Control, StackIsPath, Top
<1>15. QED
  BY <1>1, <1>2, <1>3, <1>4, <1>5, <1>6, <1>7, <1>8, <1>9, <1>10, <1>11,
     <1>12, <1>13, <1>14 DEF Next

(***************************************************************************)
(* Type correctness of ResolveLibrary (the invariant TypeOK the resolver   *)
(* run checks): every entry the loop reads is a node of the tree and the   *)
(* LibraryConfig carries the resolved version.                             *)
(***************************************************************************)
THEOREM TypeCorrect == Spec => []TypeOK
<1>1. IInv => TypeOK
  BY DEF IInv
<1>2. QED
  BY <1>1, InitIInv, IInvInductive, PTL DEF Spec

(***************************************************************************)
(* The outcome of ResolveLibrary.  ReturnJustified is not inductive by     *)
(* itself: a step from a state that already has an outcome must be ruled  *)
(* out, and the nil, nil, nil return must find nothing resolved.  While   *)
(* the call has not returned it has no outcome and no config, and before  *)
(* the commit is resolved the version is the zero value; the library is  *)
(* one of the registry's.                                                  *)
(***************************************************************************)
Settled ==
    /\ lib \in Libs
    /\ pc # "done" => /\ status = "running" /\ cause = "none"
                      /\ result = None
    /\ pc = "sha" => version = Blank

RInv == IInv /\ Settled /\ ReturnJustified

LEMMA InitRInv == Init => RInv
BY InitIInv DEF Init, RInv, Settled, ReturnJustified

\* A step the call takes while it has not returned.
LEMMA Running ==
    ASSUME Settled, Next
    PROVE  /\ pc # "done" /\ status = "running" /\ cause = "none"
           /\ result = None
BY DEF Settled, Next, ResolveSHA, ResolveSHAFailed, ResolveSHAEmpty, List,
       ListFailed, Entry, Fetch, FetchFailed, OnFile, OnDir, CallbackFailed,
       FetchSpec, FetchSpecFailed

\* A step that keeps the outcome running, or fails for a reason that is
\* not structural, keeps ReturnJustified and Settled.
LEMMA NoVerdict ==
    ASSUME Settled, Next, pc' # "sha", lib' = lib,
           \/ status' = "running" /\ cause' = "none" /\ result' = None
           \/ /\ pc' = "done" /\ status' = "error"
              /\ cause' \in {"transport", "callback"}
    PROVE  Settled' /\ ReturnJustified'
BY DEF Settled, ReturnJustified

LEMMA RInvInductive == RInv /\ [Next]_vars => RInv'
<1> SUFFICES ASSUME IInv, Settled, ReturnJustified, [Next]_vars
             PROVE  RInv'
  BY DEF RInv
<1>1. IInv'
  BY IInvInductive
<1>2. CASE UNCHANGED vars
  BY <1>1, <1>2 DEF vars, RInv, Settled, ReturnJustified, Top
<1>3. ASSUME Next PROVE Settled' /\ ReturnJustified'
  <2>0. /\ pc # "done" /\ status = "running" /\ cause = "none"
        /\ result = None
    BY <1>3, Running
  <2>1. CASE ResolveSHA \/ ResolveSHAFailed \/ ListFailed \/ Fetch
             \/ FetchFailed \/ OnFile \/ OnDir \/ CallbackFailed
             \/ FetchSpecFailed
    BY <1>3, <2>0, <2>1, NoVerdict
       DEF ResolveSHA, ResolveSHAFailed, ListFailed, Fetch, FetchFailed,
           OnFile, OnDir, CallbackFailed, FetchSpecFailed, Abort
  <2>2. CASE ResolveSHAEmpty
    <3>1. version = Blank
      BY <2>2 DEF ResolveSHAEmpty, Settled
    <3>2. CASE libRefSpec = Blank
      BY <2>0, <2>2, <3>1, <3>2 DEF ResolveSHAEmpty, Settled, ReturnJustified
    <3>3. CASE libRefSpec # Blank
      BY <1>3, <2>0, <2>2, <3>3, NoVerdict DEF ResolveSHAEmpty
    <3>4. QED
      BY <3>2, <3>3
  <2>3. CASE List
    <3>1. CASE Kind[cur] = "dir"
      BY <1>3, <2>0, <2>3, <3>1, NoVerdict DEF List
    <3>2. CASE Kind[cur] # "dir"
      <4>1. stack = <<>> /\ cur = lib
        BY <2>3, <3>2 DEF List, IInv, StackIsPath
      <4>2. /\ pc' = "done" /\ status' = "error" /\ cause' = "structure"
            /\ stack' = stack /\ cur' = cur /\ lib' = lib
        BY <2>3, <3>2 DEF List, Abort
      <4>3. QED
        BY <4>1, <4>2, <3>2 DEF Settled, ReturnJustified
    <3>3. QED
      BY <3>1, <3>2
  <2>4. CASE Entry
    <3> DEFINE kids == Children[Top.dir]
               c    == kids[Top.next]
    <3>1. CASE Kind[c] = "submodule" /\ ~(Top.next > Len(kids))
      <4>1. /\ stack # <<>> /\ Top.next \in Nat
        BY <2>4, TopFrame DEF Entry, IInv, StackIsPath, Frames
      <4>2. Top.next <= Len(kids)
        BY <3>1, <4>1
      <4>3. /\ pc' = "done" /\ status' = "error" /\ cause' = "structure"
            /\ stack' = stack /\ lib' = lib
        BY <2>4, <3>1 DEF Entry, Abort
      <4>4. QED
        BY <3>1, <4>1, <4>2, <4>3 DEF Settled, ReturnJustified, Top
    <3>2. CASE Top.next > Len(kids)
      <4>1. /\ pc' \in {"spec", "entry"} /\ lib' = lib
            /\ UNCHANGED <<status, cause, result>>
        BY <2>4, <3>2 DEF Entry
      <4>2. QED
        BY <1>3, <2>0, <4>1, NoVerdict
    <3>4. CASE ~(Top.next > Len(kids)) /\ Kind[c] # "submodule"
      <4>1. Kind[c] \in {"file", "dir", "symlink"}
        <5>1. /\ stack # <<>> /\ Top \in Frames /\ kids \in Seq(Nodes)
          BY <2>4, TopFrame, ResolverAssumption DEF Entry, IInv, StackIsPath, Frames
        <5>2. Top.next <= Len(kids)
          BY <3>4, <5>1, LenProperties DEF Frames
        <5>3. c \in Nodes
          BY <5>1, <5>2, EntryAt DEF IInv
        <5>4. QED
          BY <3>4, <5>3, ResolverAssumption
      <4>2. /\ pc' \in {"fetch", "onDir", "entry"} /\ lib' = lib
            /\ UNCHANGED <<status, cause, result>>
        BY <2>4, <3>4, <4>1 DEF Entry
      <4>3. QED
        BY <1>3, <2>0, <4>2, NoVerdict
    <3>3. QED
      BY <3>1, <3>2, <3>4
  <2>5. CASE FetchSpec
    <3>1. stack = <<>>
      BY <2>5 DEF FetchSpec, IInv, StackIsPath
    <3>2. CASE Kind[PartsOf[lib]] = "file"
      BY <2>5, <3>1, <3>2 DEF FetchSpec, Settled, ReturnJustified
    <3>3. CASE Kind[PartsOf[lib]] # "file"
      <4>1. Kind[PartsOf[lib]] = "dir"
        BY <3>3, ResolverAssumption DEF Settled
      <4>2. QED
        BY <2>5, <3>1, <3>3, <4>1 DEF FetchSpec, Abort, Settled, ReturnJustified
    <3>4. QED
      BY <3>2, <3>3
  <2>6. QED
    BY <1>3, <2>1, <2>2, <2>3, <2>4, <2>5 DEF Next
<1>4. QED
  BY <1>1, <1>2, <1>3 DEF RInv

(***************************************************************************)
(* For every tree, library and libRefSpec, whatever fails: a nil error     *)
(* from ResolveLibrary is either the nil, nil, nil of an empty libRefSpec *)
(* whose latest commit came back "", or a config stamped with the resolved *)
(* commit after the walk returned and parts.yaml was a file; and a        *)
(* structural error names a library that is not a directory, a parts.yaml *)
(* that is one, or a submodule at the entry the walk is at (the property  *)
(* ReturnJustified the resolver run checks).                              *)
(***************************************************************************)
THEOREM ReturnJustifiedHolds == Spec => []ReturnJustified
<1>1. RInv => ReturnJustified
  BY DEF RInv
<1>2. QED
  BY <1>1, InitRInv, RInvInductive, PTL DEF Spec

(***************************************************************************)
(* onDir before the listing.  The action property needs to know, when a   *)
(* frame is pushed for a directory below the library, that the last       *)
(* callback announced it: OnDir is the only step into "list" with a       *)
(* non-empty stack, and it appends <<"dir", cur>>.                         *)
(***************************************************************************)
\* The entry the loop of the top frame is at has one of the four kinds.
LEMMA EntryKinds ==
    ASSUME IInv, pc = "entry", ~(Top.next > Len(Children[Top.dir]))
    PROVE  Kind[Children[Top.dir][Top.next]] \in {"file", "dir", "symlink", "submodule"}
<1>1. /\ stack # <<>> /\ Top \in Frames /\ Children[Top.dir] \in Seq(Nodes)
  BY TopFrame, ResolverAssumption DEF IInv, StackIsPath, Frames
<1>2. Top.next <= Len(Children[Top.dir])
  BY <1>1, LenProperties DEF Frames
<1>3. Children[Top.dir][Top.next] \in Nodes
  BY <1>1, <1>2, EntryAt DEF IInv
<1>4. QED
  BY <1>3, ResolverAssumption

ListAnnounced ==
    pc = "list" /\ stack # <<>> =>
        log # <<>> /\ log[Len(log)] = <<"dir", cur>>

AInv == IInv /\ ListAnnounced

LEMMA InitAInv == Init => AInv
BY InitIInv DEF Init, AInv, ListAnnounced

LEMMA AInvInductive == AInv /\ [Next]_vars => AInv'
<1> SUFFICES ASSUME IInv, ListAnnounced, [Next]_vars
             PROVE  AInv'
  BY DEF AInv
<1>1. IInv'
  BY IInvInductive
<1>2. CASE OnDir
  <2>1. /\ log' = Append(log, <<"dir", cur>>) /\ cur' = cur
    BY <1>2 DEF OnDir
  <2>2. log \in Seq({"dir", "file"} \X Nodes)
    BY DEF IInv, TypeOK
  <2>3. log' # <<>> /\ log'[Len(log')] = <<"dir", cur'>>
    BY <2>1, <2>2, AppendProperties, EmptySeq
  <2>4. QED
    BY <1>1, <2>3 DEF AInv, ListAnnounced
<1>3. CASE ResolveSHA \/ ResolveSHAEmpty
  <2>1. stack = <<>> /\ stack' = stack
    BY <1>3 DEF ResolveSHA, ResolveSHAEmpty, IInv, StackIsPath
  <2>2. QED
    BY <1>1, <2>1 DEF AInv, ListAnnounced
<1>4. CASE \/ ResolveSHAFailed \/ List \/ ListFailed \/ Fetch \/ FetchFailed
           \/ OnFile \/ CallbackFailed \/ FetchSpec \/ FetchSpecFailed
  <2>1. pc' # "list"
    BY <1>4 DEF ResolveSHAFailed, List, ListFailed, Fetch, FetchFailed,
       OnFile, CallbackFailed, FetchSpec, FetchSpecFailed, Abort
  <2>2. QED
    BY <1>1, <2>1 DEF AInv, ListAnnounced
<1>7. CASE Entry
  <2>1. CASE Top.next > Len(Children[Top.dir])
    <3>1. pc' \in {"spec", "entry"}
      BY <1>7, <2>1 DEF Entry
    <3>2. QED
      BY <1>1, <3>1 DEF AInv, ListAnnounced
  <2>2. CASE ~(Top.next > Len(Children[Top.dir]))
    <3>1. Kind[Children[Top.dir][Top.next]] \in {"file", "dir", "symlink", "submodule"}
      BY <1>7, <2>2, EntryKinds DEF Entry
    <3>2. pc' \in {"fetch", "onDir", "entry", "done"}
      BY <1>7, <2>2, <3>1 DEF Entry, Abort
    <3>3. QED
      BY <1>1, <3>2 DEF AInv, ListAnnounced
  <2>3. QED
    BY <2>1, <2>2
<1>5. CASE UNCHANGED vars
  BY <1>1, <1>5 DEF vars, AInv, ListAnnounced
<1>6. QED
  BY <1>2, <1>3, <1>4, <1>5, <1>7 DEF Next

\* The step of an action property: only List makes the stack longer.
AnnouncedStep ==
    Len(stack') > Len(stack) =>
        \/ stack = <<>> /\ stack'[Len(stack')].dir = lib
        \/ log # <<>> /\ log[Len(log)] = <<"dir", stack'[Len(stack')].dir>>

LEMMA AnnouncedStepHolds == AInv /\ [Next]_vars => [AnnouncedStep]_vars
<1> SUFFICES ASSUME IInv, ListAnnounced, Next
             PROVE  AnnouncedStep
  BY DEF AInv
<1>0. stack \in Seq(Frames)
  BY DEF IInv, TypeOK, Frames
<1>1. CASE List /\ Kind[cur] = "dir"
  <2> DEFINE f == [dir |-> cur, next |-> 1]
  <2>1. stack' = Append(stack, f) /\ pc = "list"
    BY <1>1 DEF List
  <2>2. f \in Frames
    BY DEF IInv, TypeOK, Frames
  <2>3. Len(stack') = Len(stack) + 1 /\ stack'[Len(stack')].dir = cur
    BY <1>0, <2>1, <2>2, AppendProperties
  <2>4. stack = <<>> => cur = lib
    BY <2>1 DEF IInv, StackIsPath
  <2>5. QED
    BY <2>1, <2>3, <2>4 DEF ListAnnounced, AnnouncedStep
<1>2. CASE Entry /\ Top.next > Len(Children[Top.dir])
  <2>1. stack # <<>>
    BY <1>2 DEF Entry, IInv, StackIsPath
  <2>2. stack' = SubSeq(stack, 1, Len(stack) - 1)
    BY <1>2 DEF Entry
  <2>3. Len(stack') = Len(stack) - 1
    BY <1>0, <2>1, <2>2, PopFrames
  <2>4. QED
    BY <2>3 DEF AnnouncedStep
<1>3. CASE Entry /\ ~(Top.next > Len(Children[Top.dir]))
  <2> DEFINE c == Children[Top.dir][Top.next]
  <2>1. Kind[c] \in {"file", "dir", "symlink", "submodule"}
    BY <1>3, EntryKinds DEF Entry
  <2>2. CASE Kind[c] = "symlink"
    <3>1. /\ stack # <<>> /\ stack' = Advance(stack)
      BY <1>3, <2>2 DEF Entry, IInv, StackIsPath
    <3>2. QED
      BY <1>0, <3>1, AdvanceFrames DEF AnnouncedStep
  <2>3. CASE Kind[c] # "symlink"
    <3>1. stack' = stack
      BY <1>3, <2>1, <2>3 DEF Entry, Abort
    <3>2. QED
      BY <3>1 DEF AnnouncedStep
  <2>4. QED
    BY <2>2, <2>3
<1>4. CASE OnFile \/ OnDir
  <2>1. /\ stack # <<>> /\ stack' = Advance(stack)
    BY <1>4 DEF OnFile, OnDir, IInv, StackIsPath
  <2>2. QED
    BY <1>0, <2>1, AdvanceFrames DEF AnnouncedStep
<1>6. CASE \/ ResolveSHA \/ ResolveSHAFailed \/ ResolveSHAEmpty
           \/ (List /\ Kind[cur] # "dir") \/ ListFailed \/ Fetch \/ FetchFailed
           \/ CallbackFailed \/ FetchSpec \/ FetchSpecFailed
  <2>1. stack' = stack
    BY <1>6 DEF ResolveSHA, ResolveSHAFailed, ResolveSHAEmpty, List,
       ListFailed, Fetch, FetchFailed, CallbackFailed, FetchSpec,
       FetchSpecFailed, Abort
  <2>2. QED
    BY <2>1 DEF AnnouncedStep
<1>5. QED
  BY <1>1, <1>2, <1>3, <1>4, <1>6 DEF Next

(***************************************************************************)
(* For every tree, resolveDir lists a directory only when it is the       *)
(* library itself or the directory onDir was told of by the last callback *)
(* (the action property AnnouncedBeforeListed the resolver run checks):   *)
(* the caller's onDir always runs before anything in the directory is     *)
(* fetched or announced.                                                   *)
(***************************************************************************)
THEOREM AnnouncedBeforeListedHolds == Spec => AnnouncedBeforeListed
<1>1. AInv /\ [Next]_vars => [AnnouncedStep]_vars
  BY AnnouncedStepHolds
<1>2. QED
  BY <1>1, InitAInv, AInvInductive, PTL DEF Spec, AnnouncedBeforeListed, AnnouncedStep

================================================================================
