-------------------------- MODULE ParamDeleteProofs --------------------------
(***************************************************************************)
(* Proofs about ParamDelete for every value of its constants.              *)
(***************************************************************************)
EXTENDS ParamDelete, TLAPS

USE ParamDeleteAssumption

\* The stores as RunParamDelete finds them.
Before == [s \in Stores |-> {KeyOf(s, r) : r \in RawPaths}]

(***************************************************************************)
(* The outcome of a finished command, and what holds on the way: nothing  *)
(* is deleted before the delete step, a command that got past             *)
(* NewParamDelete has no load error and not both --env and --global, and  *)
(* the store Run chose is the one the options name.                       *)
(***************************************************************************)
IInv ==
    /\ pc \in {"new", "run", "delete", "done"}
    /\ pc \in {"new", "run", "delete"} => params = Before /\ status = "running"
    /\ pc \in {"run", "delete"} => ~(opts.envName # Blank /\ opts.global)
    /\ pc = "delete" => target = Named(opts)
    /\ pc = "done" =>
           /\ status \in {"ok", "error"}
           /\ status = "ok" =>
                  /\ target = Named(opts)
                  /\ target \in Stores
                  /\ params = [Before EXCEPT ![target] = @ \ {KeyOf(target, opts.rawPath)}]
           /\ status = "error" => params = Before

LEMMA InitIInv == Init => IInv
BY DEF Init, IInv, Before

LEMMA IInvInductive == IInv /\ [Next]_vars => IInv'
<1> SUFFICES ASSUME IInv, [Next]_vars PROVE IInv'
  OBVIOUS
<1>1. CASE NewParamDelete
  BY <1>1 DEF NewParamDelete, Fail, IInv
<1>2. CASE RunEnv
  BY <1>2 DEF RunEnv, IInv, Named
<1>3. CASE RunGlobal
  BY <1>3 DEF RunGlobal, Fail, IInv, Named
<1>4. CASE RunLocal
  <2>1. Named(opts) = ComponentStore(opts.name)
    BY <1>4 DEF RunLocal, Named
  <2>2. QED
    BY <1>4, <2>1 DEF RunLocal, Fail, IInv
<1>5. CASE Delete
  BY <1>5 DEF Delete, IInv
<1>6. CASE DeleteFailed
  BY <1>6 DEF DeleteFailed, Fail, IInv
<1>7. CASE UNCHANGED vars
  BY <1>7 DEF vars, IInv
<1>8. QED
  BY <1>1, <1>2, <1>3, <1>4, <1>5, <1>6, <1>7 DEF Next

(***************************************************************************)
(* Every key a store starts with is a key of Keys.                         *)
(***************************************************************************)
LEMMA BeforeKeys == Before \in [Stores -> SUBSET Keys]
<1>1. ASSUME NEW s \in Stores, NEW r \in RawPaths PROVE KeyOf(s, r) \in Keys
  BY DEF KeyOf, Keys
<1>2. QED
  BY <1>1 DEF Before

(***************************************************************************)
(* TypeOK is inductive on its own: Run only builds stores out of the       *)
(* option values, and a delete only removes keys.                          *)
(***************************************************************************)
LEMMA TypeOKInductive == TypeOK /\ [Next]_vars => TypeOK'
<1> SUFFICES ASSUME TypeOK, [Next]_vars PROVE TypeOK'
  OBVIOUS
<1> USE DEF TypeOK, Options
<1>1. CASE NewParamDelete
  BY <1>1 DEF NewParamDelete, Fail
<1>2. CASE RunEnv
  BY <1>2 DEF RunEnv, Stores
<1>3. CASE RunGlobal
  BY <1>3 DEF RunGlobal, Fail, Stores
<1>4. CASE RunLocal
  BY <1>4 DEF RunLocal, Fail, Stores
<1>5. CASE Delete
  BY <1>5 DEF Delete
<1>6. CASE DeleteFailed
  BY <1>6 DEF DeleteFailed, Fail
<1>7. CASE UNCHANGED vars
  BY <1>7 DEF vars
<1>8. QED
  BY <1>1, <1>2, <1>3, <1>4, <1>5, <1>6, <1>7 DEF Next

(***************************************************************************)
(* Type correctness of `param delete` (the invariant TypeOK the run        *)
(* checks): in particular the store Run hands a delete to is a store of    *)
(* the app, or an env-component pair built from the typed name.            *)
(***************************************************************************)
THEOREM TypeCorrect == Spec => []TypeOK
<1>1. Init => TypeOK
  BY BeforeKeys DEF Init, TypeOK, Before
<1>2. QED
  BY <1>1, TypeOKInductive, PTL DEF Spec

----------------------------------------------------------------------------
(* The refinement of ParamDeleteCommand.                                   *)

\* The result the abstract command shows.
Result == IF pc = "done" THEN status ELSE "pending"

LEMMA CommandInit == Init => Command!Init
BY BeforeKeys DEF Init, Command!Init, Before, Result

(***************************************************************************)
(* Every step of the command is a step of ParamDeleteCommand or leaves     *)
(* the options, the stores and the reported result alone.                  *)
(***************************************************************************)
LEMMA CommandStep ==
    IInv /\ [Next]_vars => [Command!Next]_<<opts, params, Result>>
<1> SUFFICES ASSUME IInv, [Next]_vars
             PROVE  [Command!Next]_<<opts, params, Result>>
  OBVIOUS
<1>1. CASE NewParamDelete
  BY <1>1 DEF NewParamDelete, Fail, IInv, Result, Command!Next, Command!Refuse
<1>2. CASE RunEnv
  BY <1>2 DEF RunEnv, Result
<1>3. CASE RunGlobal
  BY <1>3 DEF RunGlobal, Fail, IInv, Result, Command!Next, Command!Refuse
<1>4. CASE RunLocal
  BY <1>4 DEF RunLocal, Fail, IInv, Result, Command!Next, Command!Refuse
<1>5. CASE Delete
  <2>1. target = Named(opts) /\ target \in Stores
    BY <1>5 DEF Delete, IInv
  <2>2. Command!Remove
    BY <1>5, <2>1 DEF Delete, IInv, Result, Command!Remove
  <2>3. QED
    BY <2>2 DEF Command!Next
<1>6. CASE DeleteFailed
  BY <1>6 DEF DeleteFailed, Fail, IInv, Result, Command!Next, Command!Refuse
<1>7. CASE UNCHANGED vars
  BY <1>7 DEF vars, Result
<1>8. QED
  BY <1>1, <1>2, <1>3, <1>4, <1>5, <1>6, <1>7 DEF Next

(***************************************************************************)
(* `ks param delete` does what ParamDeleteCommand promises (the property   *)
(* ImplementsCommand the param delete run checks): whatever its options,   *)
(* each of its steps edits no store until the one step that reports its    *)
(* result, which removes the typed key from the store the options name or *)
(* reports an error with every store as it was.                            *)
(***************************************************************************)
THEOREM ImplementsCommandHolds == Spec => ImplementsCommand
<1>1. Spec => []IInv
  BY InitIInv, IInvInductive, PTL DEF Spec
<1>2. QED
  BY <1>1, CommandInit, CommandStep, PTL
     DEF Spec, ImplementsCommand, Command!Spec, Result


================================================================================
