-------------------------- MODULE ParamDeleteCommand --------------------------
(***************************************************************************)
(* What `ks param delete` promises, in one step: given its options, the    *)
(* command either removes the typed parameter from the store the options  *)
(* name, and from no other, or it fails and the stores are as they were.  *)
(* The stores and what an option set names are parameters, given by       *)
(* ParamDelete.                                                            *)
(***************************************************************************)
CONSTANTS
    Options,    \* the option sets of one invocation
    Stores,     \* the parameter stores of the app
    Keys,       \* the keys a store can hold
    Target(_),  \* Target(o): the store the options o name
    Key(_)      \* Key(o): the key of the typed parameter path in that store

VARIABLES
    options,    \* the options of the invocation
    stores,     \* stores[s]: the keys store s holds
    result      \* "pending", then "ok" or "error"

Init ==
    /\ options \in Options
    /\ stores \in [Stores -> SUBSET Keys]
    /\ result = "pending"

\* The parameter is removed from the store the options name.
Remove ==
    /\ result = "pending"
    /\ Target(options) \in Stores
    /\ stores' = [stores EXCEPT ![Target(options)] = @ \ {Key(options)}]
    /\ result' = "ok"
    /\ UNCHANGED options

\* The command fails and nothing changes.
Refuse ==
    /\ result = "pending"
    /\ result' = "error"
    /\ UNCHANGED <<options, stores>>

Next == Remove \/ Refuse

Spec == Init /\ [][Next]_<<options, stores, result>>

================================================================================
