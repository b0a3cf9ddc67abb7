------------------------------ MODULE ParamDelete ------------------------------
(***************************************************************************)
(* The `param delete` action of pkg/actions/param_delete.go: NewParamDelete *)
(* loads and checks the options, Run picks one of four stores and deletes   *)
(* the parameter there.  The stores and the functions that edit them        *)
(* (env.DeleteParam, env.UnsetGlobalParams, component.GetModule,            *)
(* component.ResolvePath, Module.DeleteParam, Component.DeleteParam) are    *)
(* outside this file: each is a step that deletes the key it is given or    *)
(* fails and leaves its store alone.  The env functions take the raw path   *)
(* string, the component and module ones the path split on ".".            *)
(***************************************************************************)
EXTENDS Integers, Sequences, FiniteSets

CONSTANTS
    Components,     \* component names
    Modules,        \* module names ("" is the root module)
    Envs,           \* environment names
    RawPaths,       \* parameter paths as typed, e.g. "image.tag"
    Names,          \* values of --name / the component argument
    None            \* no component (ResolvePath found a module)

\* The empty string: no --env, no --name, the root module.
Blank == ""

ASSUME ParamDeleteAssumption ==
    /\ Components \cap Modules = {}
    /\ Names \subseteq STRING /\ Blank \in Names
    /\ RawPaths \subseteq STRING /\ Blank \notin Envs

\* strings.Split(s, "."): the segments between the dots, in order.
Split(s) ==
    LET dots == {i \in 1..Len(s) : SubSeq(s, i, i) = "."}
        cut  == [k \in 0..Cardinality(dots) + 1 |->
                    IF k = 0 THEN 0
                    ELSE IF k = Cardinality(dots) + 1 THEN Len(s) + 1
                    ELSE CHOOSE i \in dots :
                             Cardinality({j \in dots : j <= i}) = k]
    IN  [k \in 1..Cardinality(dots) + 1 |-> SubSeq(s, cut[k - 1] + 1, cut[k] - 1)]

\* The four stores a parameter can be deleted from.
EnvComponentStore(e, c) == <<"envComponent", e, c>>
EnvGlobalStore(e)       == <<"envGlobal", e>>
ModuleStore(m)          == <<"module", m>>
ComponentStore(c)       == <<"component", c>>

Stores ==
    {EnvComponentStore(e, c) : e \in Envs, c \in Components}
    \cup {EnvGlobalStore(e) : e \in Envs}
    \cup {ModuleStore(m) : m \in Modules}
    \cup {ComponentStore(c) : c \in Components}

\* The key a store is asked to delete, as a sequence of segments: the env
\* functions get the raw string whole, modules and components the path
\* split on ".".
KeyOf(store, raw) == IF store[1] \in {"envComponent", "envGlobal"}
                     THEN <<raw>> ELSE Split(raw)

\* The keys a store can hold: a raw path, or a path split on ".".
Keys == {<<r>> : r \in RawPaths} \cup {Split(r) : r \in RawPaths}

\* The command-line options of one invocation; loadErr: an option of the
\* wrong type, or no path (ol.err).
Options ==
    [name: Names, rawPath: RawPaths, global: BOOLEAN, envName: Envs \cup {Blank},
     loadErr: BOOLEAN]

VARIABLES
    opts,       \* the options map of RunParamDelete
    pc,         \* "new", "run", "delete" or "done"
    target,     \* the store Run chose, once it has
    params,     \* params[s]: the keys of the parameters store s holds
    status      \* "running", "ok" or "error"

vars == <<opts, pc, target, params, status>>

Init ==
    /\ opts \in Options
    /\ pc = "new"
    /\ target = None
    /\ params = [s \in Stores |-> {KeyOf(s, r) : r \in RawPaths}]
    /\ status = "running"

Fail ==
    /\ pc' = "done"
    /\ status' = "error"
    /\ UNCHANGED <<opts, target, params>>

\* NewParamDelete: a load error, or --env together with --global, is
\* returned before Run.
NewParamDelete ==
    /\ pc = "new"
    /\ IF opts.loadErr \/ (opts.envName # Blank /\ opts.global)
       THEN Fail
       ELSE /\ pc' = "run"
            /\ UNCHANGED <<opts, target, params, status>>

\* Run with an environment: env.DeleteParam(app, env, name, rawPath) for a
\* component, env.UnsetGlobalParams(app, env, rawPath) without one.
RunEnv ==
    /\ pc = "run"
    /\ opts.envName # Blank
    /\ target' = IF opts.name # Blank THEN EnvComponentStore(opts.envName, opts.name)
                                   ELSE EnvGlobalStore(opts.envName)
    /\ pc' = "delete"
    /\ UNCHANGED <<opts, params, status>>

\* deleteGlobal: component.GetModule(app, name); a name that is no module
\* is "retrieve module".
RunGlobal ==
    /\ pc = "run"
    /\ opts.envName = Blank /\ opts.global
    /\ IF opts.name \in Modules
       THEN /\ target' = ModuleStore(opts.name)
            /\ pc' = "delete"
            /\ UNCHANGED <<opts, params, status>>
       ELSE Fail

\* Mutant: the nil component of a module name is not refused.
RunLocalNoNilCheck ==
    /\ pc = "run"
    /\ opts.envName = Blank /\ ~opts.global
    /\ IF opts.name \in Components \cup Modules
       THEN /\ target' = ComponentStore(opts.name)
            /\ pc' = "delete"
            /\ UNCHANGED <<opts, params, status>>
       ELSE Fail

\* deleteLocal: component.ResolvePath(app, name) fails for an unknown name
\* and returns a nil component for a module; both are errors.
RunLocal ==
    /\ pc = "run"
    /\ opts.envName = Blank /\ ~opts.global
    /\ IF opts.name \in Components
       THEN /\ target' = ComponentStore(opts.name)
            /\ pc' = "delete"
            /\ UNCHANGED <<opts, params, status>>
       ELSE Fail

\* Mutant: the path is handed on unsplit to every store.
DeleteUnsplit ==
    /\ pc = "delete"
    /\ target \in Stores
    /\ params' = [params EXCEPT ![target] = @ \ {<<opts.rawPath>>}]
    /\ pc' = "done"
    /\ status' = "ok"
    /\ UNCHANGED <<opts, target>>

\* The delete function of the chosen store removes the key it is given.
Delete ==
    /\ pc = "delete"
    /\ target \in Stores
    /\ params' = [params EXCEPT ![target] = @ \ {KeyOf(target, opts.rawPath)}]
    /\ pc' = "done"
    /\ status' = "ok"
    /\ UNCHANGED <<opts, target>>

\* It returns an error (unknown environment or component, no such
\* parameter, a write that failed); Run wraps and returns it.
DeleteFailed ==
    /\ pc = "delete"
    /\ Fail

Next ==
    \/ NewParamDelete
    \/ RunEnv \/ RunGlobal \/ RunLocal
    \/ Delete \/ DeleteFailed

Spec == Init /\ [][Next]_vars

----------------------------------------------------------------------------
(* Properties.                                                             *)

\* Type invariant: Run chooses a store that exists, except that the env
\* functions are handed whatever component name was given.
TypeOK ==
    /\ opts \in Options
    /\ pc \in {"new", "run", "delete", "done"}
    /\ target \in Stores \cup {EnvComponentStore(e, n) : e \in Envs, n \in Names}
                  \cup {None}
    /\ params \in [Stores -> SUBSET Keys]
    /\ status \in {"running", "ok", "error"}

\* The store the options of `ks param delete` name (the command's help):
\* --env with a component, --env alone, --global with a module, or a
\* component; None for --env with --global, which names no store.
Named(o) ==
    CASE o.envName # Blank /\ o.global                   -> None
      [] o.envName # Blank /\ ~o.global /\ o.name # Blank ->
             EnvComponentStore(o.envName, o.name)
      [] o.envName # Blank /\ ~o.global /\ o.name = Blank -> EnvGlobalStore(o.envName)
      [] o.envName = Blank /\ o.global                   -> ModuleStore(o.name)
      [] o.envName = Blank /\ ~o.global                  -> ComponentStore(o.name)


\* ParamDelete implements ParamDeleteCommand: each step of the command
\* either changes no store and reports nothing yet, or is the one step
\* that reports the result, and that step removes the typed key from the
\* store the options name (success) or changes nothing (failure).  A
\* half-done command (a store edited, then an error) is not a step of it.
Command == INSTANCE ParamDeleteCommand
               WITH options <- opts,
                    stores  <- params,
                    result  <- IF pc = "done" THEN status ELSE "pending",
                    Target  <- Named,
                    Key     <- LAMBDA o : KeyOf(Named(o), o.rawPath)

ImplementsCommand == Command!Spec

================================================================================
