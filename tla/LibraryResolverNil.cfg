CONSTANTS
    Nodes <- MCNodes
    Kind <- MCKind
    Children <- MCChildren
    Libs <- MCLibs
    PartsOf <- MCPartsOf
    LibRefSpecs = {"", "v1"}
    EmptySHA = {""}
    None = None

SPECIFICATION Spec

INVARIANT ResultStamped

CHECK_DEADLOCK FALSE
