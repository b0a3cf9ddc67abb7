CONSTANTS
    Nodes <- MCNodes
    Kind <- MCKind
    Children <- MCChildren
    Libs <- MCLibs
    PartsOf <- MCPartsOf
    LibRefSpecs = {"", "v1"}
    EmptySHA = {"v1"}
    None = None

SPECIFICATION Spec

INVARIANT TypeOK
 

PROPERTIES
    Implements
    AnnouncedBeforeListed

CHECK_DEADLOCK FALSE
