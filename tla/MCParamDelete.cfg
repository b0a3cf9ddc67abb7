CONSTANTS
    Components = {"web", "db"}
    Modules = {"", "nested"}
    Envs = {"dev", "prod"}
    RawPaths = {"image", "image.tag", ""}
    Names <- MCNames
    None = None

SPECIFICATION Spec

INVARIANTS
    TypeOK

PROPERTY
    ImplementsCommand

CHECK_DEADLOCK FALSE
