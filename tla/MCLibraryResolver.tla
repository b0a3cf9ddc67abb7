-------------------------- MODULE MCLibraryResolver --------------------------
(***************************************************************************)
(* A registry repository at one commit, for LibraryResolver.  Four         *)
(* libraries: nginx (nested directories, an empty directory, a symlink,    *)
(* parts.yaml first in its listing), redis (a submodule one level down,    *)
(* before a file of the same directory and after a file of the library),   *)
(* single (a library name that is a file) and odd (parts.yaml is a         *)
(* directory).                                                             *)
(***************************************************************************)
EXTENDS LibraryResolverRefinement

MCNodes ==
    {"nginx", "nginx/parts.yaml", "nginx/prototypes", "nginx/prototypes/a",
     "nginx/prototypes/empty", "nginx/README.md", "nginx/link",
     "redis", "redis/parts.yaml", "redis/vendor", "redis/vendor/mod",
     "redis/vendor/x", "redis/z",
     "single", "single/parts.yaml",
     "odd", "odd/parts.yaml"}

MCKind ==
    [n \in MCNodes |->
        CASE n \in {"nginx", "nginx/prototypes", "nginx/prototypes/empty",
                    "redis", "redis/vendor", "odd", "odd/parts.yaml"} -> "dir"
          [] n = "nginx/link"       -> "symlink"
          [] n = "redis/vendor/mod" -> "submodule"
          [] OTHER                  -> "file"]

MCChildren ==
    [n \in MCNodes |->
        CASE n = "nginx"            -> <<"nginx/parts.yaml", "nginx/prototypes",
                                         "nginx/link", "nginx/README.md">>
          [] n = "nginx/prototypes" -> <<"nginx/prototypes/empty",
                                         "nginx/prototypes/a">>
          [] n = "redis"            -> <<"redis/parts.yaml", "redis/vendor",
                                         "redis/z">>
          [] n = "redis/vendor"     -> <<"redis/vendor/mod", "redis/vendor/x">>
          [] n = "odd"              -> <<"odd/parts.yaml">>
          [] OTHER                  -> <<>>]

MCLibs == {"nginx", "redis", "single", "odd"}

MCPartsOf == [l \in MCLibs |-> l \o "/parts.yaml"]

================================================================================
