---------------------------- MODULE MCParamDelete ----------------------------
(***************************************************************************)
(* An app with two components, the root module and one more, and two       *)
(* environments; paths with and without a dot and the empty path.          *)
(***************************************************************************)
EXTENDS ParamDelete

MCNames == {"", "web", "nested", "bogus"}

================================================================================
