--------------------------- MODULE MCConfigStore ---------------------------
(***************************************************************************)
(* ConfigStore with two credentials, two installation keys and a revision  *)
(* counter that is exhausted after MaxRevision saves.                      *)
(***************************************************************************)
EXTENDS ConfigStore
=============================================================================
