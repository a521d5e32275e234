--------------------------- MODULE MCResourceList ---------------------------
(* A small instance of ResourceList. *)
EXTENDS ResourceList
=============================================================================
