--------------------------- MODULE MCResourceSync ---------------------------
(* Small instances of ResourceSync: pods, and a kind that is not Pod. *)
EXTENDS ResourceSync, TLC
CONSTANTS Pod, Service, p1, p2, s1
MCKindOf == [k \in Key |-> IF k = s1 THEN Service ELSE Pod]
Symmetry == Permutations({p1, p2})
=============================================================================
