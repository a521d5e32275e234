--------------------------- MODULE MCAccessReview ---------------------------
(* A small instance of AccessReview: two of the five checks, told apart only *)
(* by the subresource; one is made for the kind of the request and one for   *)
(* the kind Pod.                                                             *)
EXTENDS AccessReview
MCCheck == {[sub |-> "", verb |-> "get"], [sub |-> "log", verb |-> "get"]}
=============================================================================
