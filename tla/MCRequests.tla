----------------------------- MODULE MCRequests -----------------------------
(* A small instance of Requests. *)
EXTENDS Requests
=============================================================================
