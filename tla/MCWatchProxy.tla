---------------------------- MODULE MCWatchProxy ----------------------------
(* A small instance of WatchProxy. *)
EXTENDS WatchProxy
=============================================================================
