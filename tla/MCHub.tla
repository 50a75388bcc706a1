---------------------------------- MODULE MCHub ----------------------------------
(* Hub for TLC: the bounds are the cfg's. *)
EXTENDS Hub

================================================================================
