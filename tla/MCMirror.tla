-------------------------------- MODULE MCMirror --------------------------------
(* Mirror for TLC: the bounds are the cfg's. *)
EXTENDS Mirror

================================================================================
