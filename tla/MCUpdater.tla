------------------------------- MODULE MCUpdater -------------------------------
(* Updater for TLC: the model values and the bounds are the cfg's. *)
EXTENDS Updater, TLC

================================================================================
