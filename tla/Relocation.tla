------------------------------- MODULE Relocation -------------------------------
(***************************************************************************)
(* What a transplant promises: the work of a worktree is at its source, at *)
(* both devices or at its copy, one step at a time.  A copy may be taken   *)
(* back, or fall behind a source that goes on, only while the source       *)
(* stands.  A source written to as it is deleted, after the last look, is  *)
(* out of the promise.                                                     *)
(***************************************************************************)
VARIABLE place

Init == place = "source"

\* The copy has all of it, by a landing or as the source comes back to it.
Land == place = "source" /\ place' = "both"

TakeBack == place = "both" /\ place' = "source"

Settle == place = "both" /\ place' = "copy"

Race == place \in {"source", "both"} /\ place' = "raced"

Next == Land \/ TakeBack \/ Settle \/ Race

Spec == Init /\ [][Next]_place

================================================================================
