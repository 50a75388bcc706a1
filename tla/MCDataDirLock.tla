----------------------------- MODULE MCDataDirLock -----------------------------
(* DataDirLock for TLC: an app with a change, another nested in it, one apart *)
(* and a move, and a terminal with a change and the recovery a start runs.    *)
EXTENDS DataDirLock, TLC

CONSTANTS app, cli, outer, inner, other, command, move, settle

MCOwner == [x \in Changes \cup Movers |->
              IF x \in {command, settle} THEN cli ELSE app]
MCOuter == [c \in Changes |-> IF c = inner THEN outer ELSE None]
================================================================================
