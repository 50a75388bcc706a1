----------------------------- MODULE MCDataDirMove -----------------------------
(* DataDirMove for TLC: the model values and the bounds are the cfgs'. *)
EXTENDS DataDirMove, TLC

WorktreeSymmetry == Permutations(Worktrees)
================================================================================
