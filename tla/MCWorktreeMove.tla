---------------------------- MODULE MCWorktreeMove -----------------------------
(* WorktreeMove for TLC: two processes with a fiber each, or one alone. *)
EXTENDS WorktreeMove, TLC

CONSTANTS app, cli, run, command, fox, otter, home, away, far, farther

MCProc == [t \in Tasks |-> IF t = run THEN app ELSE cli]
OneProc == [t \in Tasks |-> app]
MCHome == [w \in Worktrees |-> IF w = fox THEN home ELSE None]

\* The two processes, each with its fiber, are alike.
Swap == {f \in Permutations({app, cli, run, command}) : 
             f = (run :> command @@ command :> run @@ app :> cli @@ cli :> app)}
================================================================================
