------------------------- MODULE MCSandboxRecovery --------------------------
(* SandboxRecovery for TLC.                                                *)
EXTENDS SandboxRecovery, TLC

(* Bound: both commands are run only with one PaddleBoard at a time, and   *)
(* without other programs and file system errors; one is run with all that. *)
Bounded ==
    \/ \E c \in Commands : cmd[c].step = "unborn"
    \/ single /\ faulty = {} /\ \A p \in Pids : app[p].phase # "other"

(* Neither pids nor commands are told apart.                               *)
Symmetry == Permutations(Pids) \cup Permutations(Commands)
=============================================================================
