---------------------------- MODULE MCEspSharing ----------------------------
(***************************************************************************)
(* The ids of the current system and of a generation, and two kernels and  *)
(* an initrd; a rebuild may need either kernel for either id: so entries   *)
(* share files, and systems change theirs.                                 *)
(***************************************************************************)
EXTENDS EspSharing, TLC

CONSTANTS nd, g1, k1, k2, i1, v1, v2

MCIds == {nd, g1}
MCFiles == {k1, k2, i1}
MCBuildable == {{k1, i1}, {k2, i1}}
MCKeys == {"timeout"}
MCTwoKeys == {"timeout", "fastboot"}
MCValues == {v1, v2}
MCBuiltTimeout == [key |-> "timeout", value |-> v1]

\* Bound: programs that run at the same time, two commands or a command and
\* a rebuild.
TwoAtOnce == Cardinality({c \in Clis : cli[c].pc # "idle"}) + (IF phase = "idle" THEN 0 ELSE 1) <= 2

\* Commands are alike, and so are the kernels.
Alike == Permutations(Clis) \cup Permutations({k1, k2})
=============================================================================
