---------------------------- MODULE MCApplyPatch ----------------------------
(* Small instances of ApplyPatch for TLC: two jobs, whose paths and sizes   *)
(* the configurations choose.                                                *)
EXTENDS ApplyPatch

\* Contents: "a0" -> "a1" is the first job's patch and "b0" -> "b1" the
\* second's, "bx" a second source the second job also has a patch for.
MCContent == {"absent", "garbage", "a0", "a1", "b0", "bx", "b1"}
MCSources == <<{"a0"}, {"b0", "bx"}>>
MCNew == <<"a1", "b1">>
MCSize == [c \in MCContent |-> IF c \in {"b0", "b1"} THEN 2 ELSE 1]

\* Both jobs patch in place.
InPlaceSrc == <<"p", "q">>
InPlaceTgt == <<"p", "q">>

\* The second job makes a new file "r" out of "q".
MovedTgt == <<"p", "r">>

\* The script checks every source for the hashes before and after.
FullChecks == [j \in 1..2 |-> MCSources[j] \cup {MCNew[j]}]
=============================================================================
