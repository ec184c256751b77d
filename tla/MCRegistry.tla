----------------------------- MODULE MCRegistry -----------------------------
(***************************************************************************)
(* Registry for TLC: a few names of each kind, and one share below the     *)
(* closed loop's floor, one at it and the default one.                     *)
(***************************************************************************)
EXTENDS Registry, TLC

MCShares == {32, 64, DefaultShare}

\* NodeBs and UEs are interchangeable; slices are not, because of DefaultSlice.
MCSymmetry == Permutations(NodeB) \cup Permutations(Ue)

=============================================================================
