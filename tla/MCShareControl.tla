--------------------------- MODULE MCShareControl ---------------------------
(***************************************************************************)
(* ShareControl for TLC.                                                   *)
(***************************************************************************)
EXTENDS ShareControl, TLC

\* Half the threshold, and all of it.
MCTraffic == {[dl |-> 3, ul |-> 0], [dl |-> 3, ul |-> 3]}

\* Nothing and little besides.
MCJudged == MCTraffic \cup {[dl |-> 0, ul |-> 0], [dl |-> 2, ul |-> 0]}

\* Slices differ in Init only, which only decides where a behaviour starts.
MCSymmetry == Permutations(Slice)

=============================================================================
