------------------------------- MODULE MCE2ap -------------------------------
(***************************************************************************)
(* E2ap for TLC: one NodeB and as many instance ids as three or four       *)
(* requests take, so that it can be added, deleted and added again while   *)
(* the messages of its first life are still in flight.                     *)
(***************************************************************************)
EXTENDS E2ap

=============================================================================
