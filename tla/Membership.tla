----------------------------- MODULE Membership -----------------------------
(***************************************************************************)
(* What the slices' ue lists promise a client, with nothing of how the     *)
(* registry stores them: each UE is in at most one slice, joins one only   *)
(* when it is in none, and leaves alone or together with all the UEs of a  *)
(* slice that goes away.                                                   *)
(***************************************************************************)
CONSTANTS Ue, Slice, NoSlice

VARIABLE owner    \* the slice each UE is in, NoSlice if none

Init == owner = [u \in Ue |-> NoSlice]

Join(u, s) ==
  /\ owner[u] = NoSlice
  /\ owner' = [owner EXCEPT ![u] = s]

Leave(u) ==
  /\ owner[u] # NoSlice
  /\ owner' = [owner EXCEPT ![u] = NoSlice]

Disband(s) ==
  owner' = [u \in Ue |-> IF owner[u] = s THEN NoSlice ELSE owner[u]]

Next ==
  \/ \E u \in Ue, s \in Slice : Join(u, s)
  \/ \E u \in Ue : Leave(u)
  \/ \E s \in Slice : Disband(s)

Spec == Init /\ [][Next]_owner

=============================================================================
