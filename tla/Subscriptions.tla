---------------------------- MODULE Subscriptions ----------------------------
(***************************************************************************)
(* What the E2AP tracker promises of a subscription: the life of each      *)
(* request, by its instance id, whatever the RIC answers and however often.*)
(***************************************************************************)

CONSTANT Id

VARIABLE phase

Init == phase = [id \in Id |-> "unused"]

Move(id, from, to) ==
  phase[id] \in from /\ phase' = [phase EXCEPT ![id] = to]

\* A subscription request is registered.
Request(id) == Move(id, {"unused"}, "requested")

\* The id goes to a control request, or the request cannot be sent.
Abandon(id) == Move(id, {"unused", "requested"}, "closed")

\* The RIC has said yes.
Establish(id) == Move(id, {"requested"}, "established")

\* The NodeB is being deleted.
Delete(id) == Move(id, {"established"}, "deleting")

\* The RIC has confirmed.
Remove(id) == Move(id, {"deleting"}, "closed")

Next ==
  /\ phase' # phase
  /\ \E id \in Id :
       Request(id) \/ Abandon(id) \/ Establish(id) \/ Delete(id) \/ Remove(id)

Spec == Init /\ [][Next]_phase

=============================================================================
