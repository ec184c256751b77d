------------------------------ MODULE Registry ------------------------------
(***************************************************************************)
(* The resource registry of the xApp: the db of NodeBs, slices and UEs     *)
(* that App keeps under its mutex, the bindings between them, and the      *)
(* northbound REST operations that change them.  Every operation runs with *)
(* App.mutex held from its first lookup to its last control request, so    *)
(* each one is a single action here; the closed loop that a KPM indication *)
(* starts is one more action, KpmIndication.                               *)
(*                                                                         *)
(* nbShare and nbUes are what the control requests issued so far tell each *)
(* NodeB, folded in the order they were issued: the configuration a NodeB  *)
(* ends up with when every control request reaches it in order.            *)
(***************************************************************************)
EXTENDS Integers, FiniteSets

CONSTANTS
  NodeB,          \* names a NodeB may have
  Slice,          \* names a slice may have
  Ue,             \* IMSIs
  DefaultSlice,   \* the slice App::init creates
  NoSlice,        \* an empty Ue::bound_slice
  Shares,         \* the shares a REST body or the closed loop may set
  MaxOfSlices     \* maxOfSlices of E2SM-NexRAN: the names one delete can hold

DefaultShare == 512
MinShare == 64      \* the closed loop's floor
NoShare == -1       \* no slice, hence no share

ASSUME RegistryAssumption ==
  /\ DefaultSlice \in Slice
  /\ NoSlice \notin Slice
  /\ Shares \subseteq 0..1024
  /\ DefaultShare \in Shares
  /\ MaxOfSlices \in Nat

VARIABLES
  nodebs, slices, ues,  \* the keys of db[NodeBResource], db[SliceResource], db[UeResource]
  bound,                \* NodeB::slices, the names of the slices bound to each NodeB
  members,              \* Slice::ues
  boundSlice,           \* Ue::bound_slice
  share,                \* the share of each slice's policy
  nbShare, nbUes,       \* the configuration each NodeB has been told
  reply                 \* the HTTP status of the last request

db == <<nodebs, slices, ues, bound, members, boundSlice, share>>
told == <<nbShare, nbUes>>
vars == <<nodebs, slices, ues, bound, members, boundSlice, share,
          nbShare, nbUes, reply>>

Codes == {200, 201, 400, 403, 404}

TypeOK ==
  /\ nodebs \in SUBSET NodeB
  /\ slices \in SUBSET Slice
  /\ ues \in SUBSET Ue
  /\ bound \in [NodeB -> SUBSET Slice]
  /\ members \in [Slice -> SUBSET Ue]
  /\ boundSlice \in [Ue -> Slice \cup {NoSlice}]
  /\ share \in [Slice -> Shares \cup {NoShare}]
  /\ nbShare \in [NodeB -> [Slice -> Shares \cup {NoShare}]]
  /\ nbUes \in [NodeB -> SUBSET (Slice \X Ue)]
  /\ reply \in Codes

Init ==
  /\ nodebs = {} /\ slices = {DefaultSlice} /\ ues = {}
  /\ bound = [n \in NodeB |-> {}]
  /\ members = [s \in Slice |-> {}]
  /\ boundSlice = [u \in Ue |-> NoSlice]
  /\ share = [s \in Slice |-> IF s = DefaultSlice THEN DefaultShare ELSE NoShare]
  /\ nbShare = [n \in NodeB |-> [s \in Slice |-> NoShare]]
  /\ nbUes = [n \in NodeB |-> {}]
  /\ reply = 200

(***************************************************************************)
(* Replies, and the control requests an operation sends.                   *)
(***************************************************************************)

Reply(code) == reply' = code /\ UNCHANGED <<db, told>>

\* The NodeBs every per-slice loop sends to: those for which is_slice_bound.
BoundTo(s) == {n \in nodebs : s \in bound[n]}

\* A SliceConfigRequest with share v for slice s to each NodeB of N.
SendConfig(N, s, v) ==
  nbShare' = [n \in NodeB |-> IF n \in N THEN [nbShare[n] EXCEPT ![s] = v]
                                         ELSE nbShare[n]]

\* A SliceDeleteRequest naming S to each NodeB of N: the NodeB drops the
\* slices and the UEs bound to them.
SendDelete(N, S) ==
  /\ nbShare' = [n \in NodeB |-> [s \in Slice |->
                   IF n \in N /\ s \in S THEN NoShare ELSE nbShare[n][s]]]
  /\ nbUes' = [n \in NodeB |->
                 IF n \in N THEN {p \in nbUes[n] : p[1] \notin S} ELSE nbUes[n]]

\* A SliceUeBindRequest, and a SliceUeUnbindRequest, for UE u of slice s.
SendUeBind(N, s, u) ==
  nbUes' = [n \in NodeB |-> IF n \in N THEN nbUes[n] \cup {<<s, u>>} ELSE nbUes[n]]

SendUeUnbind(N, s, u) ==
  nbUes' = [n \in NodeB |-> IF n \in N THEN nbUes[n] \ {<<s, u>>} ELSE nbUes[n]]

(***************************************************************************)
(* POST: create and App::add.                                              *)
(***************************************************************************)

AddNodeB(n) ==
  \/ n \in nodebs /\ Reply(403)
  \/ /\ n \notin nodebs
     /\ nodebs' = nodebs \cup {n}
     /\ reply' = 201
     /\ UNCHANGED <<slices, ues, bound, members, boundSlice, share, told>>

AddSlice(s, v) ==
  \/ s \in slices /\ Reply(403)
  \/ /\ s \notin slices
     /\ slices' = slices \cup {s}
     /\ share' = [share EXCEPT ![s] = v]
     /\ reply' = 201
     /\ UNCHANGED <<nodebs, ues, bound, members, boundSlice, told>>

AddUe(u) ==
  \/ u \in ues /\ Reply(403)
  \/ /\ u \notin ues
     /\ ues' = ues \cup {u}
     /\ reply' = 201
     /\ UNCHANGED <<nodebs, slices, bound, members, boundSlice, share, told>>

\* A body that create or update rejects changes nothing.
Malformed == Reply(400)

(***************************************************************************)
(* GET: App::serialize, of one resource or of all of a kind.               *)
(***************************************************************************)

Get(name, keys) == Reply(IF name \in keys THEN 200 ELSE 404)

GetAll == Reply(200)

Read ==
  \/ GetAll
  \/ \E n \in NodeB : Get(n, nodebs)
  \/ \E s \in Slice : Get(s, slices)
  \/ \E u \in Ue : Get(u, ues)

(***************************************************************************)
(* PUT: App::update.  Only a slice has anything an update changes here,    *)
(* and its share is sent again even when the body left it alone.  A UE's   *)
(* IMSI is immutable: a body with another one is refused.                  *)
(***************************************************************************)

UpdateNodeB(n) == Reply(IF n \in nodebs THEN 200 ELSE 404)

UpdateUe(u) == Reply(IF u \in ues THEN 200 ELSE 404)

UpdateUeImsi(u) == u \in ues /\ Reply(403)

\* Mutant of UpdateSlice: the request is built from the policy before the update.
UpdateSliceStale(s, v) ==
  \/ s \notin slices /\ Reply(404)
  \/ /\ s \in slices
     /\ share' = [share EXCEPT ![s] = v]
     /\ SendConfig(BoundTo(s), s, share[s])
     /\ reply' = 200
     /\ UNCHANGED <<nodebs, slices, ues, bound, members, boundSlice, nbUes>>

UpdateSlice(s, v) ==
  \/ s \notin slices /\ Reply(404)
  \/ /\ s \in slices
     /\ share' = [share EXCEPT ![s] = v]
     /\ SendConfig(BoundTo(s), s, v)
     /\ reply' = 200
     /\ UNCHANGED <<nodebs, slices, ues, bound, members, boundSlice, nbUes>>

(***************************************************************************)
(* DELETE: App::del.                                                       *)
(***************************************************************************)

\* Deleting the object resets what a later object of the same name starts from.
EraseUe(u) ==
  /\ ues' = ues \ {u}
  /\ boundSlice' = [boundSlice EXCEPT ![u] = NoSlice]
  /\ reply' = 200
  /\ UNCHANGED <<nodebs, slices, bound, share, nbShare>>

\* Mutant of DelUe: the NodeBs are not told.
DelUeUntold(u) ==
  LET s == boundSlice[u] IN
  \/ u \notin ues /\ Reply(404)
  \/ u \in ues /\ s \in slices /\ u \notin members[s] /\ Reply(404)
  \/ /\ u \in ues
     /\ members' = [r \in Slice |-> IF r = s THEN members[r] \ {u} ELSE members[r]]
     /\ s \in slices => u \in members[s]
     /\ EraseUe(u)
     /\ UNCHANGED nbUes

DelUe(u) ==
  LET s == boundSlice[u] IN
  \/ u \notin ues /\ Reply(404)
  \/ u \in ues /\ s \in slices /\ u \notin members[s] /\ Reply(404)
  \/ /\ u \in ues /\ s \in slices /\ u \in members[s]
     /\ members' = [members EXCEPT ![s] = @ \ {u}]
     /\ SendUeUnbind(BoundTo(s), s, u)
     /\ EraseUe(u)
  \/ /\ u \in ues /\ s \notin slices
     /\ EraseUe(u)
     /\ UNCHANGED <<members, nbUes>>

\* The slice's UEs are unbound; the NodeBs are told, but their own slices maps
\* keep the name.
DelSlice(s) ==
  \/ s \notin slices /\ Reply(404)
  \/ /\ s \in slices
     /\ SendDelete(BoundTo(s), {s})
     /\ boundSlice' = [u \in Ue |-> IF u \in members[s] THEN NoSlice ELSE boundSlice[u]]
     /\ members' = [members EXCEPT ![s] = {}]
     /\ slices' = slices \ {s}
     /\ share' = [share EXCEPT ![s] = NoShare]
     /\ reply' = 200
     /\ UNCHANGED <<nodebs, ues, bound>>

\* Mutant of DelNodeB: the bindings are cleared before the request is built.
DelNodeBCleared(n) ==
  \/ n \notin nodebs /\ Reply(404)
  \/ /\ n \in nodebs
     /\ nodebs' = nodebs \ {n}
     /\ bound' = [bound EXCEPT ![n] = {}]
     /\ SendDelete({n}, bound'[n])
     /\ reply' = 200
     /\ UNCHANGED <<slices, ues, members, boundSlice, share>>

\* One request names every bound slice.  A list longer than maxOfSlices cannot
\* be encoded; encode reports success all the same and the request that leaves
\* is empty.
DelNodeB(n) ==
  \/ n \notin nodebs /\ Reply(404)
  \/ /\ n \in nodebs
     /\ IF Cardinality(bound[n]) <= MaxOfSlices
        THEN SendDelete({n}, bound[n])
        ELSE UNCHANGED told
     /\ nodebs' = nodebs \ {n}
     /\ bound' = [bound EXCEPT ![n] = {}]
     /\ reply' = 200
     /\ UNCHANGED <<slices, ues, members, boundSlice, share>>

(***************************************************************************)
(* The binding operations.                                                 *)
(***************************************************************************)

BindSliceNodeB(s, n) ==
  \/ (s \notin slices \/ n \notin nodebs) /\ Reply(404)
  \/ s \in slices /\ n \in nodebs /\ s \in bound[n] /\ Reply(403)
  \/ /\ s \in slices /\ n \in nodebs /\ s \notin bound[n]
     /\ bound' = [bound EXCEPT ![n] = @ \cup {s}]
     /\ SendConfig({n}, s, share[s])
     /\ reply' = 200
     /\ UNCHANGED <<nodebs, slices, ues, members, boundSlice, share, nbUes>>

UnbindSliceNodeB(s, n) ==
  \/ (s \notin slices \/ n \notin nodebs \/ s \notin bound[n]) /\ Reply(404)
  \/ /\ s \in slices /\ n \in nodebs /\ s \in bound[n]
     /\ bound' = [bound EXCEPT ![n] = @ \ {s}]
     /\ SendDelete({n}, {s})
     /\ reply' = 200
     /\ UNCHANGED <<nodebs, slices, ues, members, boundSlice, share>>

\* Mutant of BindUeSlice: Ue::bound_slice is not looked at.
BindUeSliceTwice(u, s) ==
  \/ (s \notin slices \/ u \notin ues) /\ Reply(404)
  \/ s \in slices /\ u \in ues /\ u \in members[s] /\ Reply(403)
  \/ /\ s \in slices /\ u \in ues /\ u \notin members[s]
     /\ members' = [members EXCEPT ![s] = @ \cup {u}]
     /\ boundSlice' = [boundSlice EXCEPT ![u] = s]
     /\ SendUeBind(BoundTo(s), s, u)
     /\ reply' = 200
     /\ UNCHANGED <<nodebs, slices, ues, bound, share, nbShare>>

BindUeSlice(u, s) ==
  \/ (s \notin slices \/ u \notin ues) /\ Reply(404)
  \/ /\ s \in slices /\ u \in ues
     /\ boundSlice[u] # NoSlice \/ u \in members[s]
     /\ Reply(403)
  \/ /\ s \in slices /\ u \in ues
     /\ boundSlice[u] = NoSlice /\ u \notin members[s]
     /\ members' = [members EXCEPT ![s] = @ \cup {u}]
     /\ boundSlice' = [boundSlice EXCEPT ![u] = s]
     /\ SendUeBind(BoundTo(s), s, u)
     /\ reply' = 200
     /\ UNCHANGED <<nodebs, slices, ues, bound, share, nbShare>>

\* Ue::bound_slice is left as it was.
UnbindUeSlice(u, s) ==
  \/ (s \notin slices \/ u \notin ues \/ u \notin members[s]) /\ Reply(404)
  \/ /\ s \in slices /\ u \in ues /\ u \in members[s]
     /\ members' = [members EXCEPT ![s] = @ \ {u}]
     /\ SendUeUnbind(BoundTo(s), s, u)
     /\ reply' = 200
     /\ UNCHANGED <<nodebs, slices, ues, bound, boundSlice, share, nbShare>>

(***************************************************************************)
(* The closed loop, reduced to its effect on the registry: every slice's   *)
(* share is recomputed and floored, and each slice whose share changed is  *)
(* sent to its NodeBs.  ShareControl says which shares it computes.        *)
(***************************************************************************)

\* Mutant of KpmIndication: the shares are not capped.
KpmIndicationUncapped ==
  \E new \in [slices -> {v \in Shares : v >= MinShare} \cup {2048}] :
    /\ share' = [s \in Slice |-> IF s \in slices THEN new[s] ELSE share[s]]
    /\ nbShare' = [n \in NodeB |-> [s \in Slice |->
                     IF s \in slices /\ n \in BoundTo(s) /\ new[s] # share[s]
                     THEN new[s] ELSE nbShare[n][s]]]
    /\ UNCHANGED <<nodebs, slices, ues, bound, members, boundSlice, nbUes, reply>>

KpmIndication ==
  \E new \in [slices -> {v \in Shares : v >= MinShare}] :
    /\ share' = [s \in Slice |-> IF s \in slices THEN new[s] ELSE share[s]]
    /\ nbShare' = [n \in NodeB |-> [s \in Slice |->
                     IF s \in slices /\ n \in BoundTo(s) /\ new[s] # share[s]
                     THEN new[s] ELSE nbShare[n][s]]]
    /\ UNCHANGED <<nodebs, slices, ues, bound, members, boundSlice, nbUes, reply>>

-----------------------------------------------------------------------------

Next ==
  \/ \E n \in NodeB : AddNodeB(n) \/ UpdateNodeB(n) \/ DelNodeB(n)
  \/ \E s \in Slice, v \in Shares : AddSlice(s, v) \/ UpdateSlice(s, v)
  \/ \E s \in Slice : DelSlice(s)
  \/ \E u \in Ue : AddUe(u) \/ UpdateUe(u) \/ UpdateUeImsi(u) \/ DelUe(u)
  \/ \E s \in Slice, n \in NodeB : BindSliceNodeB(s, n) \/ UnbindSliceNodeB(s, n)
  \/ \E u \in Ue, s \in Slice : BindUeSlice(u, s) \/ UnbindUeSlice(u, s)
  \/ Malformed \/ Read
  \/ KpmIndication

Spec == Init /\ [][Next]_vars

(***************************************************************************)
(* Properties.                                                             *)
(***************************************************************************)

\* Every UE in a slice's ues map exists and points back to that slice, and only
\* slices that exist have UEs.  Slice::unbind_all_ues follows the Ue pointers
\* of that map, so a UE deleted while still in one would be used after free.
NoDanglingUe ==
  \A s \in Slice : \A u \in members[s] :
    s \in slices /\ u \in ues /\ boundSlice[u] = s

\* A NodeB is configured only with slices that exist and are bound to it, and a
\* NodeB that was deleted is configured with none: whatever sequence of
\* requests led here, each configuration is matched by its removal.
NoOrphanConfig ==
  \A n \in NodeB : \A s \in Slice :
    nbShare[n][s] # NoShare => n \in nodebs /\ s \in slices /\ s \in bound[n]

\* A NodeB configured with a slice was last told the share the slice has now,
\* whether a PUT or the closed loop set it.
ToldShareCurrent ==
  \A n \in NodeB : \A s \in Slice :
    nbShare[n][s] # NoShare => nbShare[n][s] = share[s]

\* A UE bound to a slice at a NodeB is a UE of that slice in the registry, and
\* the slice is one of the NodeB's.
NoOrphanUeBinding ==
  \A n \in NodeB : \A p \in nbUes[n] :
    n \in nodebs /\ p[1] \in bound[n] /\ p[2] \in members[p[1]]

\* One SliceDeleteRequest can name every slice a NodeB may have.
SlicesFit == \A S \in SUBSET Slice : Cardinality(S) <= MaxOfSlices

\* "Delete a Slice.  NexRAN unbinds this Slice from any NodeBs": a NodeB has no
\* binding to a slice that does not exist.  App::del tells the NodeBs but never
\* calls NodeB::unbind_slice.
DeletedSliceUnbound == \A n \in nodebs : bound[n] \subseteq slices

\* "Ue is no longer bound to the Slice": a UE that claims to be bound to an
\* existing slice is one of that slice's UEs.  App::unbind_ue_slice never calls
\* Ue::unbind_slice, so the UE can be bound to no other slice, nor be deleted.
UnboundUeFree ==
  \A u \in ues : boundSlice[u] \in slices => u \in members[boundSlice[u]]

\* "Delete a NodeB.  NexRAN ... removes any configuration applied to it": a
\* NodeB that does not exist has no slice configured, however many it had.
DeletedNodeBUnconfigured ==
  \A n \in NodeB \ nodebs : \A s \in Slice : nbShare[n][s] = NoShare

(***************************************************************************)
(* What the bindings of UEs promise, whatever the requests: Membership.    *)
(***************************************************************************)

owner == [u \in Ue |-> IF \E s \in Slice : u \in members[s]
                       THEN CHOOSE s \in Slice : u \in members[s]
                       ELSE NoSlice]

M == INSTANCE Membership

\* The registry implements Membership: a UE is in at most one slice, and gets
\* from one to another only by way of none.
ImplementsMembership == M!Spec

=============================================================================
