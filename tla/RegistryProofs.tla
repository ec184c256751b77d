--------------------------- MODULE RegistryProofs ---------------------------
(***************************************************************************)
(* What holds of Registry for any sets of NodeBs, slices, UEs and shares.  *)
(***************************************************************************)
EXTENDS Registry, TLAPS

Configs == [NodeB -> [Slice -> Shares \cup {NoShare}]]
UeBindings == [NodeB -> SUBSET (Slice \X Ue)]

-----------------------------------------------------------------------------
(***************************************************************************)
(* Type correctness.                                                       *)
(***************************************************************************)

\* App::init leaves a well-typed registry.
LEMMA InitTypeOK == Init => TypeOK
BY RegistryAssumption DEF Init, TypeOK, Codes, DefaultShare, NoShare

\* Each kind of control request keeps what the NodeBs are told well typed.
LEMMA SendConfigType ==
  ASSUME TypeOK, NEW N, NEW s \in Slice, NEW v \in Shares \cup {NoShare},
         SendConfig(N, s, v)
  PROVE  nbShare' \in Configs
BY DEF TypeOK, SendConfig, Configs

\* A delete request only takes away: configuration and UEs stay well typed.
LEMMA SendDeleteType ==
  ASSUME TypeOK, NEW N, NEW S, SendDelete(N, S)
  PROVE  nbShare' \in Configs /\ nbUes' \in UeBindings
BY DEF TypeOK, SendDelete, Configs, UeBindings

\* A bind or unbind request for a UE keeps the UEs of each NodeB well typed.
LEMMA SendUeType ==
  ASSUME TypeOK, NEW N, NEW s \in Slice, NEW u \in Ue,
         SendUeBind(N, s, u) \/ SendUeUnbind(N, s, u)
  PROVE  nbUes' \in UeBindings
BY DEF TypeOK, SendUeBind, SendUeUnbind, UeBindings

\* Every REST operation, and the closed loop, keeps the registry well typed.
LEMMA NextTypeOK == TypeOK /\ [Next]_vars => TypeOK'
<1>. SUFFICES ASSUME TypeOK, [Next]_vars PROVE TypeOK'
  OBVIOUS
<1>. USE RegistryAssumption DEF Codes
<1>r. ASSUME NEW c \in Codes, Reply(c) PROVE TypeOK'
  BY <1>r DEF Reply, TypeOK, db, told
<1>1. ASSUME NEW n \in NodeB, AddNodeB(n) PROVE TypeOK'
  BY <1>1, <1>r DEF AddNodeB, TypeOK, told
<1>2. ASSUME NEW n \in NodeB, UpdateNodeB(n) PROVE TypeOK'
  BY <1>2, <1>r DEF UpdateNodeB
<1>3. ASSUME NEW n \in NodeB, DelNodeB(n) PROVE TypeOK'
  <2>1. CASE n \notin nodebs
    BY <1>3, <2>1, <1>r DEF DelNodeB
  <2>2. CASE n \in nodebs
    <3>1. nbShare' \in Configs /\ nbUes' \in UeBindings
      <4>1. CASE SendDelete({n}, bound[n])
        BY <4>1, SendDeleteType
      <4>2. CASE UNCHANGED told
        BY <4>2 DEF told, TypeOK, Configs, UeBindings
      <4>. QED BY <1>3, <2>2, <4>1, <4>2 DEF DelNodeB
    <3>. QED BY <1>3, <2>2, <3>1 DEF DelNodeB, TypeOK, Configs, UeBindings
  <2>. QED BY <2>1, <2>2
<1>4. ASSUME NEW s \in Slice, NEW v \in Shares, AddSlice(s, v) PROVE TypeOK'
  BY <1>4, <1>r DEF AddSlice, TypeOK, told
<1>5. ASSUME NEW s \in Slice, NEW v \in Shares, UpdateSlice(s, v) PROVE TypeOK'
  <2>1. CASE s \notin slices
    BY <1>5, <2>1, <1>r DEF UpdateSlice
  <2>2. CASE s \in slices
    <3>1. nbShare' \in Configs
      BY <1>5, <2>2, SendConfigType DEF UpdateSlice
    <3>. QED BY <1>5, <2>2, <3>1 DEF UpdateSlice, TypeOK, Configs
  <2>. QED BY <2>1, <2>2
<1>6. ASSUME NEW s \in Slice, DelSlice(s) PROVE TypeOK'
  <2>1. CASE s \notin slices
    BY <1>6, <2>1, <1>r DEF DelSlice
  <2>2. CASE s \in slices
    <3>1. nbShare' \in Configs /\ nbUes' \in UeBindings
      BY <1>6, <2>2, SendDeleteType DEF DelSlice
    <3>. QED BY <1>6, <2>2, <3>1 DEF DelSlice, TypeOK, Configs, UeBindings
  <2>. QED BY <2>1, <2>2
<1>7. ASSUME NEW u \in Ue, AddUe(u) PROVE TypeOK'
  BY <1>7, <1>r DEF AddUe, TypeOK, told
<1>8. ASSUME NEW u \in Ue, UpdateUe(u) \/ UpdateUeImsi(u) PROVE TypeOK'
  BY <1>8, <1>r DEF UpdateUe, UpdateUeImsi
<1>9. ASSUME NEW u \in Ue, DelUe(u) PROVE TypeOK'
  <2>1. CASE Reply(404)
    BY <2>1, <1>r
  <2>2. CASE /\ boundSlice[u] \in slices
             /\ members' = [members EXCEPT ![boundSlice[u]] = @ \ {u}]
             /\ SendUeUnbind(BoundTo(boundSlice[u]), boundSlice[u], u)
             /\ EraseUe(u)
    <3>1. nbUes' \in UeBindings
      BY <2>2, SendUeType DEF TypeOK
    <3>. QED BY <2>2, <3>1 DEF EraseUe, TypeOK, UeBindings
  <2>3. CASE EraseUe(u) /\ UNCHANGED <<members, nbUes>>
    BY <2>3 DEF EraseUe, TypeOK
  <2>. QED BY <1>9, <2>1, <2>2, <2>3 DEF DelUe
<1>10. ASSUME NEW s \in Slice, NEW n \in NodeB, BindSliceNodeB(s, n) PROVE TypeOK'
  <2>1. CASE Reply(404) \/ Reply(403)
    BY <2>1, <1>r
  <2>2. CASE ~(Reply(404) \/ Reply(403))
    <3>1. nbShare' \in Configs
      <4>1. SendConfig({n}, s, share[s])
        BY <1>10, <2>2 DEF BindSliceNodeB
      <4>2. share[s] \in Shares \cup {NoShare}
        BY DEF TypeOK
      <4>. QED BY <4>1, <4>2, SendConfigType
    <3>. QED BY <1>10, <2>2, <3>1 DEF BindSliceNodeB, TypeOK, Configs
  <2>. QED BY <2>1, <2>2
<1>11. ASSUME NEW s \in Slice, NEW n \in NodeB, UnbindSliceNodeB(s, n) PROVE TypeOK'
  <2>1. CASE Reply(404)
    BY <2>1, <1>r
  <2>2. CASE ~Reply(404)
    <3>1. nbShare' \in Configs /\ nbUes' \in UeBindings
      BY <1>11, <2>2, SendDeleteType DEF UnbindSliceNodeB
    <3>. QED BY <1>11, <2>2, <3>1 DEF UnbindSliceNodeB, TypeOK, Configs, UeBindings
  <2>. QED BY <2>1, <2>2
<1>12. ASSUME NEW u \in Ue, NEW s \in Slice, BindUeSlice(u, s) PROVE TypeOK'
  <2>1. CASE Reply(404) \/ Reply(403)
    BY <2>1, <1>r
  <2>2. CASE ~(Reply(404) \/ Reply(403))
    <3>1. nbUes' \in UeBindings
      BY <1>12, <2>2, SendUeType DEF BindUeSlice
    <3>2. /\ members' = [members EXCEPT ![s] = @ \cup {u}]
          /\ boundSlice' = [boundSlice EXCEPT ![u] = s]
          /\ reply' = 200
          /\ UNCHANGED <<nodebs, slices, ues, bound, share, nbShare>>
      BY <1>12, <2>2 DEF BindUeSlice
    <3>. QED BY <3>1, <3>2 DEF TypeOK, UeBindings
  <2>. QED BY <2>1, <2>2
<1>13. ASSUME NEW u \in Ue, NEW s \in Slice, UnbindUeSlice(u, s) PROVE TypeOK'
  <2>1. CASE Reply(404)
    BY <2>1, <1>r
  <2>2. CASE ~Reply(404)
    <3>1. nbUes' \in UeBindings
      BY <1>13, <2>2, SendUeType DEF UnbindUeSlice
    <3>. QED BY <1>13, <2>2, <3>1 DEF UnbindUeSlice, TypeOK, UeBindings
  <2>. QED BY <2>1, <2>2
<1>14. ASSUME Malformed \/ Read PROVE TypeOK'
  BY <1>14, <1>r DEF Malformed, Read, Get, GetAll
<1>15. ASSUME KpmIndication PROVE TypeOK'
  <2>1. PICK new \in [slices -> {v \in Shares : v >= MinShare}] :
    /\ share' = [s \in Slice |-> IF s \in slices THEN new[s] ELSE share[s]]
    /\ nbShare' = [n \in NodeB |-> [s \in Slice |->
                     IF s \in slices /\ n \in BoundTo(s) /\ new[s] # share[s]
                     THEN new[s] ELSE nbShare[n][s]]]
    /\ UNCHANGED <<nodebs, slices, ues, bound, members, boundSlice, nbUes, reply>>
    BY <1>15 DEF KpmIndication
  <2>2. \A s \in slices : new[s] \in Shares
    OBVIOUS
  <2>. QED BY <2>1, <2>2 DEF TypeOK
<1>16. CASE UNCHANGED vars
  BY <1>16 DEF TypeOK, vars
<1>. QED
  BY <1>1, <1>2, <1>3, <1>4, <1>5, <1>6, <1>7, <1>8, <1>9, <1>10, <1>11, <1>12,
     <1>13, <1>14, <1>15, <1>16 DEF Next

\* Type correctness of the registry: whatever requests and indications arrive,
\* every key, binding, share and reply stays within its set.
THEOREM TypeCorrect == Spec => []TypeOK
<1>1. Init => TypeOK
  BY InitTypeOK
<1>2. TypeOK /\ [Next]_vars => TypeOK'
  BY NextTypeOK
<1>. QED BY <1>1, <1>2, PTL DEF Spec

-----------------------------------------------------------------------------
(***************************************************************************)
(* The bindings of UEs.  NoDanglingUe is inductive given the types: a UE   *)
(* enters a ues map only with an empty bound_slice, which BindUeSlice sets,*)
(* and whatever erases the UE or the slice empties the map's entry first.  *)
(***************************************************************************)

Members == <<slices, ues, members, boundSlice>>

\* A refused request changes nothing but the reply.
LEMMA ReplyKeeps ==
  ASSUME NEW c, Reply(c)
  PROVE  UNCHANGED <<nodebs, slices, ues, bound, members, boundSlice, share,
                     nbShare, nbUes>>
BY DEF Reply, db, told

\* Every operation that moves or deletes a UE keeps Slice::ues and
\* Ue::bound_slice consistent in the direction that unbind_all_ues relies on.
LEMMA NextNoDanglingUe ==
  TypeOK /\ NoDanglingUe /\ [Next]_vars => NoDanglingUe'
<1>. SUFFICES ASSUME TypeOK, NoDanglingUe, [Next]_vars PROVE NoDanglingUe'
  OBVIOUS
<1>. USE RegistryAssumption DEF NoDanglingUe, TypeOK
<1>u. ASSUME UNCHANGED Members PROVE NoDanglingUe'
  BY <1>u DEF Members
<1>r. ASSUME NEW c, Reply(c) PROVE NoDanglingUe'
  BY <1>r, <1>u, ReplyKeeps DEF Members
<1>1. ASSUME NEW n \in NodeB, AddNodeB(n) \/ UpdateNodeB(n) \/ DelNodeB(n)
      PROVE  NoDanglingUe'
  BY <1>1, <1>r DEF AddNodeB, UpdateNodeB, DelNodeB
<1>2. ASSUME NEW s \in Slice, NEW v \in Shares, AddSlice(s, v) \/ UpdateSlice(s, v)
      PROVE  NoDanglingUe'
  BY <1>2, <1>r DEF AddSlice, UpdateSlice
<1>3. ASSUME NEW s \in Slice, DelSlice(s) PROVE NoDanglingUe'
  <2>1. CASE s \notin slices
    BY <1>3, <2>1, <1>r DEF DelSlice
  <2>2. CASE s \in slices
    <3>1. /\ slices' = slices \ {s}
          /\ ues' = ues
          /\ members' = [members EXCEPT ![s] = {}]
          /\ boundSlice' = [u \in Ue |-> IF u \in members[s] THEN NoSlice
                                                           ELSE boundSlice[u]]
      BY <1>3, <2>2 DEF DelSlice
    <3>2. SUFFICES ASSUME NEW t \in Slice, NEW u \in members'[t]
                   PROVE  t \in slices' /\ u \in ues' /\ boundSlice'[u] = t
      OBVIOUS
    <3>3. t # s /\ u \in members[t]
      BY <3>1, <3>2
    <3>4. u \notin members[s]
      BY <3>3
    <3>. QED BY <3>1, <3>3, <3>4
  <2>. QED BY <2>1, <2>2
<1>4. ASSUME NEW u \in Ue, AddUe(u) \/ UpdateUe(u) \/ UpdateUeImsi(u)
      PROVE  NoDanglingUe'
  BY <1>4, <1>r DEF AddUe, UpdateUe, UpdateUeImsi
<1>5. ASSUME NEW u \in Ue, DelUe(u) PROVE NoDanglingUe'
  <2>1. CASE Reply(404)
    BY <2>1, <1>r
  <2>2. CASE /\ boundSlice[u] \in slices
             /\ members' = [members EXCEPT ![boundSlice[u]] = @ \ {u}]
             /\ EraseUe(u)
    BY <2>2 DEF EraseUe
  <2>3. CASE boundSlice[u] \notin slices /\ EraseUe(u) /\ UNCHANGED members
    <3>1. \A s \in Slice : u \notin members[s]
      BY <2>3
    <3>. QED BY <2>3, <3>1 DEF EraseUe
  <2>. QED BY <1>5, <2>1, <2>2, <2>3 DEF DelUe
<1>6. ASSUME NEW s \in Slice, NEW n \in NodeB,
             BindSliceNodeB(s, n) \/ UnbindSliceNodeB(s, n)
      PROVE  NoDanglingUe'
  BY <1>6, <1>r DEF BindSliceNodeB, UnbindSliceNodeB
<1>7. ASSUME NEW u \in Ue, NEW s \in Slice, BindUeSlice(u, s) PROVE NoDanglingUe'
  <2>1. CASE Reply(404) \/ Reply(403)
    BY <2>1, <1>r
  <2>2. CASE /\ s \in slices /\ u \in ues /\ boundSlice[u] = NoSlice
             /\ members' = [members EXCEPT ![s] = @ \cup {u}]
             /\ boundSlice' = [boundSlice EXCEPT ![u] = s]
             /\ UNCHANGED <<slices, ues>>
    BY <2>2
  <2>. QED BY <1>7, <2>1, <2>2 DEF BindUeSlice
<1>8. ASSUME NEW u \in Ue, NEW s \in Slice, UnbindUeSlice(u, s) PROVE NoDanglingUe'
  BY <1>8, <1>r DEF UnbindUeSlice
<1>9. ASSUME Malformed \/ Read \/ KpmIndication PROVE NoDanglingUe'
  BY <1>9, <1>r DEF Malformed, Read, Get, GetAll, KpmIndication
<1>10. CASE UNCHANGED vars
  BY <1>10 DEF vars
<1>. QED
  BY <1>1, <1>2, <1>3, <1>4, <1>5, <1>6, <1>7, <1>8, <1>9, <1>10 DEF Next

\* A slice's ues map never holds a UE that was deleted, or one that another
\* slice also holds: the pointers Slice::unbind_all_ues follows are good.
THEOREM UesNeverDangle == Spec => []NoDanglingUe
<1>1. Init => NoDanglingUe
  BY DEF Init, NoDanglingUe
<1>2. TypeOK /\ NoDanglingUe /\ [Next]_vars => NoDanglingUe'
  BY NextNoDanglingUe
<1>. QED BY <1>1, <1>2, TypeCorrect, PTL DEF Spec

-----------------------------------------------------------------------------
(***************************************************************************)
(* What the NodeBs are told.  No one of the three invariants is inductive  *)
(* alone: a share may be set for a slice that is created only because no   *)
(* NodeB holds a configuration of it, and a UE may be dropped from its     *)
(* slice only because NoDanglingUe finds every NodeB that knows it.        *)
(***************************************************************************)

ConfigInv == NoOrphanConfig /\ ToldShareCurrent /\ NoOrphanUeBinding

\* The three properties of the configuration are inductive together, given the
\* type invariant and NoDanglingUe: DELETE of a UE tells the NodeBs of the slice
\* its bound_slice names, which NoDanglingUe makes the right one.
LEMMA NextConfigInv ==
  ASSUME SlicesFit, TypeOK, NoDanglingUe, ConfigInv, [Next]_vars
  PROVE  ConfigInv'
<1>. USE RegistryAssumption DEF TypeOK, ConfigInv, NoOrphanConfig,
                                ToldShareCurrent, NoOrphanUeBinding
<1>r. ASSUME NEW c, Reply(c) PROVE ConfigInv'
  BY <1>r, ReplyKeeps
<1>1. ASSUME NEW n \in NodeB, AddNodeB(n) \/ UpdateNodeB(n) PROVE ConfigInv'
  BY <1>1, <1>r DEF AddNodeB, UpdateNodeB, told
<1>2. ASSUME NEW n \in NodeB, DelNodeB(n) PROVE ConfigInv'
  <2>1. CASE n \notin nodebs
    BY <1>2, <2>1, <1>r DEF DelNodeB
  <2>2. CASE n \in nodebs
    <3>1. Cardinality(bound[n]) <= MaxOfSlices
      BY DEF SlicesFit
    <3>2. SendDelete({n}, bound[n])
      BY <1>2, <2>2, <3>1 DEF DelNodeB
    <3>3. /\ nodebs' = nodebs \ {n}
          /\ bound' = [bound EXCEPT ![n] = {}]
          /\ UNCHANGED <<slices, members, share>>
      BY <1>2, <2>2 DEF DelNodeB
    <3>4. \A s \in Slice : nbShare'[n][s] = NoShare
      BY <3>2 DEF SendDelete
    <3>5. nbUes'[n] = {}
      BY <3>2 DEF SendDelete
    <3>6. \A k \in NodeB \ {n} : nbShare'[k] = nbShare[k] /\ nbUes'[k] = nbUes[k]
      BY <3>2 DEF SendDelete
    <3>. QED BY <3>3, <3>4, <3>5, <3>6
  <2>. QED BY <2>1, <2>2
<1>3. ASSUME NEW s \in Slice, NEW v \in Shares, AddSlice(s, v) PROVE ConfigInv'
  BY <1>3, <1>r DEF AddSlice, told
<1>4. ASSUME NEW s \in Slice, NEW v \in Shares, UpdateSlice(s, v) PROVE ConfigInv'
  <2>1. CASE s \notin slices
    BY <1>4, <2>1, <1>r DEF UpdateSlice
  <2>2. CASE s \in slices
    BY <1>4, <2>2 DEF UpdateSlice, SendConfig, BoundTo
  <2>. QED BY <2>1, <2>2
<1>5. ASSUME NEW s \in Slice, DelSlice(s) PROVE ConfigInv'
  <2>1. CASE s \notin slices
    BY <1>5, <2>1, <1>r DEF DelSlice
  <2>2. CASE s \in slices
    <3>1. /\ SendDelete(BoundTo(s), {s})
          /\ members' = [members EXCEPT ![s] = {}]
          /\ slices' = slices \ {s}
          /\ share' = [share EXCEPT ![s] = NoShare]
          /\ UNCHANGED <<nodebs, bound>>
      BY <1>5, <2>2 DEF DelSlice
    <3>2. \A n \in NodeB : nbShare'[n][s] = NoShare
      BY <3>1 DEF SendDelete, BoundTo
    <3>3. \A n \in NodeB : \A p \in nbUes'[n] : p \in nbUes[n] /\ p[1] # s
      BY <3>1 DEF SendDelete, BoundTo
    <3>4. \A n \in NodeB : \A t \in Slice \ {s} : nbShare'[n][t] = nbShare[n][t]
      BY <3>1 DEF SendDelete
    <3>. QED BY <3>1, <3>2, <3>3, <3>4
  <2>. QED BY <2>1, <2>2
<1>6. ASSUME NEW u \in Ue, AddUe(u) \/ UpdateUe(u) \/ UpdateUeImsi(u)
      PROVE  ConfigInv'
  BY <1>6, <1>r DEF AddUe, UpdateUe, UpdateUeImsi, told
<1>7. ASSUME NEW u \in Ue, DelUe(u) PROVE ConfigInv'
  <2>1. CASE Reply(404)
    BY <2>1, <1>r
  <2>2. CASE /\ boundSlice[u] \in slices
             /\ members' = [members EXCEPT ![boundSlice[u]] = @ \ {u}]
             /\ SendUeUnbind(BoundTo(boundSlice[u]), boundSlice[u], u)
             /\ EraseUe(u)
    BY <2>2 DEF EraseUe, SendUeUnbind, BoundTo
  <2>3. CASE EraseUe(u) /\ UNCHANGED <<members, nbUes>>
    BY <2>3 DEF EraseUe
  <2>. QED BY <1>7, <2>1, <2>2, <2>3 DEF DelUe
<1>8. ASSUME NEW s \in Slice, NEW n \in NodeB, BindSliceNodeB(s, n) PROVE ConfigInv'
  <2>1. CASE Reply(404) \/ Reply(403)
    BY <2>1, <1>r
  <2>2. CASE /\ s \in slices /\ n \in nodebs
             /\ bound' = [bound EXCEPT ![n] = @ \cup {s}]
             /\ SendConfig({n}, s, share[s])
             /\ UNCHANGED <<nodebs, slices, members, share, nbUes>>
    BY <2>2 DEF SendConfig
  <2>. QED BY <1>8, <2>1, <2>2 DEF BindSliceNodeB
<1>9. ASSUME NEW s \in Slice, NEW n \in NodeB, UnbindSliceNodeB(s, n) PROVE ConfigInv'
  <2>1. CASE Reply(404)
    BY <2>1, <1>r
  <2>2. CASE /\ bound' = [bound EXCEPT ![n] = @ \ {s}]
             /\ SendDelete({n}, {s})
             /\ UNCHANGED <<nodebs, slices, members, share>>
    BY <2>2 DEF SendDelete
  <2>. QED BY <1>9, <2>1, <2>2 DEF UnbindSliceNodeB
<1>10. ASSUME NEW u \in Ue, NEW s \in Slice, BindUeSlice(u, s) PROVE ConfigInv'
  <2>1. CASE Reply(404) \/ Reply(403)
    BY <2>1, <1>r
  <2>2. CASE /\ members' = [members EXCEPT ![s] = @ \cup {u}]
             /\ SendUeBind(BoundTo(s), s, u)
             /\ UNCHANGED <<nodebs, slices, bound, share, nbShare>>
    BY <2>2 DEF SendUeBind, BoundTo
  <2>. QED BY <1>10, <2>1, <2>2 DEF BindUeSlice
<1>11. ASSUME NEW u \in Ue, NEW s \in Slice, UnbindUeSlice(u, s) PROVE ConfigInv'
  <2>1. CASE Reply(404)
    BY <2>1, <1>r
  <2>2. CASE /\ members' = [members EXCEPT ![s] = @ \ {u}]
             /\ SendUeUnbind(BoundTo(s), s, u)
             /\ UNCHANGED <<nodebs, slices, bound, share, nbShare>>
    BY <2>2 DEF SendUeUnbind, BoundTo
  <2>. QED BY <1>11, <2>1, <2>2 DEF UnbindUeSlice
<1>12. CASE Malformed \/ Read
  BY <1>12, <1>r DEF Malformed, Read, Get, GetAll
<1>13. CASE KpmIndication
  BY <1>13 DEF KpmIndication, BoundTo
<1>14. CASE UNCHANGED vars
  BY <1>14 DEF vars
<1>. QED
  BY <1>1, <1>2, <1>3, <1>4, <1>5, <1>6, <1>7, <1>8, <1>9, <1>10, <1>11, <1>12,
     <1>13, <1>14 DEF Next

\* The configuration the NodeBs have been told is always in step with the
\* bindings, if one delete request can name every slice.
LEMMA ConfigInvariant == ASSUME SlicesFit PROVE Spec => []ConfigInv
<1>1. Init => ConfigInv
  BY DEF Init, ConfigInv, NoOrphanConfig, ToldShareCurrent, NoOrphanUeBinding
<1>2. TypeOK /\ NoDanglingUe /\ ConfigInv /\ [Next]_vars => ConfigInv'
  BY NextConfigInv
<1>. QED BY <1>1, <1>2, TypeCorrect, UesNeverDangle, PTL DEF Spec

\* As long as one delete request can name all the slices of a NodeB, a NodeB is
\* configured only with slices that exist and that are bound to it.
THEOREM ConfigMatchesBindings == ASSUME SlicesFit PROVE Spec => []NoOrphanConfig
<1>1. ConfigInv => NoOrphanConfig
  BY DEF ConfigInv
<1>. QED BY <1>1, ConfigInvariant, PTL

\* Under the same condition the share a NodeB was last told is the current one,
\* whoever changed it.
THEOREM ConfigIsCurrent == ASSUME SlicesFit PROVE Spec => []ToldShareCurrent
<1>1. ConfigInv => ToldShareCurrent
  BY DEF ConfigInv
<1>. QED BY <1>1, ConfigInvariant, PTL

\* Under the same condition no NodeB keeps a UE bound to a slice that the UE has
\* left, or that was unbound from the NodeB.
THEOREM UeConfigMatches == ASSUME SlicesFit PROVE Spec => []NoOrphanUeBinding
<1>1. ConfigInv => NoOrphanUeBinding
  BY DEF ConfigInv
<1>. QED BY <1>1, ConfigInvariant, PTL

-----------------------------------------------------------------------------
(***************************************************************************)
(* The registry implements Membership.  NoDanglingUe makes owner a faithful*)
(* reading of the ues maps: a UE in two of them would point back to both.  *)
(***************************************************************************)

\* Every operation moves the owners of UEs as Membership allows, or not at all.
LEMMA NextMembership ==
  ASSUME TypeOK, NoDanglingUe, NoDanglingUe', [Next]_vars
  PROVE  [M!Next]_owner
<1>. USE RegistryAssumption
<1>f. /\ owner \in [Ue -> Slice \cup {NoSlice}]
      /\ owner' \in [Ue -> Slice \cup {NoSlice}]
  BY DEF owner
<1>o. ASSUME NEW u \in Ue, NEW s \in Slice
      PROVE  /\ u \in members[s] => owner[u] = s
             /\ u \in members'[s] => owner'[u] = s
  BY <1>o DEF NoDanglingUe, owner
<1>n. ASSUME NEW u \in Ue
      PROVE  /\ (\A s \in Slice : u \notin members[s]) => owner[u] = NoSlice
             /\ (\A s \in Slice : u \notin members'[s]) => owner'[u] = NoSlice
  BY <1>n DEF owner
<1>u. ASSUME members' = members PROVE owner' = owner
  BY <1>u DEF owner
<1>s. ASSUME NEW v \in Ue, \A s \in Slice : (v \in members'[s]) = (v \in members[s])
      PROVE  owner'[v] = owner[v]
  <2>1. CASE \E s \in Slice : v \in members[s]
    BY <1>s, <2>1, <1>o
  <2>2. CASE \A s \in Slice : v \notin members[s]
    BY <1>s, <2>2, <1>n
  <2>. QED BY <2>1, <2>2
<1>r. ASSUME NEW c, Reply(c) PROVE owner' = owner
  BY <1>r, <1>u, ReplyKeeps
<1>l. ASSUME NEW u \in Ue, NEW s \in Slice, u \in members[s],
             members' = [members EXCEPT ![s] = @ \ {u}]
      PROVE  M!Leave(u)
  <2>1. owner[u] = s /\ \A t \in Slice : u \in members[t] => t = s
    BY <1>l, <1>o
  <2>2. owner'[u] = NoSlice
    BY <1>l, <1>n, <2>1 DEF TypeOK
  <2>3. \A v \in Ue \ {u} : owner'[v] = owner[v]
    BY <1>l, <1>s DEF TypeOK
  <2>4. owner' = [owner EXCEPT ![u] = NoSlice]
    BY <1>f, <2>2, <2>3
  <2>. QED BY <2>1, <2>4 DEF M!Leave
<1>1. ASSUME NEW n \in NodeB, AddNodeB(n) \/ UpdateNodeB(n) \/ DelNodeB(n)
      PROVE  owner' = owner
  BY <1>1, <1>r, <1>u DEF AddNodeB, UpdateNodeB, DelNodeB
<1>2. ASSUME NEW s \in Slice, NEW v \in Shares, AddSlice(s, v) \/ UpdateSlice(s, v)
      PROVE  owner' = owner
  BY <1>2, <1>r, <1>u DEF AddSlice, UpdateSlice
<1>3. ASSUME NEW s \in Slice, DelSlice(s) PROVE [M!Next]_owner
  <2>1. CASE s \notin slices
    BY <1>3, <2>1, <1>r DEF DelSlice
  <2>2. CASE s \in slices
    <3>1. members' = [members EXCEPT ![s] = {}]
      BY <1>3, <2>2 DEF DelSlice
    <3>2. ASSUME NEW v \in Ue, v \in members[s]
          PROVE  owner[v] = s /\ owner'[v] = NoSlice
      <4>1. \A t \in Slice : v \in members[t] => t = s
        BY <3>2, <1>o
      <4>2. \A t \in Slice : v \notin members'[t]
        BY <4>1, <3>1 DEF TypeOK
      <4>. QED BY <3>2, <4>2, <1>o, <1>n
    <3>3. ASSUME NEW v \in Ue, v \notin members[s]
          PROVE  owner[v] # s /\ owner'[v] = owner[v]
      <4>1. \A t \in Slice : (v \in members'[t]) = (v \in members[t])
        BY <3>1, <3>3 DEF TypeOK
      <4>2. owner[v] # s
        <5>1. CASE \E t \in Slice : v \in members[t]
          BY <3>3, <5>1, <1>o
        <5>2. CASE \A t \in Slice : v \notin members[t]
          BY <5>2, <1>n
        <5>. QED BY <5>1, <5>2
      <4>. QED BY <4>1, <4>2, <1>s
    <3>4. owner' = [u \in Ue |-> IF owner[u] = s THEN NoSlice ELSE owner[u]]
      BY <1>f, <3>2, <3>3
    <3>. QED BY <3>4 DEF M!Disband, M!Next
  <2>. QED BY <2>1, <2>2
<1>4. ASSUME NEW u \in Ue, AddUe(u) \/ UpdateUe(u) \/ UpdateUeImsi(u)
      PROVE  owner' = owner
  BY <1>4, <1>r, <1>u DEF AddUe, UpdateUe, UpdateUeImsi
<1>5. ASSUME NEW u \in Ue, DelUe(u) PROVE [M!Next]_owner
  <2>1. CASE Reply(404)
    BY <2>1, <1>r
  <2>2. CASE /\ boundSlice[u] \in slices /\ u \in members[boundSlice[u]]
             /\ members' = [members EXCEPT ![boundSlice[u]] = @ \ {u}]
    <3>1. M!Leave(u)
      BY <2>2, <1>l DEF TypeOK
    <3>. QED BY <3>1 DEF M!Next
  <2>3. CASE UNCHANGED <<members, nbUes>>
    BY <2>3, <1>u
  <2>. QED BY <1>5, <2>1, <2>2, <2>3 DEF DelUe
<1>6. ASSUME NEW s \in Slice, NEW n \in NodeB,
             BindSliceNodeB(s, n) \/ UnbindSliceNodeB(s, n)
      PROVE  owner' = owner
  BY <1>6, <1>r, <1>u DEF BindSliceNodeB, UnbindSliceNodeB
<1>7. ASSUME NEW u \in Ue, NEW s \in Slice, BindUeSlice(u, s) PROVE [M!Next]_owner
  <2>1. CASE Reply(404) \/ Reply(403)
    BY <2>1, <1>r
  <2>2. CASE boundSlice[u] = NoSlice /\ members' = [members EXCEPT ![s] = @ \cup {u}]
    <3>1. \A t \in Slice : u \notin members[t]
      BY <2>2 DEF NoDanglingUe
    <3>2. owner[u] = NoSlice /\ owner'[u] = s
      BY <2>2, <3>1, <1>o, <1>n DEF TypeOK
    <3>3. \A v \in Ue \ {u} : owner'[v] = owner[v]
      BY <2>2, <1>s DEF TypeOK
    <3>4. owner' = [owner EXCEPT ![u] = s]
      BY <1>f, <3>2, <3>3
    <3>. QED BY <3>2, <3>4 DEF M!Join, M!Next
  <2>. QED BY <1>7, <2>1, <2>2 DEF BindUeSlice
<1>8. ASSUME NEW u \in Ue, NEW s \in Slice, UnbindUeSlice(u, s) PROVE [M!Next]_owner
  <2>1. CASE Reply(404)
    BY <2>1, <1>r
  <2>2. CASE u \in members[s] /\ members' = [members EXCEPT ![s] = @ \ {u}]
    BY <2>2, <1>l DEF M!Next
  <2>. QED BY <1>8, <2>1, <2>2 DEF UnbindUeSlice
<1>9. ASSUME Malformed \/ Read \/ KpmIndication PROVE owner' = owner
  BY <1>9, <1>r, <1>u DEF Malformed, Read, Get, GetAll, KpmIndication
<1>10. CASE UNCHANGED vars
  BY <1>10, <1>u DEF vars
<1>. QED
  BY <1>1, <1>2, <1>3, <1>4, <1>5, <1>6, <1>7, <1>8, <1>9, <1>10 DEF Next

\* A client sees UEs move between slices only as Membership allows, although
\* the registry keeps each binding in two places that do not always agree.
THEOREM MembershipImplemented == Spec => ImplementsMembership
<1>1. Init => M!Init
  BY DEF Init, M!Init, owner
<1>2. TypeOK /\ NoDanglingUe /\ NoDanglingUe' /\ [Next]_vars => [M!Next]_owner
  BY NextMembership
<1>. QED
  BY <1>1, <1>2, TypeCorrect, UesNeverDangle, PTL
  DEF Spec, ImplementsMembership, M!Spec

=============================================================================
