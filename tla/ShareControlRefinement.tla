------------------------ MODULE ShareControlRefinement ------------------------
(***************************************************************************)
(* The closed loop implements what Registry says of it: with the policies  *)
(* of ShareControl for the shares of the slices, each of its steps is one  *)
(* of Registry's on a db without NodeBs and UEs, and a report is one       *)
(* KpmIndication.  So Registry leaves out none of the shares the closed    *)
(* loop computes.                                                          *)
(*                                                                         *)
(* ShareControl has no replies; reply, the status of the last request,     *)
(* goes along with its steps and decides none of them.                     *)
(***************************************************************************)
EXTENDS ShareControlProofs

VARIABLE reply

RInit == Init /\ reply = 200

RNext ==
  \/ /\ \E s \in Slice, v \in Shares, auto, throttle \in BOOLEAN :
          PostSlice(s, v, auto, throttle)
     /\ reply' = 201
  \/ /\ \/ \E s \in Slice, v \in Shares, auto, throttle \in BOOLEAN :
             PutSlice(s, v, auto, throttle)
        \/ \E s \in Slice : DeleteSlice(s)
     /\ reply' = 200
  \/ /\ \/ \E r \in Reports(Traffic), busy \in BOOLEAN : Indication(r, busy)
        \/ Tick
     /\ UNCHANGED reply

RSpec == RInit /\ [][RNext]_<<vars, reply>>

AllShares == 0..MaxShare
NoName == CHOOSE x : x \notin Slice
ShareOf == [s \in Slice |-> IF s \in slices THEN policy[s].share ELSE -1]

R == INSTANCE Registry WITH
       NodeB <- {}, Ue <- {}, NoSlice <- NoName, Shares <- AllShares, MaxOfSlices <- 0,
       nodebs <- {}, ues <- {}, bound <- [n \in {} |-> {}],
       members <- [s \in Slice |-> {}], boundSlice <- [u \in {} |-> NoName],
       share <- ShareOf, nbShare <- [n \in {} |-> [s \in Slice |-> -1]],
       nbUes <- [n \in {} |-> {}]

-----------------------------------------------------------------------------

\* The instance is one that Registry allows.
LEMMA RegistryAllows == R!RegistryAssumption
<1>1. NoName \notin Slice
  <2> DEFINE N == {x \in Slice : x \notin x}
  <2>1. N \notin Slice
    OBVIOUS
  <2>2. \E x : x \notin Slice
    BY <2>1
  <2>3. QED
    BY <2>2 DEF NoName
<1>2. R!DefaultShare \in AllShares /\ AllShares \subseteq 0..1024
  BY DEF R!DefaultShare, AllShares, MaxShare
<1>3. QED
  BY <1>1, <1>2, ShareControlAssumption DEF R!RegistryAssumption

LEMMA RInitRefines == RInit => R!Init
<1> SUFFICES ASSUME RInit PROVE R!Init
  OBVIOUS
<1>1. slices = {DefaultSlice} /\ policy[DefaultSlice].share = DefaultShare
  BY DEF RInit, Init, slices, New
<1>2. ShareOf = [s \in Slice |-> IF s = DefaultSlice THEN R!DefaultShare ELSE R!NoShare]
  BY <1>1 DEF ShareOf, DefaultShare, R!DefaultShare, R!NoShare
<1>3. reply = 200
  BY DEF RInit
<1>4. QED
  BY <1>1, <1>2, <1>3 DEF R!Init, R!NoShare

\* A step that changes the shares, or the slices, of the registry changes nothing
\* else of it: there is nothing else.
LEMMA PostRefines ==
  ASSUME NEW s \in Slice, NEW v \in Shares, NEW auto \in BOOLEAN, NEW throttle \in BOOLEAN,
         PostSlice(s, v, auto, throttle), reply' = 201
  PROVE  R!AddSlice(s, v)
<1>1. /\ s \notin slices /\ slices' = slices \cup {s}
      /\ \A x \in slices : policy'[x] = policy[x]
      /\ policy'[s].share = v
  BY DEF PostSlice, slices, New
<1>2. ShareOf' = [ShareOf EXCEPT ![s] = v]
  BY <1>1 DEF ShareOf
<1>3. QED
  BY <1>1, <1>2 DEF R!AddSlice, R!told

LEMMA PutRefines ==
  ASSUME NEW s \in Slice, NEW v \in Shares, NEW auto \in BOOLEAN, NEW throttle \in BOOLEAN,
         PutSlice(s, v, auto, throttle), IInv, reply' = 200
  PROVE  R!UpdateSlice(s, v)
<1>1. s \in slices /\ policy[s] \in Policy
  BY DEF PutSlice, IInv, Good
<1>2. /\ slices' = slices
      /\ \A x \in slices \ {s} : policy'[x] = policy[x]
      /\ policy'[s].share = v
  BY <1>1 DEF PutSlice, slices, Policy
<1>3. ShareOf' = [ShareOf EXCEPT ![s] = v]
  BY <1>1, <1>2 DEF ShareOf
<1>4. R!SendConfig(R!BoundTo(s), s, v)
  BY DEF R!SendConfig
<1>5. QED
  BY <1>1, <1>2, <1>3, <1>4 DEF R!UpdateSlice

LEMMA DeleteRefines ==
  ASSUME NEW s \in Slice, DeleteSlice(s), reply' = 200
  PROVE  R!DelSlice(s)
<1>1. /\ s \in slices /\ slices' = slices \ {s}
      /\ \A x \in slices \ {s} : policy'[x] = policy[x]
  BY DEF DeleteSlice, Restrict, slices
<1>2. ShareOf' = [ShareOf EXCEPT ![s] = R!NoShare]
  BY <1>1 DEF ShareOf, R!NoShare
<1>3. R!SendDelete(R!BoundTo(s), {s})
  BY DEF R!SendDelete
<1>4. QED
  BY <1>1, <1>2, <1>3 DEF R!DelSlice

LEMMA IndicationRefines ==
  ASSUME IInv, NEW r \in Reports(Judged), NEW busy \in BOOLEAN, Indication(r, busy),
         UNCHANGED reply
  PROVE  R!KpmIndication
<1> DEFINE P == Indexed(r)
           equalize == busy /\ Unequal(P, r)
<1>1. now \in Nat /\ IsFiniteSet(slices) /\ \A s \in slices : Good(policy[s])
  BY DEF IInv
<1>2. \A s \in slices : Good(P[s])
  BY <1>1, IndexedGood
<1>3. PICK new : /\ \A s \in slices : new[s] \in NewShares(P, r, equalize, s)
                 /\ policy' = [s \in slices |-> [Throttle(P[s]) EXCEPT !.share = new[s]]]
  BY DEF Indication
<1>4. \A s \in slices : Throttle(P[s]) \in Policy
  BY <1>1, <1>2, ThrottleTyped
<1> HIDE DEF P, equalize
<1> DEFINE set == [s \in slices |-> new[s]]
<1>5. set \in [slices -> {v \in AllShares : v >= R!MinShare}]
  <2>1. \A s \in slices : new[s] \in MinShare..MaxShare
    BY <1>1, <1>2, <1>3, NewSharesBounds
  <2>2. MinShare..MaxShare = {v \in AllShares : v >= R!MinShare}
    BY DEF MinShare, MaxShare, AllShares, R!MinShare
  <2>3. QED
    BY <2>1, <2>2
<1>6. slices' = slices /\ \A s \in slices : policy'[s].share = set[s]
  BY <1>3, <1>4 DEF slices, Policy
<1> HIDE DEF set
<1>7. ShareOf' = [s \in Slice |-> IF s \in slices THEN set[s] ELSE ShareOf[s]]
  BY <1>6 DEF ShareOf
<1>8. QED
  BY <1>5, <1>6, <1>7 DEF R!KpmIndication

LEMMA RNextRefines == IInv /\ [RNext]_<<vars, reply>> => [R!Next]_(R!vars)
<1> SUFFICES ASSUME IInv, [RNext]_<<vars, reply>> PROVE [R!Next]_(R!vars)
  OBVIOUS
<1>1. Shares \subseteq AllShares
  BY ShareControlAssumption DEF AllShares
<1>2. ASSUME NEW s \in Slice, NEW v \in Shares, NEW auto \in BOOLEAN,
             NEW throttle \in BOOLEAN, PostSlice(s, v, auto, throttle), reply' = 201
      PROVE  R!Next
  BY <1>1, <1>2, PostRefines DEF R!Next
<1>3. ASSUME NEW s \in Slice, NEW v \in Shares, NEW auto \in BOOLEAN,
             NEW throttle \in BOOLEAN, PutSlice(s, v, auto, throttle), reply' = 200
      PROVE  R!Next
  BY <1>1, <1>3, PutRefines DEF R!Next
<1>4. ASSUME NEW s \in Slice, DeleteSlice(s), reply' = 200
      PROVE  R!Next
  BY <1>4, DeleteRefines DEF R!Next
<1>5. ASSUME NEW r \in Reports(Traffic), NEW busy \in BOOLEAN, Indication(r, busy),
             UNCHANGED reply
      PROVE  R!Next
  <2>1. r \in Reports(Judged)
    BY ShareControlAssumption DEF Reports
  <2>2. QED
    BY <1>5, <2>1, IndicationRefines DEF R!Next
<1>6. ASSUME UNCHANGED <<policy, reply>> PROVE UNCHANGED R!vars
  BY <1>6 DEF R!vars, ShareOf, slices
<1>7. QED
  BY <1>2, <1>3, <1>4, <1>5, <1>6 DEF RNext, Tick, vars

\* Its policies and the db's slices change only as Registry says: the closed loop
\* sets only shares KpmIndication allows, all at once, and creates and deletes no
\* slice.
THEOREM RegistryImplemented == RSpec => R!Spec
<1>1. RSpec => Spec
  <2>1. RInit => Init
    BY DEF RInit
  <2>2. [RNext]_<<vars, reply>> => [Next]_vars
    BY DEF RNext, Next, vars
  <2>3. QED
    BY <2>1, <2>2, PTL DEF RSpec, Spec
<1>2. QED
  BY <1>1, Invariant, RInitRefines, RNextRefines, PTL DEF RSpec, R!Spec
=============================================================================
