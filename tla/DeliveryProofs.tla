---------------------------- MODULE DeliveryProofs ----------------------------
(***************************************************************************)
(* What holds of Delivery for any finite sets of NodeBs and slices, any    *)
(* shares, any last instance id and any number of requests on the way.     *)
(***************************************************************************)
EXTENDS Delivery, FiniteSetTheorems, SequenceTheorems, TLAPS

\* A thread sends configuration only while it holds the mutex, and the state is
\* well typed: inductive together, since what a thread still has to send must be
\* a sequence for its head to be a request.
IInv == TypeOK /\ OnlyHolderConfigures

-----------------------------------------------------------------------------
(***************************************************************************)
(* Requests are well typed, and so are the lists an operation makes.       *)
(***************************************************************************)

\* SetToSeq lists the elements of a finite set.
LEMMA SetToSeqType ==
  ASSUME NEW T, NEW S \in SUBSET T, IsFiniteSet(S)
  PROVE  SetToSeq(S) \in Seq(T)
<1>. DEFINE n == Cardinality(S)
            IsList(f) == f \in [1..n -> S] /\ IsInjective(f)
<1>1. n \in Nat /\ ExistsBijection(1..n, S)
  BY FS_CardinalityType
<1>2. \E f : IsList(f)
  BY <1>1 DEF ExistsBijection, Bijection, Injection
<1>3. SetToSeq(S) \in [1..n -> S]
  BY <1>2 DEF SetToSeq
<1>4. SetToSeq(S) \in [1..n -> T]
  BY <1>3
<1>. QED BY <1>1, <1>4

\* A configuration request and a delete request are requests.
LEMMA RequestType ==
  ASSUME NEW n \in NodeB, NEW s \in Slice, NEW v \in Shares, NEW S \in SUBSET Slice
  PROVE  SliceConfig(n, s, v) \in Request /\ SliceDelete(n, S) \in Request
BY DEF SliceConfig, SliceDelete, Request

\* A list of one request is a list of requests.
LEMMA OneRequest == ASSUME NEW r \in Request PROVE <<r>> \in Seq(Request)
OBVIOUS

\* The requests of the loops over the NodeBs a slice is bound to.
LEMMA BoundType ==
  ASSUME TypeOK, NEW s \in Slice, NEW v \in Shares
  PROVE  ConfigBound(s, v) \in Seq(Request) /\ DeleteBound(s) \in Seq(Request)
<1>. DEFINE N == BoundTo(s)
            C == {SliceConfig(n, s, v) : n \in N}
            D == {SliceDelete(n, {s}) : n \in N}
<1>1. N \in SUBSET NodeB /\ IsFiniteSet(N)
  BY FS_Subset, DeliveryAssumption DEF TypeOK, BoundTo
<1>2. C \in SUBSET Request /\ D \in SUBSET Request
  BY <1>1, RequestType
<1>3. IsFiniteSet(C)
  <2>1. [n \in N |-> SliceConfig(n, s, v)] \in Surjection(N, C)
    BY DEF Surjection
  <2>. QED BY <1>1, <2>1, FS_Surjection
<1>4. IsFiniteSet(D)
  <2>1. [n \in N |-> SliceDelete(n, {s})] \in Surjection(N, D)
    BY DEF Surjection
  <2>. QED BY <1>1, <2>1, FS_Surjection
<1>5. SetToSeq(C) \in Seq(Request) /\ SetToSeq(D) \in Seq(Request)
  BY <1>2, <1>3, <1>4, SetToSeqType
<1>. QED BY <1>5 DEF ConfigBound, DeleteBound

-----------------------------------------------------------------------------
(***************************************************************************)
(* What beginning an operation does to everything but the db.              *)
(***************************************************************************)

Others ==
  /\ mutex \in Thread \cup {Free}
  /\ todo \in [Thread -> Seq(Request)]
  /\ nextId \in 1..MaxId
  /\ chan \in [NodeB -> Seq(Request)]
  /\ ran \in [NodeB -> [Slice -> Shares \cup {NoShare}]]

\* An operation that begins finds the mutex free, so the other thread has no
\* configuration left to send; it keeps the mutex if it has some itself.
LEMMA BeginStep ==
  ASSUME IInv, NEW t \in Thread, NEW requests \in Seq(Request), Begin(t, requests)
  PROVE  Others' /\ OnlyHolderConfigures'
<1>. USE DEF IInv, TypeOK, Others, Begin, Lock
<1>1. mutex = Free /\ Free \notin Thread
  BY DEF Free, Thread, Rest, Rmr
<1>2. Others'
  OBVIOUS
<1>3. ASSUME NEW u \in Thread, NEW i \in DOMAIN todo'[u], todo'[u][i].slices # {}
      PROVE  mutex' = u
  <2>1. CASE u # t
    <3>1. todo'[u] = todo[u]
      BY <2>1
    <3>2. mutex = u
      BY <1>3, <3>1 DEF OnlyHolderConfigures
    <3>. QED BY <1>1, <3>2
  <2>2. CASE u = t
    <3>1. todo'[u] = requests
      BY <2>2
    <3>2. requests # <<>>
      BY <1>3, <3>1
    <3>. QED BY <2>2, <3>2
  <2>. QED BY <2>1, <2>2
<1>. QED BY <1>2, <1>3 DEF OnlyHolderConfigures

\* A refused request has nothing to send.
LEMMA RefuseStep ==
  ASSUME IInv, NEW c \in {403, 404}, Refuse(c)
  PROVE  IInv'
<1>1. Others' /\ OnlyHolderConfigures'
  <2>1. <<>> \in Seq(Request) /\ Rest \in Thread
    BY DEF Thread
  <2>. QED BY <2>1, BeginStep DEF Refuse
<1>. QED BY <1>1 DEF Refuse, IInv, TypeOK, Others, db

\* App::add releases the mutex, and what it sends then is no configuration.
LEMMA AddNodeBStep ==
  ASSUME IInv, NEW n \in NodeB, AddNodeB(n)
  PROVE  IInv'
<1>1. CASE n \in nodebs /\ Refuse(403)
  BY <1>1, RefuseStep
<1>2. CASE ~(n \in nodebs /\ Refuse(403))
  <2>. DEFINE requests == <<SliceStatus(n), Subscription(n)>>
  <2>1. /\ Lock(Rest)
        /\ todo' = [todo EXCEPT ![Rest] = requests]
        /\ nodebs' = nodebs \cup {n}
        /\ reply' = 201
        /\ UNCHANGED <<mutex, slices, bound, share>>
    BY <1>2 DEF AddNodeB
  <2>2. requests \in Seq(Request) /\ requests[1].slices = {} /\ requests[2].slices = {}
    BY DEF SliceStatus, Subscription, Request
  <2>3. TypeOK'
    <3>. HIDE DEF requests
    <3>1. todo' \in [Thread -> Seq(Request)]
      BY <2>1, <2>2 DEF IInv, TypeOK
    <3>2. nodebs' \in SUBSET NodeB /\ reply' \in {200, 201, 403, 404}
      BY <2>1 DEF IInv, TypeOK
    <3>. QED BY <2>1, <3>1, <3>2 DEF IInv, TypeOK, Lock
  <2>4. ASSUME NEW u \in Thread, NEW i \in DOMAIN todo'[u], todo'[u][i].slices # {}
        PROVE  mutex' = u
    <3>1. u # Rest
      <4>1. SUFFICES ASSUME u = Rest PROVE FALSE
        OBVIOUS
      <4>2. todo'[u] = requests
        BY <2>1, <4>1 DEF IInv, TypeOK
      <4>3. i \in 1..2
        BY <2>4, <4>2
      <4>. QED BY <2>2, <2>4, <4>2, <4>3
    <3>2. todo'[u] = todo[u]
      BY <2>1, <3>1 DEF IInv, TypeOK
    <3>. QED BY <2>1, <2>4, <3>2 DEF IInv, OnlyHolderConfigures
  <2>. QED BY <2>3, <2>4 DEF IInv, OnlyHolderConfigures
<1>. QED BY <1>1, <1>2

-----------------------------------------------------------------------------
(***************************************************************************)
(* The steps.                                                              *)
(***************************************************************************)

\* Every northbound operation on a slice or a binding.
LEMMA NorthboundStep == ASSUME IInv, Northbound PROVE IInv'
<1>. USE DEF IInv, TypeOK, Others
<1>r. Rest \in Thread /\ <<>> \in Seq(Request)
  BY DEF Thread
<1>1. ASSUME NEW n \in NodeB, AddNodeB(n) PROVE IInv'
  BY <1>1, AddNodeBStep
<1>2. ASSUME NEW n \in NodeB, DelNodeB(n) PROVE IInv'
  <2>1. CASE n \notin nodebs
    BY <1>2, <2>1, RefuseStep DEF DelNodeB
  <2>2. CASE n \in nodebs
    <3>. DEFINE requests == IF bound[n] = {} THEN <<>> ELSE <<SliceDelete(n, bound[n])>>
    <3>1. SliceDelete(n, bound[n]) \in Request
      BY RequestType DEF SliceDelete, Request
    <3>2. requests \in Seq(Request)
      BY <3>1, <1>r
    <3>3. /\ Begin(Rest, requests)
          /\ nodebs' = nodebs \ {n}
          /\ bound' = [bound EXCEPT ![n] = {}]
          /\ reply' = 200
          /\ UNCHANGED <<slices, share>>
      BY <1>2, <2>2 DEF DelNodeB
    <3>. HIDE DEF requests
    <3>4. Others' /\ OnlyHolderConfigures'
      BY <1>r, <3>2, <3>3, BeginStep
    <3>5. bound' \in [NodeB -> SUBSET Slice]
      BY <3>3
    <3>. QED BY <3>3, <3>4, <3>5
  <2>. QED BY <2>1, <2>2
<1>3. ASSUME NEW s \in Slice, NEW v \in Shares, AddSlice(s, v) PROVE IInv'
  <2>1. CASE s \in slices
    BY <1>3, <2>1, RefuseStep DEF AddSlice
  <2>2. CASE s \notin slices
    <3>1. Others' /\ OnlyHolderConfigures'
      BY <1>r, <1>3, <2>2, BeginStep DEF AddSlice
    <3>2. share' \in [Slice -> Shares \cup {NoShare}]
      BY <1>3, <2>2 DEF AddSlice
    <3>. QED BY <1>3, <2>2, <3>1, <3>2 DEF AddSlice
  <2>. QED BY <2>1, <2>2
<1>4. ASSUME NEW s \in Slice, NEW v \in Shares, UpdateSlice(s, v) PROVE IInv'
  <2>1. CASE s \notin slices
    BY <1>4, <2>1, RefuseStep DEF UpdateSlice
  <2>2. CASE s \in slices
    <3>1. ConfigBound(s, v) \in Seq(Request)
      BY BoundType
    <3>2. Others' /\ OnlyHolderConfigures'
      BY <1>r, <1>4, <2>2, <3>1, BeginStep DEF UpdateSlice
    <3>3. share' \in [Slice -> Shares \cup {NoShare}]
      BY <1>4, <2>2 DEF UpdateSlice
    <3>. QED BY <1>4, <2>2, <3>2, <3>3 DEF UpdateSlice
  <2>. QED BY <2>1, <2>2
<1>5. ASSUME NEW s \in Slice, DelSlice(s) PROVE IInv'
  <2>1. CASE s \notin slices
    BY <1>5, <2>1, RefuseStep DEF DelSlice
  <2>2. CASE s \in slices
    <3>1. DeleteBound(s) \in Seq(Request)
      BY BoundType, DeliveryAssumption
    <3>2. Others' /\ OnlyHolderConfigures'
      BY <1>r, <1>5, <2>2, <3>1, BeginStep DEF DelSlice
    <3>. QED BY <1>5, <2>2, <3>2 DEF DelSlice
  <2>. QED BY <2>1, <2>2
<1>6. ASSUME NEW s \in Slice, NEW n \in NodeB, BindSliceNodeB(s, n) PROVE IInv'
  <2>1. CASE Refuse(403) \/ Refuse(404)
    BY <2>1, RefuseStep
  <2>2. CASE ~(Refuse(403) \/ Refuse(404))
    <3>1. /\ Begin(Rest, <<SliceConfig(n, s, share[s])>>)
          /\ bound' = [bound EXCEPT ![n] = @ \cup {s}]
          /\ reply' = 200
          /\ UNCHANGED <<nodebs, slices, share>>
      BY <1>6, <2>2 DEF BindSliceNodeB
    <3>2. SliceConfig(n, s, share[s]) \in Request
      BY DEF SliceConfig, Request
    <3>3. Others' /\ OnlyHolderConfigures'
      BY <1>r, <3>1, <3>2, OneRequest, BeginStep
    <3>4. bound' \in [NodeB -> SUBSET Slice]
      BY <3>1
    <3>. QED BY <3>1, <3>3, <3>4
  <2>. QED BY <2>1, <2>2
<1>7. ASSUME NEW s \in Slice, NEW n \in NodeB, UnbindSliceNodeB(s, n) PROVE IInv'
  <2>1. CASE Refuse(404)
    BY <2>1, RefuseStep
  <2>2. CASE ~Refuse(404)
    <3>1. /\ Begin(Rest, <<SliceDelete(n, {s})>>)
          /\ bound' = [bound EXCEPT ![n] = @ \ {s}]
          /\ reply' = 200
          /\ UNCHANGED <<nodebs, slices, share>>
      BY <1>7, <2>2 DEF UnbindSliceNodeB
    <3>2. SliceDelete(n, {s}) \in Request
      BY DEF SliceDelete, Request
    <3>3. Others' /\ OnlyHolderConfigures'
      BY <1>r, <3>1, <3>2, OneRequest, BeginStep
    <3>4. bound' \in [NodeB -> SUBSET Slice]
      BY <3>1
    <3>. QED BY <3>1, <3>3, <3>4
  <2>. QED BY <2>1, <2>2
<1>. QED BY <1>1, <1>2, <1>3, <1>4, <1>5, <1>6, <1>7 DEF Northbound

\* The closed loop sends the shares that changed, one for each binding.
LEMMA KpmIndicationStep == ASSUME IInv, KpmIndication PROVE IInv'
<1>. USE DEF IInv, TypeOK, Others
<1>1. PICK new \in [slices -> {v \in Shares : v >= MinShare}] :
        LET changed == {p \in slices \X nodebs :
                          p[1] \in bound[p[2]] /\ new[p[1]] # share[p[1]]}
        IN
        /\ Begin(Rmr, SetToSeq({SliceConfig(p[2], p[1], new[p[1]]) : p \in changed}))
        /\ share' = [s \in Slice |-> IF s \in slices THEN new[s] ELSE share[s]]
        /\ UNCHANGED <<nodebs, slices, bound, reply>>
  BY DEF KpmIndication
<1>. DEFINE changed == {p \in slices \X nodebs :
                          p[1] \in bound[p[2]] /\ new[p[1]] # share[p[1]]}
            R1 == {SliceConfig(p[2], p[1], new[p[1]]) : p \in changed}
<1>2. IsFiniteSet(changed)
  <2>1. IsFiniteSet(slices) /\ IsFiniteSet(nodebs)
    BY FS_Subset, DeliveryAssumption
  <2>2. IsFiniteSet(slices \X nodebs)
    BY <2>1, FS_Product
  <2>. QED BY <2>2, FS_Subset
<1>3. IsFiniteSet(R1)
  <2>1. [p \in changed |-> SliceConfig(p[2], p[1], new[p[1]])] \in Surjection(changed, R1)
    BY DEF Surjection
  <2>. QED BY <1>2, <2>1, FS_Surjection
<1>4. R1 \in SUBSET Request
  BY DEF SliceConfig, Request
<1>5. SetToSeq(R1) \in Seq(Request)
  BY <1>3, <1>4, SetToSeqType
<1>6. Others' /\ OnlyHolderConfigures'
  BY <1>1, <1>5, BeginStep DEF Thread
<1>. QED BY <1>1, <1>6

\* Sending a request shortens the thread's list, and puts on the way what was
\* at its head.
LEMMA SendStep == ASSUME IInv, NEW t \in Thread, Send(t) PROVE IInv'
<1>. USE DEF IInv, TypeOK
<1>. DEFINE r == Head(todo[t])
<1>1. /\ todo[t] \in Seq(Request) /\ todo[t] # <<>>
      /\ todo' = [todo EXCEPT ![t] = Tail(@)]
      /\ nextId' = IF nextId < MaxId THEN nextId + 1 ELSE nextId
      /\ chan' = IF Encodes(nextId) /\ r.slices # {}
                 THEN [chan EXCEPT ![r.meid] = Append(@, r)]
                 ELSE chan
      /\ UNCHANGED <<db, reply, mutex, ran>>
  BY DEF Send
<1>2. /\ r \in Request /\ Tail(todo[t]) \in Seq(Request)
      /\ Len(Tail(todo[t])) = Len(todo[t]) - 1
      /\ \A i \in 1..Len(Tail(todo[t])) : Tail(todo[t])[i] = todo[t][i + 1]
  BY <1>1, HeadTailProperties
<1>3. r.meid \in NodeB
  BY <1>2 DEF Request
<1>4. chan' \in [NodeB -> Seq(Request)]
  BY <1>1, <1>2, <1>3, AppendProperties
<1>5. nextId' \in 1..MaxId
  BY <1>1, DeliveryAssumption
<1>6. TypeOK'
  BY <1>1, <1>2, <1>4, <1>5 DEF db
<1>7. ASSUME NEW u \in Thread, NEW i \in DOMAIN todo'[u], todo'[u][i].slices # {}
      PROVE  mutex' = u
  <2>1. CASE u # t
    <3>1. todo'[u] = todo[u]
      BY <1>1, <2>1
    <3>. QED BY <1>1, <1>7, <3>1 DEF OnlyHolderConfigures
  <2>2. CASE u = t
    <3>1. todo'[u] = Tail(todo[t])
      BY <1>1, <2>2
    <3>2. i \in 1..Len(Tail(todo[t]))
      BY <1>2, <1>7, <3>1
    <3>3. i + 1 \in DOMAIN todo[t]
      BY <1>1, <1>2, <3>2
    <3>4. todo[t][i + 1].slices # {}
      BY <1>2, <1>7, <3>1, <3>2
    <3>. QED BY <1>1, <2>2, <3>3, <3>4 DEF OnlyHolderConfigures
  <2>. QED BY <2>1, <2>2
<1>. QED BY <1>6, <1>7 DEF OnlyHolderConfigures

\* The holder unlocks when it has nothing left to send.
LEMMA UnlockStep == ASSUME IInv, NEW t \in Thread, Unlock(t) PROVE IInv'
<1>. USE DEF IInv, TypeOK, Unlock
<1>1. TypeOK'
  BY DEF db
<1>2. ASSUME NEW u \in Thread, NEW i \in DOMAIN todo'[u], todo'[u][i].slices # {}
      PROVE  FALSE
  <2>1. mutex = u
    BY <1>2 DEF OnlyHolderConfigures
  <2>2. todo[u] = <<>>
    BY <2>1
  <2>. QED BY <1>2, <2>2
<1>. QED BY <1>1, <1>2 DEF OnlyHolderConfigures

\* What arrives at a NodeB sets or removes some of its shares.
LEMMA DeliverStep == ASSUME IInv, NEW n \in NodeB, Deliver(n) PROVE IInv'
<1>. USE DEF IInv, TypeOK, Deliver
<1>1. chan[n] \in Seq(Request) /\ chan[n] # <<>>
  OBVIOUS
<1>2. Head(chan[n]) \in Request /\ Tail(chan[n]) \in Seq(Request)
  BY <1>1, HeadTailProperties
<1>3. Apply(ran[n], Head(chan[n])) \in [Slice -> Shares \cup {NoShare}]
  BY <1>2 DEF Apply, Request
<1>4. TypeOK'
  BY <1>2, <1>3 DEF db
<1>. QED BY <1>4 DEF OnlyHolderConfigures

-----------------------------------------------------------------------------
(***************************************************************************)
(* The theorems.                                                           *)
(***************************************************************************)

\* App::init leaves nothing to send and the mutex free.
LEMMA InitInv == Init => IInv
<1>. SUFFICES ASSUME Init PROVE IInv
  OBVIOUS
<1>1. TypeOK
  BY DeliveryAssumption DEF Init, TypeOK, DefaultShare
<1>2. \A t \in Thread : DOMAIN todo[t] = {}
  BY DEF Init
<1>. QED BY <1>1, <1>2 DEF IInv, OnlyHolderConfigures

\* Every step of a thread, of the network or of a NodeB keeps the invariant.
LEMMA NextInv == IInv /\ [Next]_vars => IInv'
<1>. SUFFICES ASSUME IInv, [Next]_vars PROVE IInv'
  OBVIOUS
<1>1. CASE UNCHANGED vars
  BY <1>1 DEF vars, IInv, TypeOK, OnlyHolderConfigures
<1>2. CASE Northbound
  BY <1>2, NorthboundStep
<1>3. CASE KpmIndication
  BY <1>3, KpmIndicationStep
<1>4. ASSUME NEW t \in Thread, Send(t) \/ Unlock(t) PROVE IInv'
  BY <1>4, SendStep, UnlockStep
<1>5. ASSUME NEW n \in NodeB, Deliver(n) PROVE IInv'
  BY <1>5, DeliverStep
<1>. QED BY <1>1, <1>2, <1>3, <1>4, <1>5 DEF Next

\* The invariant holds throughout.
LEMMA Invariance == Spec => []IInv
BY InitInv, NextInv, PTL DEF Spec

\* The state of the threads, the ids, the requests on the way and the NodeBs
\* stays well typed: send_control_request is only ever given a request.
THEOREM TypeCorrect == Spec => []TypeOK
<1>1. IInv => TypeOK
  BY DEF IInv
<1>. QED BY <1>1, Invariance, PTL

\* Only the holder of App.mutex has configuration left to send, so the requests
\* of one operation and of one report never mix, for any number of NodeBs.
THEOREM HolderConfigures == Spec => []OnlyHolderConfigures
<1>1. IInv => OnlyHolderConfigures
  BY DEF IInv
<1>. QED BY <1>1, Invariance, PTL

=============================================================================
