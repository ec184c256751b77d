-------------------------- MODULE DeliveryRefinement --------------------------
(***************************************************************************)
(* Delivery implements Registry: for any finite sets of NodeBs and slices, *)
(* the requests two threads send one by one, and that arrive whenever they *)
(* do, leave each NodeB where Registry says its operations take it, as     *)
(* long as instance ids fit.                                               *)
(***************************************************************************)
EXTENDS DeliveryProofs, WellFoundedInduction

\* No instance id is too large to be encoded.
IdsFit == MaxId <= LastId

Names(r, n, s) == r.meid = n /\ s \in r.slices

\* What is on its way to a NodeB is addressed to it.
Addressed == \A n \in NodeB : \A i \in DOMAIN chan[n] : chan[n][i].meid = n

RInv == IInv /\ Addressed

-----------------------------------------------------------------------------
(***************************************************************************)
(* The last request that names a slice.                                    *)
(***************************************************************************)

\* A nonempty set of naturals has a least element.
LEMMA LeastOf ==
  ASSUME NEW T \in SUBSET Nat, T # {}
  PROVE  \E i \in T : \A j \in T : i <= j
<1>. DEFINE R1 == OpToRel(<, Nat)
<1>1. IsWellFoundedOn(R1, Nat)
  BY NatLessThanWellFounded
<1>2. \A x, y \in Nat : x < y => <<x, y>> \in R1
  BY DEF OpToRel
<1>. HIDE DEF R1
<1>3. \E x \in T : \A y \in T : <<y, x>> \notin R1
  BY <1>1, WFMin
<1>4. PICK i \in T : \A j \in T : <<j, i>> \notin R1
  BY <1>3
<1>5. ASSUME NEW j \in T PROVE i <= j
  <2>1. i \in Nat /\ j \in Nat
    OBVIOUS
  <2>2. ~ (j < i)
    BY <1>2, <1>4, <2>1
  <2>. QED BY <2>1, <2>2
<1>. QED BY <1>4, <1>5

\* A nonempty set of positions in a list has a last one.
LEMMA LastOf ==
  ASSUME NEW m \in Nat, NEW I \in SUBSET (1..m), I # {}
  PROVE  \E i \in I : \A j \in I : j <= i
<1>. DEFINE T == {m - i : i \in I}
<1>1. PICK k \in T : \A j \in T : k <= j
  <2>1. \A i \in I : m - i \in Nat
    OBVIOUS
  <2>2. T \in SUBSET Nat /\ T # {}
    BY <2>1
  <2>. QED BY <2>2, LeastOf
<1>2. PICK i \in I : k = m - i
  BY <1>1
<1>3. \A j \in I : m - i <= m - j
  BY <1>1, <1>2
<1>. QED BY <1>3

\* A list without the slice leaves its share alone.
LEMMA NoneLast ==
  ASSUME NEW q, NEW n, NEW s, NEW v, \A i \in DOMAIN q : ~ Names(q[i], n, s)
  PROVE  LastShare(q, n, s, v) = v
BY DEF LastShare, Names

\* The share of a slice is that of the last request that names it.
LEMMA LastIs ==
  ASSUME NEW q \in Seq(Request), NEW n, NEW s, NEW v,
         NEW i \in DOMAIN q, Names(q[i], n, s),
         \A j \in DOMAIN q : Names(q[j], n, s) => j <= i
  PROVE  LastShare(q, n, s, v) = q[i].share
<1>. DEFINE I == {j \in DOMAIN q : q[j].meid = n /\ s \in q[j].slices}
            k == CHOOSE x \in I : \A j \in I : j <= x
<1>1. i \in I /\ \A j \in I : j <= i
  BY DEF Names
<1>2. k \in I /\ \A j \in I : j <= k
  BY <1>1
<1>3. k = i
  <2>1. k <= i /\ i <= k /\ i \in Nat /\ k \in Nat
    BY <1>1, <1>2
  <2>. QED BY <2>1
<1>. QED BY <1>1, <1>3 DEF LastShare

\* A request sent last decides for the slices it names.
LEMMA LastAppend ==
  ASSUME NEW q \in Seq(Request), NEW r \in Request, NEW n, NEW s, NEW v
  PROVE  LastShare(Append(q, r), n, s, v) =
           IF Names(r, n, s) THEN r.share ELSE LastShare(q, n, s, v)
<1>. DEFINE a == Append(q, r)
            m == Len(q) + 1
<1>1. /\ a \in Seq(Request) /\ Len(q) \in Nat /\ DOMAIN a = 1..m /\ a[m] = r
      /\ DOMAIN q = 1..Len(q)
      /\ \A i \in DOMAIN q : a[i] = q[i]
  BY AppendProperties
<1>. HIDE DEF a
<1>2. CASE Names(r, n, s)
  <2>1. m \in DOMAIN a /\ Names(a[m], n, s) /\ \A j \in DOMAIN a : j <= m
    BY <1>1, <1>2
  <2>. HIDE DEF m
  <2>2. LastShare(a, n, s, v) = a[m].share
    BY <1>1, <2>1, LastIs
  <2>. QED BY <1>1, <1>2, <2>2 DEF a
<1>3. CASE ~ Names(r, n, s) /\ \A i \in DOMAIN q : ~ Names(q[i], n, s)
  <2>1. \A i \in DOMAIN a : ~ Names(a[i], n, s)
    BY <1>1, <1>3
  <2>2. LastShare(a, n, s, v) = v /\ LastShare(q, n, s, v) = v
    BY <1>3, <2>1, NoneLast
  <2>. QED BY <1>3, <2>2 DEF a
<1>4. CASE ~ Names(r, n, s) /\ \E i \in DOMAIN q : Names(q[i], n, s)
  <2>. DEFINE I == {i \in DOMAIN q : Names(q[i], n, s)}
  <2>1. I \in SUBSET (1..Len(q)) /\ I # {}
    BY <1>1, <1>4
  <2>2. PICK i \in I : \A j \in I : j <= i
    BY <1>1, <2>1, LastOf
  <2>3. LastShare(q, n, s, v) = q[i].share
    BY <2>2, LastIs
  <2>4. i \in DOMAIN a /\ a[i] = q[i] /\ \A j \in DOMAIN a : Names(a[j], n, s) => j <= i
    BY <1>1, <1>4, <2>2
  <2>5. LastShare(a, n, s, v) = q[i].share
    BY <1>1, <2>2, <2>4, LastIs
  <2>. QED BY <1>4, <2>3, <2>5 DEF a
<1>. QED BY <1>2, <1>3, <1>4 DEF a

\* The request at the head is the first to decide.
LEMMA LastTail ==
  ASSUME NEW q \in Seq(Request), q # <<>>, NEW n, NEW s, NEW v
  PROVE  LastShare(q, n, s, v) =
           LastShare(Tail(q), n, s, IF Names(Head(q), n, s) THEN Head(q).share ELSE v)
<1>. DEFINE a == Tail(q)
            w == IF Names(Head(q), n, s) THEN Head(q).share ELSE v
<1>1. /\ a \in Seq(Request) /\ Len(q) \in Nat \ {0} /\ DOMAIN a = 1..(Len(q) - 1)
      /\ DOMAIN q = 1..Len(q) /\ Head(q) = q[1]
      /\ \A i \in DOMAIN a : a[i] = q[i + 1]
  BY HeadTailProperties
<1>. HIDE DEF a
<1>2. CASE \A i \in DOMAIN a : ~ Names(a[i], n, s)
  <2>1. LastShare(a, n, s, w) = w
    BY <1>2, NoneLast
  <2>2. \A j \in DOMAIN q : Names(q[j], n, s) => j = 1
    <3>1. SUFFICES ASSUME NEW j \in DOMAIN q, Names(q[j], n, s), j # 1 PROVE FALSE
      OBVIOUS
    <3>2. j - 1 \in DOMAIN a /\ a[j - 1] = q[j]
      BY <1>1, <3>1
    <3>. QED BY <1>2, <3>1, <3>2
  <2>3. CASE Names(Head(q), n, s)
    <3>1. LastShare(q, n, s, v) = q[1].share
      BY <1>1, <2>2, <2>3, LastIs
    <3>. QED BY <1>1, <2>1, <2>3, <3>1 DEF a
  <2>4. CASE ~ Names(Head(q), n, s)
    <3>1. LastShare(q, n, s, v) = v
      BY <1>1, <2>2, <2>4, NoneLast
    <3>. QED BY <2>1, <2>4, <3>1 DEF a
  <2>. QED BY <2>3, <2>4
<1>3. CASE \E i \in DOMAIN a : Names(a[i], n, s)
  <2>. DEFINE I == {i \in DOMAIN a : Names(a[i], n, s)}
  <2>1. I \in SUBSET (1..(Len(q) - 1)) /\ I # {} /\ Len(q) - 1 \in Nat
    BY <1>1, <1>3
  <2>2. PICK i \in I : \A j \in I : j <= i
    BY <2>1, LastOf
  <2>3. LastShare(a, n, s, w) = a[i].share
    BY <1>1, <2>2, LastIs
  <2>4. i + 1 \in DOMAIN q /\ q[i + 1] = a[i] /\ Names(q[i + 1], n, s)
    BY <1>1, <2>2
  <2>5. ASSUME NEW j \in DOMAIN q, Names(q[j], n, s) PROVE j <= i + 1
    <3>1. CASE j = 1
      BY <1>1, <2>2, <3>1
    <3>2. CASE j # 1
      <4>1. j - 1 \in DOMAIN a /\ a[j - 1] = q[j]
        BY <1>1, <3>2
      <4>2. j - 1 <= i
        BY <2>2, <2>5, <4>1
      <4>. QED BY <1>1, <2>2, <4>2
    <3>. QED BY <3>1, <3>2
  <2>6. LastShare(q, n, s, v) = q[i + 1].share
    BY <2>4, <2>5, LastIs
  <2>. QED BY <2>3, <2>4, <2>6 DEF a
<1>. QED BY <1>2, <1>3

-----------------------------------------------------------------------------
(***************************************************************************)
(* What each step does to what a NodeB is told.                            *)
(***************************************************************************)

\* A thread without the mutex has no configuration to send.
LEMMA NothingFrom ==
  ASSUME IInv, NEW t \in Thread, mutex # t, NEW n, NEW s, NEW v
  PROVE  LastShare(todo[t], n, s, v) = v
<1>1. \A i \in DOMAIN todo[t] : ~ Names(todo[t][i], n, s)
  BY DEF IInv, OnlyHolderConfigures, Names
<1>. QED BY <1>1, NoneLast

\* Beginning an operation adds its requests to what the NodeBs are told.
LEMMA ToldBegin ==
  ASSUME IInv, NEW t \in Thread, NEW requests \in Seq(Request), Lock(t),
         todo' = [todo EXCEPT ![t] = requests], NEW n \in NodeB
  PROVE  Told(n)' = [s \in Slice |-> LastShare(requests, n, s, Told(n)[s])]
<1>. DEFINE c(s) == LastShare(chan[n], n, s, ran[n][s])
<1>1. /\ mutex # Rest /\ mutex # Rmr /\ Thread = {Rest, Rmr} /\ Rest # Rmr
      /\ UNCHANGED <<chan, ran>>
  BY DEF Lock, Free, Rest, Rmr, Thread
<1>2. todo'[t] = requests /\ \A u \in Thread \ {t} : todo'[u] = todo[u]
  BY DEF IInv, TypeOK
<1>3. \A u \in Thread : \A s, v : LastShare(todo[u], n, s, v) = v
  BY <1>1, NothingFrom
<1>4. ASSUME NEW s \in Slice PROVE Told(n)[s] = c(s)
  BY <1>1, <1>3 DEF Told
<1>5. ASSUME NEW s \in Slice PROVE Told(n)'[s] = LastShare(requests, n, s, c(s))
  <2>1. Told(n)'[s] = LastShare(todo'[Rest], n, s, LastShare(todo'[Rmr], n, s, c(s)))
    BY <1>1 DEF Told
  <2>2. CASE t = Rest
    BY <1>1, <1>2, <1>3, <2>1, <2>2
  <2>3. CASE t = Rmr
    BY <1>1, <1>2, <1>3, <2>1, <2>3
  <2>. QED BY <1>1, <2>2, <2>3
<1>. QED BY <1>4, <1>5 DEF Told

\* Sending moves the next request from the thread to the channel: nobody is told
\* anything else.
LEMMA ToldSend ==
  ASSUME RInv, IdsFit, NEW t \in Thread, Send(t), NEW n \in NodeB
  PROVE  Told(n)' = Told(n)
<1>. DEFINE r == Head(todo[t])
            c(s) == LastShare(chan[n], n, s, ran[n][s])
            d(s) == LastShare(chan'[n], n, s, ran[n][s])
<1>1. /\ Thread = {Rest, Rmr} /\ Rest # Rmr /\ todo[t] \in Seq(Request) /\ todo[t] # <<>>
      /\ r \in Request /\ r = todo[t][1] /\ 1 \in DOMAIN todo[t]
      /\ chan[n] \in Seq(Request)
  <2>1. todo[t] \in Seq(Request) /\ todo[t] # <<>> /\ chan[n] \in Seq(Request)
    BY DEF Send, RInv, IInv, TypeOK
  <2>2. r \in Request /\ r = todo[t][1] /\ 1 \in DOMAIN todo[t]
    BY <2>1
  <2>. QED BY <2>1, <2>2 DEF Thread, Rest, Rmr
<1>2. /\ todo'[t] = Tail(todo[t]) /\ \A u \in Thread \ {t} : todo'[u] = todo[u]
      /\ ran' = ran
  BY DEF Send, RInv, IInv, TypeOK
<1>3. chan' = IF r.slices # {} THEN [chan EXCEPT ![r.meid] = Append(@, r)] ELSE chan
  <2>1. Encodes(nextId)
    BY DeliveryAssumption DEF Encodes, IdsFit, RInv, IInv, TypeOK
  <2>. QED BY <2>1 DEF Send
<1>4. ASSUME NEW s \in Slice
      PROVE  d(s) = IF Names(r, n, s) THEN r.share ELSE c(s)
  <2>1. CASE r.slices # {} /\ r.meid = n
    <3>1. chan'[n] = Append(chan[n], r)
      BY <1>3, <2>1 DEF RInv, IInv, TypeOK
    <3>. QED BY <1>1, <3>1, LastAppend
  <2>2. CASE ~ (r.slices # {} /\ r.meid = n)
    <3>1. chan'[n] = chan[n] /\ ~ Names(r, n, s)
      BY <1>3, <2>2 DEF RInv, IInv, TypeOK, Names
    <3>. QED BY <3>1
  <2>. QED BY <2>1, <2>2
<1>5. ASSUME NEW s \in Slice, NEW v
      PROVE  LastShare(todo[t], n, s, v) =
               LastShare(todo'[t], n, s, IF Names(r, n, s) THEN r.share ELSE v)
  BY <1>1, <1>2, LastTail
<1>6. ASSUME NEW s \in Slice, Names(r, n, s), NEW u \in Thread \ {t}, NEW v
      PROVE  LastShare(todo'[u], n, s, v) = v
  <2>1. mutex = t
    BY <1>1, <1>6 DEF Names, RInv, IInv, OnlyHolderConfigures
  <2>. QED BY <1>2, <1>6, <2>1, NothingFrom DEF RInv
<1>7. ASSUME NEW s \in Slice PROVE Told(n)'[s] = Told(n)[s]
  <2>1. Told(n)'[s] = LastShare(todo'[Rest], n, s, LastShare(todo'[Rmr], n, s, d(s)))
    BY <1>2 DEF Told
  <2>2. Told(n)[s] = LastShare(todo[Rest], n, s, LastShare(todo[Rmr], n, s, c(s)))
    BY DEF Told
  <2>. HIDE DEF c, d, r
  <2>3. CASE t = Rest /\ Names(r, n, s)
    <3>1. LastShare(todo'[Rmr], n, s, d(s)) = r.share
      BY <1>1, <1>4, <1>6, <2>3
    <3>. QED BY <1>5, <2>1, <2>2, <2>3, <3>1
  <2>4. CASE t = Rest /\ ~ Names(r, n, s)
    <3>1. todo'[Rmr] = todo[Rmr] /\ d(s) = c(s)
      BY <1>1, <1>2, <1>4, <2>4
    <3>. QED BY <1>5, <2>1, <2>2, <2>4, <3>1
  <2>5. CASE t = Rmr
    <3>1. /\ todo'[Rest] = todo[Rest]
          /\ LastShare(todo[Rmr], n, s, c(s)) = LastShare(todo'[Rmr], n, s, d(s))
      BY <1>1, <1>2, <1>4, <1>5, <2>5
    <3>. QED BY <2>1, <2>2, <3>1
  <2>. QED BY <1>1, <2>3, <2>4, <2>5
<1>. QED BY <1>7 DEF Told

\* What arrives was told before.
LEMMA ToldDeliver ==
  ASSUME RInv, NEW k \in NodeB, Deliver(k), NEW n \in NodeB
  PROVE  Told(n)' = Told(n)
<1>. DEFINE r == Head(chan[k])
<1>1. /\ chan[k] \in Seq(Request) /\ chan[k] # <<>> /\ todo' = todo
      /\ ran' = [ran EXCEPT ![k] = Apply(@, r)]
      /\ chan' = [chan EXCEPT ![k] = Tail(@)]
  BY DEF RInv, IInv, TypeOK, Deliver
<1>2. r.meid = k
  BY <1>1 DEF RInv, Addressed
<1>3. ASSUME NEW s \in Slice
      PROVE  LastShare(chan'[n], n, s, ran'[n][s]) = LastShare(chan[n], n, s, ran[n][s])
  <2>1. CASE n = k
    <3>1. chan'[n] = Tail(chan[n])
      BY <1>1, <2>1 DEF RInv, IInv, TypeOK
    <3>2. ran'[n][s] = IF Names(r, n, s) THEN r.share ELSE ran[n][s]
      BY <1>1, <1>2, <2>1 DEF RInv, IInv, TypeOK, Apply, Names
    <3>. QED BY <1>1, <2>1, <3>1, <3>2, LastTail
  <2>2. CASE n # k
    BY <1>1, <2>2 DEF RInv, IInv, TypeOK
  <2>. QED BY <2>1, <2>2
<1>. QED BY <1>1, <1>3 DEF Told

\* Only sending puts a request on the way, and only to its addressee.
LEMMA AddressedStep ==
  ASSUME RInv, [Next]_vars
  PROVE  Addressed'
<1>1. CASE UNCHANGED chan
  BY <1>1 DEF RInv, Addressed
<1>2. ASSUME NEW t \in Thread, Send(t) PROVE Addressed'
  <2>. DEFINE r == Head(todo[t])
  <2>1. CASE UNCHANGED chan
    BY <2>1, <1>1
  <2>2. CASE chan' = [chan EXCEPT ![r.meid] = Append(@, r)]
    <3>1. todo[t] \in Seq(Request) /\ todo[t] # <<>>
      BY <1>2 DEF Send, RInv, IInv, TypeOK
    <3>2. r \in Request
      BY <3>1
    <3>. HIDE DEF r
    <3>3. ASSUME NEW n \in NodeB, NEW i \in DOMAIN chan'[n] PROVE chan'[n][i].meid = n
      <4>1. CASE n # r.meid
        BY <2>2, <4>1 DEF RInv, IInv, TypeOK, Addressed
      <4>2. CASE n = r.meid
        <5>1. chan[n] \in Seq(Request) /\ chan'[n] = Append(chan[n], r)
          BY <2>2, <4>2 DEF RInv, IInv, TypeOK
        <5>. QED BY <3>2, <4>2, <5>1, AppendProperties DEF RInv, Addressed
      <4>. QED BY <4>1, <4>2
    <3>. QED BY <3>3 DEF Addressed
  <2>. QED BY <1>2, <2>1, <2>2 DEF Send
<1>3. ASSUME NEW k \in NodeB, Deliver(k) PROVE Addressed'
  <2>1. /\ chan[k] \in Seq(Request) /\ chan[k] # <<>>
        /\ chan' = [chan EXCEPT ![k] = Tail(@)]
    BY <1>3 DEF Deliver, RInv, IInv, TypeOK
  <2>2. ASSUME NEW n \in NodeB, NEW i \in DOMAIN chan'[n] PROVE chan'[n][i].meid = n
    <3>1. CASE n # k
      BY <2>1, <3>1 DEF RInv, IInv, TypeOK, Addressed
    <3>2. CASE n = k
      <4>1. chan'[n] = Tail(chan[n]) /\ i + 1 \in DOMAIN chan[n]
            /\ Tail(chan[n])[i] = chan[n][i + 1]
        BY <2>1, <3>2, HeadTailProperties DEF RInv, IInv, TypeOK
      <4>. QED BY <4>1 DEF RInv, Addressed
    <3>. QED BY <3>1, <3>2
  <2>. QED BY <2>2 DEF Addressed
<1>. QED
  BY <1>1, <1>2, <1>3
  DEF Next, Northbound, KpmIndication, AddNodeB, AddSlice, UpdateSlice, DelSlice,
      DelNodeB, BindSliceNodeB, UnbindSliceNodeB, Refuse, Begin, Lock, Unlock, vars

-----------------------------------------------------------------------------
(***************************************************************************)
(* The last share in the lists of requests the operations make.            *)
(***************************************************************************)

\* SetToSeq lists each element of a finite set, and nothing else.
LEMMA ListOf ==
  ASSUME NEW T, NEW S1 \in SUBSET T, IsFiniteSet(S1)
  PROVE  /\ SetToSeq(S1) \in Seq(T)
         /\ \A i \in DOMAIN SetToSeq(S1) : SetToSeq(S1)[i] \in S1
         /\ \A x \in S1 : \E i \in DOMAIN SetToSeq(S1) : SetToSeq(S1)[i] = x
<1>. DEFINE n == Cardinality(S1)
            IsList(f) == f \in [1..n -> S1] /\ IsInjective(f)
<1>1. n \in Nat /\ ExistsBijection(1..n, S1)
  BY FS_CardinalityType
<1>2. \E f : IsList(f)
  BY <1>1 DEF ExistsBijection, Bijection, Injection
<1>3. IsList(SetToSeq(S1))
  BY <1>2 DEF SetToSeq
<1>4. SetToSeq(S1) \in Injection(1..n, S1)
  BY <1>3 DEF Injection
<1>5. Cardinality(1..n) = n
  BY <1>1, FS_Interval
<1>6. SetToSeq(S1) \in Surjection(1..n, S1)
  BY <1>4, <1>5, FS_Injection
<1>7. \A x \in S1 : \E i \in 1..n : SetToSeq(S1)[i] = x
  BY <1>6 DEF Surjection
<1>. QED BY <1>1, <1>3, <1>7, SetToSeqType

\* Hence its last share is that of a request that names the slice, if there is one.
LEMMA SetLast ==
  ASSUME NEW S1 \in SUBSET Request, IsFiniteSet(S1), NEW n, NEW s, NEW v
  PROVE  \/ \E r \in S1 : Names(r, n, s) /\ LastShare(SetToSeq(S1), n, s, v) = r.share
         \/ /\ \A r \in S1 : ~ Names(r, n, s)
            /\ LastShare(SetToSeq(S1), n, s, v) = v
<1>. DEFINE q == SetToSeq(S1)
            I == {i \in DOMAIN q : Names(q[i], n, s)}
<1>0. /\ q \in Seq(Request)
      /\ \A i \in DOMAIN q : q[i] \in S1
      /\ \A x \in S1 : \E i \in DOMAIN q : q[i] = x
  <2>. HIDE DEF I
  <2>. QED BY ListOf
<1>. HIDE DEF q
<1>1. Len(q) \in Nat /\ DOMAIN q = 1..Len(q)
  BY <1>0
<1>2. CASE I # {}
  <2>1. I \in SUBSET (1..Len(q))
    BY <1>1
  <2>2. PICK i \in I : \A j \in I : j <= i
    BY <1>1, <1>2, <2>1, LastOf
  <2>3. LastShare(q, n, s, v) = q[i].share
    BY <1>0, <2>2, LastIs
  <2>. QED BY <1>0, <2>2, <2>3 DEF q
<1>3. CASE I = {}
  <2>1. \A i \in DOMAIN q : ~ Names(q[i], n, s)
    BY <1>3
  <2>2. LastShare(q, n, s, v) = v
    BY <2>1, NoneLast
  <2>3. \A r \in S1 : ~ Names(r, n, s)
    BY <1>0, <2>1
  <2>. QED BY <2>2, <2>3 DEF q
<1>. QED BY <1>2, <1>3

\* No request, or one.
LEMMA ShortLast ==
  ASSUME NEW r \in Request, NEW n, NEW s, NEW v
  PROVE  /\ LastShare(<<>>, n, s, v) = v
         /\ LastShare(<<r>>, n, s, v) = IF Names(r, n, s) THEN r.share ELSE v
<1>1. \A i \in DOMAIN <<>> : ~ Names(<<>>[i], n, s)
  OBVIOUS
<1>2. LastShare(<<>>, n, s, v) = v
  BY <1>1, NoneLast
<1>. DEFINE q == <<r>>
<1>3. q \in Seq(Request) /\ DOMAIN q = {1} /\ q[1] = r
  OBVIOUS
<1>. HIDE DEF q
<1>4. LastShare(q, n, s, v) = IF Names(r, n, s) THEN r.share ELSE v
  <2>1. CASE Names(r, n, s)
    <3>1. LastShare(q, n, s, v) = q[1].share
      BY <1>3, <2>1, LastIs
    <3>. QED BY <1>3, <2>1, <3>1
  <2>2. CASE ~ Names(r, n, s)
    <3>1. LastShare(q, n, s, v) = v
      BY <1>3, <2>2, NoneLast
    <3>. QED BY <2>2, <3>1
  <2>. QED BY <2>1, <2>2
<1>. QED BY <1>2, <1>4 DEF q

\* One request can name one slice.
LEMMA DeleteOne ==
  ASSUME NEW n \in NodeB, NEW s \in Slice
  PROVE  SliceDelete(n, {s}) = [meid |-> n, slices |-> {s}, share |-> NoShare]
<1>1. Cardinality({s}) = 1
  BY FS_Singleton
<1>. QED BY <1>1, DeliveryAssumption DEF SliceDelete

\* The loops over the NodeBs a slice is bound to.
LEMMA BoundLast ==
  ASSUME TypeOK, NEW s \in Slice, NEW v \in Shares, NEW n \in NodeB, NEW z \in Slice, NEW x
  PROVE  /\ LastShare(ConfigBound(s, v), n, z, x) = IF z = s /\ n \in BoundTo(s) THEN v ELSE x
         /\ LastShare(DeleteBound(s), n, z, x) = IF z = s /\ n \in BoundTo(s) THEN NoShare ELSE x
<1>. DEFINE N == BoundTo(s)
            C == {SliceConfig(k, s, v) : k \in N}
            D == {SliceDelete(k, {s}) : k \in N}
<1>1. N \in SUBSET NodeB /\ IsFiniteSet(N)
  BY FS_Subset, DeliveryAssumption DEF TypeOK, BoundTo
<1>2. C \in SUBSET Request /\ D \in SUBSET Request
  BY <1>1, RequestType
<1>3. IsFiniteSet(C)
  <2>1. [k \in N |-> SliceConfig(k, s, v)] \in Surjection(N, C)
    BY DEF Surjection
  <2>. QED BY <1>1, <2>1, FS_Surjection
<1>4. IsFiniteSet(D)
  <2>1. [k \in N |-> SliceDelete(k, {s})] \in Surjection(N, D)
    BY DEF Surjection
  <2>. QED BY <1>1, <2>1, FS_Surjection
<1>5. C = {[meid |-> k, slices |-> {s}, share |-> v] : k \in N}
  BY DEF SliceConfig
<1>6. D = {[meid |-> k, slices |-> {s}, share |-> NoShare] : k \in N}
  <2>1. \A k \in N : SliceDelete(k, {s}) = [meid |-> k, slices |-> {s}, share |-> NoShare]
    BY <1>1, DeleteOne
  <2>. QED BY <2>1
<1>7. \A r \in C \cup D : Names(r, n, z) => z = s /\ n \in N
  BY <1>5, <1>6 DEF Names
<1>8. z = s /\ n \in N => (\E r \in C : Names(r, n, z)) /\ (\E r \in D : Names(r, n, z))
  <2>1. SUFFICES ASSUME z = s, n \in N
                 PROVE  (\E r \in C : Names(r, n, z)) /\ (\E r \in D : Names(r, n, z))
    OBVIOUS
  <2>2. /\ [meid |-> n, slices |-> {s}, share |-> v] \in C
        /\ [meid |-> n, slices |-> {s}, share |-> NoShare] \in D
    BY <1>5, <1>6, <2>1
  <2>. QED BY <2>1, <2>2 DEF Names
<1>9. (\A r \in C : r.share = v) /\ (\A r \in D : r.share = NoShare)
  BY <1>5, <1>6
<1>10. LastShare(SetToSeq(C), n, z, x) = IF z = s /\ n \in N THEN v ELSE x
  <2>. HIDE DEF C, D, N
  <2>1. \/ \E r \in C : Names(r, n, z) /\ LastShare(SetToSeq(C), n, z, x) = r.share
        \/ (\A r \in C : ~ Names(r, n, z)) /\ LastShare(SetToSeq(C), n, z, x) = x
    BY <1>2, <1>3, SetLast
  <2>. QED BY <1>7, <1>8, <1>9, <2>1
<1>11. LastShare(SetToSeq(D), n, z, x) = IF z = s /\ n \in N THEN NoShare ELSE x
  <2>. HIDE DEF C, D, N
  <2>1. \/ \E r \in D : Names(r, n, z) /\ LastShare(SetToSeq(D), n, z, x) = r.share
        \/ (\A r \in D : ~ Names(r, n, z)) /\ LastShare(SetToSeq(D), n, z, x) = x
    BY <1>2, <1>4, SetLast
  <2>. QED BY <1>7, <1>8, <1>9, <2>1
<1>. QED BY <1>10, <1>11 DEF ConfigBound, DeleteBound

-----------------------------------------------------------------------------
(***************************************************************************)
(* Every operation is Registry's operation.                                *)
(***************************************************************************)

\* An operation without requests tells nobody anything.
LEMMA ToldNothing ==
  ASSUME IInv, NEW t \in Thread, Begin(t, <<>>)
  PROVE  \A n \in NodeB : Told(n)' = Told(n)
<1>1. SUFFICES ASSUME NEW n \in NodeB PROVE Told(n)' = Told(n)
  OBVIOUS
<1>2. Told(n)' = [s \in Slice |-> LastShare(<<>>, n, s, Told(n)[s])]
  BY ToldBegin, <<>> \in Seq(Request) DEF Begin
<1>3. \A s, v : LastShare(<<>>, n, s, v) = v
  BY NoneLast
<1>4. Told(n)' = [s \in Slice |-> Told(n)[s]]
  BY <1>2, <1>3
<1>5. Told(n) = [s \in Slice |-> Told(n)[s]]
  BY DEF Told
<1>. QED BY <1>4, <1>5

\* The same, of the one request of an operation.
LEMMA ToldOne ==
  ASSUME IInv, NEW t \in Thread, NEW r \in Request, Begin(t, <<r>>), NEW n \in NodeB
  PROVE  Told(n)' = [s \in Slice |-> IF Names(r, n, s) THEN r.share ELSE Told(n)[s]]
<1>1. Told(n)' = [s \in Slice |-> LastShare(<<r>>, n, s, Told(n)[s])]
  BY ToldBegin, OneRequest DEF Begin
<1>. QED BY <1>1, ShortLast

\* A refused request changes nothing of the registry but the reply.
LEMMA RefuseRefines ==
  ASSUME IInv, NEW c, Refuse(c)
  PROVE  R!Reply(c)
<1>1. \A n \in NodeB : Told(n)' = Told(n)
  BY ToldNothing DEF Refuse, Thread
<1>. QED BY <1>1 DEF Refuse, R!Reply, R!db, R!told, db

\* What App::add sends has no configuration.
LEMMA AddNodeBRefines ==
  ASSUME IInv, NEW n \in NodeB, AddNodeB(n)
  PROVE  R!AddNodeB(n)
<1>1. CASE n \in nodebs /\ Refuse(403)
  BY <1>1, RefuseRefines DEF R!AddNodeB
<1>2. CASE n \notin nodebs
  <2>. DEFINE requests == <<SliceStatus(n), Subscription(n)>>
  <2>1. /\ Lock(Rest) /\ todo' = [todo EXCEPT ![Rest] = requests]
        /\ nodebs' = nodebs \cup {n} /\ reply' = 201 /\ UNCHANGED <<slices, bound, share>>
    BY <1>2 DEF AddNodeB, Refuse
  <2>2. /\ requests \in Seq(Request) /\ DOMAIN requests = 1..2
        /\ requests[1].slices = {} /\ requests[2].slices = {}
    BY DEF SliceStatus, Subscription, Request
  <2>3. ASSUME NEW k \in NodeB PROVE Told(k)' = Told(k)
    <3>1. \A s : \A i \in DOMAIN requests : ~ Names(requests[i], k, s)
      BY <2>2 DEF Names
    <3>. HIDE DEF requests
    <3>2. Told(k)' = [s \in Slice |-> LastShare(requests, k, s, Told(k)[s])]
      BY <2>1, <2>2, ToldBegin DEF Thread
    <3>3. Told(k)' = [s \in Slice |-> Told(k)[s]]
      BY <3>1, <3>2, NoneLast
    <3>. QED BY <3>3 DEF Told
  <2>. QED BY <1>2, <2>1, <2>3 DEF R!AddNodeB, R!told
<1>. QED BY <1>1, <1>2 DEF AddNodeB

\* A new slice is bound to no NodeB.
LEMMA AddSliceRefines ==
  ASSUME IInv, NEW s \in Slice, NEW v \in Shares, AddSlice(s, v)
  PROVE  R!AddSlice(s, v)
<1>1. CASE s \in slices
  BY <1>1, RefuseRefines DEF AddSlice, R!AddSlice
<1>2. CASE s \notin slices
  <2>1. \A n \in NodeB : Told(n)' = Told(n)
    BY <1>2, ToldNothing DEF AddSlice, Thread
  <2>. QED BY <1>2, <2>1 DEF AddSlice, R!AddSlice, R!told
<1>. QED BY <1>1, <1>2

\* The loop of App::update reaches the NodeBs Registry's SendConfig names.
LEMMA UpdateSliceRefines ==
  ASSUME IInv, NEW s \in Slice, NEW v \in Shares, UpdateSlice(s, v)
  PROVE  R!UpdateSlice(s, v)
<1>1. CASE s \notin slices
  BY <1>1, RefuseRefines DEF UpdateSlice, R!UpdateSlice
<1>2. CASE s \in slices
  <2>1. Begin(Rest, ConfigBound(s, v)) /\ Rest \in Thread
    BY <1>2 DEF UpdateSlice, Thread
  <2>2. ASSUME NEW n \in NodeB
        PROVE  Told(n)' = IF n \in BoundTo(s) THEN [Told(n) EXCEPT ![s] = v] ELSE Told(n)
    <3>1. ConfigBound(s, v) \in Seq(Request)
      BY BoundType DEF IInv
    <3>2. Told(n)' = [z \in Slice |-> LastShare(ConfigBound(s, v), n, z, Told(n)[z])]
      BY <2>1, <3>1, ToldBegin DEF Begin
    <3>3. Told(n)' = [z \in Slice |-> IF z = s /\ n \in BoundTo(s) THEN v ELSE Told(n)[z]]
      BY <3>2, BoundLast DEF IInv
    <3>. QED BY <3>3 DEF Told
  <2>. QED BY <1>2, <2>2 DEF UpdateSlice, R!UpdateSlice, R!SendConfig, R!BoundTo, BoundTo
<1>. QED BY <1>1, <1>2

\* A NodeB told to drop slices is Registry's SendDelete.
LEMMA SendDeleteIs ==
  ASSUME NEW N, NEW S,
         \A n \in NodeB : Told(n)' = [s \in Slice |->
                            IF n \in N /\ s \in S THEN NoShare ELSE Told(n)[s]]
  PROVE  R!SendDelete(N, S)
<1>1. [n \in NodeB |-> Told(n)'] =
        [n \in NodeB |-> [s \in Slice |->
           IF n \in N /\ s \in S THEN NoShare ELSE [k \in NodeB |-> Told(k)][n][s]]]
  OBVIOUS
<1>2. [n \in NodeB |-> {}] =
        [n \in NodeB |-> IF n \in N THEN {p \in [k \in NodeB |-> {}][n] : p[1] \notin S}
                                    ELSE [k \in NodeB |-> {}][n]]
  OBVIOUS
<1>. QED BY <1>1, <1>2 DEF R!SendDelete, R!NoShare, NoShare

\* Those that are bound are told to drop the slice, and no other.
LEMMA DelSliceRefines ==
  ASSUME IInv, NEW s \in Slice, DelSlice(s)
  PROVE  R!DelSlice(s)
<1>1. CASE s \notin slices
  BY <1>1, RefuseRefines DEF DelSlice, R!DelSlice
<1>2. CASE s \in slices
  <2>1. Begin(Rest, DeleteBound(s)) /\ Rest \in Thread
    BY <1>2 DEF DelSlice, Thread
  <2>2. ASSUME NEW n \in NodeB
        PROVE  Told(n)' = [z \in Slice |-> IF n \in BoundTo(s) /\ z \in {s} THEN NoShare
                                           ELSE Told(n)[z]]
    <3>1. DeleteBound(s) \in Seq(Request)
      BY BoundType, DeliveryAssumption DEF IInv
    <3>2. Told(n)' = [z \in Slice |-> LastShare(DeleteBound(s), n, z, Told(n)[z])]
      BY <2>1, <3>1, ToldBegin DEF Begin
    <3>. QED BY <3>2, BoundLast, DeliveryAssumption DEF IInv
  <2>3. R!SendDelete(R!BoundTo(s), {s})
    BY <2>2, SendDeleteIs DEF R!BoundTo, BoundTo
  <2>4. /\ slices' = slices \ {s} /\ share' = [share EXCEPT ![s] = R!NoShare]
        /\ reply' = 200 /\ UNCHANGED <<nodebs, bound>>
    BY <1>2 DEF DelSlice, R!NoShare, NoShare
  <2>5. [z \in Slice |-> {}] = [[z \in Slice |-> {}] EXCEPT ![s] = {}]
    OBVIOUS
  <2>6. \A f : [u \in {} |-> f[u]] = [u \in {} |-> NoSlice]
    OBVIOUS
  <2>7. [u \in {} |-> NoSlice] = [u \in {} |-> IF u \in [z \in Slice |-> {}][s] THEN NoSlice ELSE [k \in {} |-> ""][u]]
    OBVIOUS
  <2>. QED BY <1>2, <2>3, <2>4, <2>5, <2>7 DEF R!DelSlice
<1>. QED BY <1>1, <1>2

\* Both modules count alike.
LEMMA SameCardinality == ASSUME NEW S PROVE R!Cardinality(S) = Cardinality(S)
BY DEF R!Cardinality, Cardinality, R!IsFiniteSet, IsFiniteSet

\* One request names every slice the NodeB has; with none there is no request.
LEMMA DelNodeBRefines ==
  ASSUME IInv, NEW n \in NodeB, DelNodeB(n)
  PROVE  R!DelNodeB(n)
<1>1. CASE n \notin nodebs
  BY <1>1, RefuseRefines DEF DelNodeB, R!DelNodeB
<1>2. CASE n \in nodebs
  <2>. DEFINE r == SliceDelete(n, bound[n])
  <2>1. /\ Begin(Rest, IF bound[n] = {} THEN <<>> ELSE <<r>>) /\ Rest \in Thread
        /\ nodebs' = nodebs \ {n} /\ bound' = [bound EXCEPT ![n] = {}]
        /\ reply' = 200 /\ UNCHANGED <<slices, share>>
    BY <1>2 DEF DelNodeB, Thread
  <2>2. r \in Request /\ bound[n] \in SUBSET Slice
    BY RequestType, DeliveryAssumption DEF IInv, TypeOK
  <2>3. CASE bound[n] = {}
    <3>1. \A k \in NodeB : Told(k)' = Told(k)
      BY <2>1, <2>3, ToldNothing
    <3>2. \A k \in NodeB : Told(k)' = [s \in Slice |-> IF k \in {n} /\ s \in bound[n] THEN NoShare
                                                        ELSE Told(k)[s]]
      BY <2>3, <3>1 DEF Told
    <3>3. R!SendDelete({n}, bound[n])
      BY <3>2, SendDeleteIs
    <3>4. Cardinality(bound[n]) <= MaxOfSlices
      BY <2>3, FS_EmptySet, DeliveryAssumption
    <3>. QED BY <1>2, <2>1, <3>3, <3>4, SameCardinality DEF R!DelNodeB
  <2>4. CASE bound[n] # {}
    <3>1. Begin(Rest, <<r>>)
      BY <2>1, <2>4
    <3>. HIDE DEF r
    <3>2. ASSUME NEW k \in NodeB
          PROVE  Told(k)' = [s \in Slice |-> IF Names(r, k, s) THEN r.share ELSE Told(k)[s]]
      BY <2>1, <2>2, <3>1, ToldOne
    <3>3. CASE Cardinality(bound[n]) <= MaxOfSlices
      <4>1. r = [meid |-> n, slices |-> bound[n], share |-> NoShare]
        BY <3>3 DEF r, SliceDelete
      <4>2. \A k \in NodeB : Told(k)' = [s \in Slice |-> IF k \in {n} /\ s \in bound[n]
                                                          THEN NoShare ELSE Told(k)[s]]
        BY <3>2, <4>1 DEF Names
      <4>3. R!SendDelete({n}, bound[n])
        BY <4>2, SendDeleteIs
      <4>. QED BY <1>2, <2>1, <3>3, <4>3, SameCardinality DEF R!DelNodeB
    <3>4. CASE ~ (Cardinality(bound[n]) <= MaxOfSlices)
      <4>1. r.slices = {}
        BY <3>4 DEF r, SliceDelete
      <4>2. \A k \in NodeB : Told(k)' = Told(k)
        BY <3>2, <4>1 DEF Names, Told
      <4>. QED BY <1>2, <2>1, <3>4, <4>2, SameCardinality DEF R!DelNodeB, R!told
    <3>. QED BY <3>3, <3>4
  <2>. QED BY <2>3, <2>4
<1>. QED BY <1>1, <1>2

\* A binding tells the NodeB the slice's share.
LEMMA BindSliceNodeBRefines ==
  ASSUME IInv, NEW s \in Slice, NEW n \in NodeB, BindSliceNodeB(s, n)
  PROVE  R!BindSliceNodeB(s, n)
<1>1. CASE s \notin slices \/ n \notin nodebs
  BY <1>1, RefuseRefines DEF BindSliceNodeB, R!BindSliceNodeB
<1>2. CASE s \in slices /\ n \in nodebs /\ s \in bound[n]
  BY <1>2, RefuseRefines DEF BindSliceNodeB, R!BindSliceNodeB
<1>3. CASE s \in slices /\ n \in nodebs /\ s \notin bound[n]
  <2>. DEFINE r == SliceConfig(n, s, share[s])
  <2>1. /\ Begin(Rest, <<r>>) /\ Rest \in Thread
        /\ bound' = [bound EXCEPT ![n] = @ \cup {s}]
        /\ reply' = 200 /\ UNCHANGED <<nodebs, slices, share>>
    BY <1>3 DEF BindSliceNodeB, Thread
  <2>2. r \in Request
    BY DEF SliceConfig, Request, IInv, TypeOK
  <2>3. ASSUME NEW k \in NodeB
        PROVE  Told(k)' = [z \in Slice |-> IF Names(r, k, z) THEN r.share ELSE Told(k)[z]]
    <3>. HIDE DEF r
    <3>. QED BY <2>1, <2>2, ToldOne
  <2>4. ASSUME NEW k \in NodeB
        PROVE  Told(k)' = IF k \in {n} THEN [Told(k) EXCEPT ![s] = share[s]] ELSE Told(k)
    BY <2>3 DEF SliceConfig, Names, Told
  <2>. QED BY <1>3, <2>1, <2>4 DEF R!BindSliceNodeB, R!SendConfig
<1>. QED BY <1>1, <1>2, <1>3

\* Unbinding tells it to drop the slice.
LEMMA UnbindSliceNodeBRefines ==
  ASSUME IInv, NEW s \in Slice, NEW n \in NodeB, UnbindSliceNodeB(s, n)
  PROVE  R!UnbindSliceNodeB(s, n)
<1>1. CASE s \notin slices \/ n \notin nodebs \/ s \notin bound[n]
  BY <1>1, RefuseRefines DEF UnbindSliceNodeB, R!UnbindSliceNodeB
<1>2. CASE s \in slices /\ n \in nodebs /\ s \in bound[n]
  <2>. DEFINE r == SliceDelete(n, {s})
  <2>1. /\ Begin(Rest, <<r>>) /\ Rest \in Thread
        /\ bound' = [bound EXCEPT ![n] = @ \ {s}]
        /\ reply' = 200 /\ UNCHANGED <<nodebs, slices, share>>
    BY <1>2 DEF UnbindSliceNodeB, Thread
  <2>2. r \in Request /\ r = [meid |-> n, slices |-> {s}, share |-> NoShare]
    BY RequestType, DeleteOne, DeliveryAssumption
  <2>3. ASSUME NEW k \in NodeB
        PROVE  Told(k)' = [z \in Slice |-> IF Names(r, k, z) THEN r.share ELSE Told(k)[z]]
    <3>. HIDE DEF r
    <3>. QED BY <2>1, <2>2, ToldOne
  <2>4. ASSUME NEW k \in NodeB
        PROVE  Told(k)' = [z \in Slice |-> IF k \in {n} /\ z \in {s} THEN NoShare
                                           ELSE Told(k)[z]]
    <3>1. r.meid = n /\ r.slices = {s} /\ r.share = NoShare
      BY <2>2
    <3>. HIDE DEF r
    <3>. QED BY <2>3, <3>1 DEF Names
  <2>5. R!SendDelete({n}, {s})
    BY <2>4, SendDeleteIs
  <2>. QED BY <1>2, <2>1, <2>5 DEF R!UnbindSliceNodeB
<1>. QED BY <1>1, <1>2

\* The closed loop tells each NodeB of the slices it has whose share changed.
LEMMA KpmIndicationRefines ==
  ASSUME IInv, KpmIndication
  PROVE  R!KpmIndication
<1>1. PICK new \in [slices -> {v \in Shares : v >= MinShare}] :
        LET changed == {p \in slices \X nodebs :
                          p[1] \in bound[p[2]] /\ new[p[1]] # share[p[1]]}
        IN
        /\ Begin(Rmr, SetToSeq({SliceConfig(p[2], p[1], new[p[1]]) : p \in changed}))
        /\ share' = [s \in Slice |-> IF s \in slices THEN new[s] ELSE share[s]]
        /\ UNCHANGED <<nodebs, slices, bound, reply>>
  BY DEF KpmIndication
<1>. DEFINE changed == {p \in slices \X nodebs :
                          p[1] \in bound[p[2]] /\ new[p[1]] # share[p[1]]}
            R1 == {SliceConfig(p[2], p[1], new[p[1]]) : p \in changed}
<1>2. IsFiniteSet(changed)
  <2>1. IsFiniteSet(slices) /\ IsFiniteSet(nodebs)
    BY FS_Subset, DeliveryAssumption DEF IInv, TypeOK
  <2>2. IsFiniteSet(slices \X nodebs)
    BY <2>1, FS_Product
  <2>. QED BY <2>2, FS_Subset
<1>3. IsFiniteSet(R1)
  <2>1. [p \in changed |-> SliceConfig(p[2], p[1], new[p[1]])] \in Surjection(changed, R1)
    BY DEF Surjection
  <2>. QED BY <1>2, <2>1, FS_Surjection
<1>4. R1 \in SUBSET Request
  BY DEF SliceConfig, Request, IInv, TypeOK
<1>5. SetToSeq(R1) \in Seq(Request)
  BY <1>3, <1>4, SetToSeqType
<1>6. ASSUME NEW n \in NodeB, NEW s \in Slice
      PROVE  Told(n)'[s] = IF s \in slices /\ n \in BoundTo(s) /\ new[s] # share[s]
                           THEN new[s] ELSE Told(n)[s]
  <2>1. Told(n)'[s] = LastShare(SetToSeq(R1), n, s, Told(n)[s])
    <3>. HIDE DEF R1
    <3>1. Lock(Rmr) /\ todo' = [todo EXCEPT ![Rmr] = SetToSeq(R1)] /\ Rmr \in Thread
      BY <1>1 DEF Begin, Thread, R1
    <3>2. Told(n)' = [z \in Slice |-> LastShare(SetToSeq(R1), n, z, Told(n)[z])]
      BY <1>5, <3>1, ToldBegin
    <3>. QED BY <3>2
  <2>2. \/ \E r \in R1 : Names(r, n, s) /\ LastShare(SetToSeq(R1), n, s, Told(n)[s]) = r.share
        \/ /\ \A r \in R1 : ~ Names(r, n, s)
           /\ LastShare(SetToSeq(R1), n, s, Told(n)[s]) = Told(n)[s]
    <3>. HIDE DEF R1
    <3>. QED BY <1>3, <1>4, SetLast
  <2>3. \A r \in R1 : Names(r, n, s) => /\ s \in slices /\ n \in BoundTo(s)
                                        /\ new[s] # share[s] /\ r.share = new[s]
    BY DEF Names, SliceConfig, BoundTo
  <2>4. s \in slices /\ n \in BoundTo(s) /\ new[s] # share[s] => \E r \in R1 : Names(r, n, s)
    <3>1. SUFFICES ASSUME s \in slices, n \in BoundTo(s), new[s] # share[s]
                   PROVE  SliceConfig(n, s, new[s]) \in R1 /\ Names(SliceConfig(n, s, new[s]), n, s)
      OBVIOUS
    <3>2. <<s, n>> \in changed
      BY <3>1 DEF BoundTo
    <3>3. \A p \in changed : SliceConfig(p[2], p[1], new[p[1]]) \in R1
      OBVIOUS
    <3>. HIDE DEF changed, R1
    <3>4. SliceConfig(n, s, new[s]) \in R1
      BY <3>2, <3>3
    <3>. QED BY <3>4 DEF Names, SliceConfig
  <2>. QED BY <2>1, <2>2, <2>3, <2>4
<1>7. ASSUME NEW n \in NodeB
      PROVE  Told(n)' = [s \in Slice |-> IF s \in slices /\ n \in BoundTo(s) /\ new[s] # share[s]
                                         THEN new[s] ELSE Told(n)[s]]
  BY <1>6 DEF Told
<1>8. [n \in NodeB |-> Told(n)'] =
        [n \in NodeB |-> [s \in Slice |->
           IF s \in slices /\ n \in R!BoundTo(s) /\ new[s] # share[s]
           THEN new[s] ELSE [k \in NodeB |-> Told(k)][n][s]]]
  BY <1>7 DEF R!BoundTo, BoundTo
<1>. QED BY <1>1, <1>8 DEF R!KpmIndication, R!MinShare, MinShare

-----------------------------------------------------------------------------
(***************************************************************************)
(* The theorems.                                                           *)
(***************************************************************************)

\* App::init is Registry's initial state.
LEMMA InitRefines == Init => R!Init
<1>. SUFFICES ASSUME Init PROVE R!Init
  OBVIOUS
<1>1. \A n \in NodeB : \A s, v :
        /\ LastShare(chan[n], n, s, v) = v
        /\ LastShare(todo[Rest], n, s, v) = v
        /\ LastShare(todo[Rmr], n, s, v) = v
  BY NoneLast DEF Init, Thread
<1>2. \A n \in NodeB : Told(n) = [s \in Slice |-> NoShare]
  BY <1>1 DEF Told, Init
<1>3. \A u \in {} : FALSE
  OBVIOUS
<1>. QED
  BY <1>2 DEF Init, R!Init, R!NoShare, NoShare, R!DefaultShare, DefaultShare

\* A step of a thread, of the network or of a NodeB is a step of Registry, or
\* changes nothing Registry sees.
LEMMA NextRefines == RInv /\ IdsFit /\ [Next]_vars => [R!Next]_(R!vars)
<1>. SUFFICES ASSUME RInv, IdsFit, [Next]_vars PROVE R!Next \/ UNCHANGED R!vars
  OBVIOUS
<1>i. IInv
  BY DEF RInv
<1>1. CASE UNCHANGED vars
  <2>1. \A n \in NodeB : Told(n)' = Told(n)
    BY <1>1 DEF vars, Told
  <2>. QED BY <1>1, <2>1 DEF vars, R!vars
<1>2. CASE Northbound
  BY <1>i, <1>2, AddNodeBRefines, DelNodeBRefines, AddSliceRefines, UpdateSliceRefines,
     DelSliceRefines, BindSliceNodeBRefines, UnbindSliceNodeBRefines
  DEF Northbound, R!Next
<1>3. CASE KpmIndication
  BY <1>i, <1>3, KpmIndicationRefines DEF R!Next
<1>4. ASSUME NEW t \in Thread, Send(t) PROVE UNCHANGED R!vars
  <2>1. \A n \in NodeB : Told(n)' = Told(n)
    BY <1>4, ToldSend
  <2>. QED BY <1>4, <2>1 DEF Send, db, R!vars
<1>5. ASSUME NEW t \in Thread, Unlock(t) PROVE UNCHANGED R!vars
  <2>1. \A n \in NodeB : Told(n)' = Told(n)
    BY <1>5 DEF Unlock, Told
  <2>. QED BY <1>5, <2>1 DEF Unlock, db, R!vars
<1>6. ASSUME NEW n \in NodeB, Deliver(n) PROVE UNCHANGED R!vars
  <2>1. \A k \in NodeB : Told(k)' = Told(k)
    BY <1>6, ToldDeliver
  <2>. QED BY <1>6, <2>1 DEF Deliver, db, R!vars
<1>. QED BY <1>1, <1>2, <1>3, <1>4, <1>5, <1>6 DEF Next

\* What is on its way stays addressed to the NodeB it is on its way to.
LEMMA RInvariance == Spec => []RInv
<1>1. Init => RInv
  <2>1. Init => Addressed
    BY DEF Init, Addressed
  <2>. QED BY <2>1, InitInv DEF RInv
<1>2. RInv /\ [Next]_vars => RInv'
  BY NextInv, AddressedStep DEF RInv
<1>. QED BY <1>1, <1>2, PTL DEF Spec

\* For any number of NodeBs, slices and requests on the way: as long as instance
\* ids fit, what two threads send one by one under App.mutex takes each NodeB
\* through the configurations Registry says it is told, in the same order.
THEOREM RegistryImplemented ==
  ASSUME IdsFit
  PROVE  Spec => ImplementsRegistry
<1>1. RInv /\ [Next]_vars => [R!Next]_(R!vars)
  BY NextRefines
<1>. QED BY <1>1, InitRefines, RInvariance, PTL DEF Spec, ImplementsRegistry, R!Spec

(***************************************************************************)
(* Hence what is proved of Registry holds of what the NodeBs are headed    *)
(* for, and of what they run once it has arrived.                          *)
(***************************************************************************)

P == INSTANCE RegistryProofs WITH
       Ue <- {}, ues <- {},
       members <- [s \in Slice |-> {}], boundSlice <- [u \in {} |-> NoSlice],
       nbShare <- [n \in NodeB |-> Told(n)], nbUes <- [n \in NodeB |-> {}]

\* RegistryProofs is about the same specification.
LEMMA SameRegistry ==
  R!Init = P!Init /\ R!Next = P!Next /\ R!vars = P!vars
<1>1. R!Init = P!Init
  BY DEF R!Init, P!Init, R!NoShare, P!NoShare, R!DefaultShare, P!DefaultShare
<1>2. R!Next = P!Next
  BY Zenon
  DEF R!AddNodeB, P!AddNodeB, R!UpdateNodeB, P!UpdateNodeB, R!DelNodeB, P!DelNodeB,
      R!AddSlice, P!AddSlice, R!UpdateSlice, P!UpdateSlice, R!DelSlice, P!DelSlice,
      R!AddUe, P!AddUe, R!UpdateUe, P!UpdateUe, R!UpdateUeImsi, P!UpdateUeImsi,
      R!DelUe, P!DelUe, R!BindSliceNodeB, P!BindSliceNodeB, R!UnbindSliceNodeB,
      P!UnbindSliceNodeB, R!BindUeSlice, P!BindUeSlice, R!UnbindUeSlice,
      P!UnbindUeSlice, R!Malformed, P!Malformed, R!Read, P!Read, R!Get, P!Get,
      R!GetAll, P!GetAll, R!KpmIndication, P!KpmIndication, R!Reply, P!Reply, R!db,
      P!db, R!told, P!told, R!BoundTo, P!BoundTo, R!SendConfig, P!SendConfig,
      R!SendDelete, P!SendDelete, R!SendUeBind, P!SendUeBind, R!SendUeUnbind,
      P!SendUeUnbind, R!EraseUe, P!EraseUe, R!Cardinality, P!Cardinality,
      R!IsFiniteSet, P!IsFiniteSet, R!NoShare, P!NoShare, R!MinShare, P!MinShare,
      R!Next, P!Next
<1>3. R!vars = P!vars
  BY DEF R!vars, P!vars
<1>. QED BY <1>1, <1>2, <1>3

\* What was told to a NodeB with nothing on its way is what it runs.
LEMMA QuietTold ==
  ASSUME IInv, NEW n \in NodeB, Quiet(n)
  PROVE  Told(n) = ran[n]
<1>1. \A s, v : /\ LastShare(chan[n], n, s, v) = v
                /\ LastShare(todo[Rest], n, s, v) = v
                /\ LastShare(todo[Rmr], n, s, v) = v
  BY NoneLast DEF Quiet, Thread
<1>2. Told(n) = [s \in Slice |-> ran[n][s]]
  BY <1>1 DEF Told
<1>. QED BY <1>2 DEF IInv, TypeOK

\* For any number of NodeBs and slices, as long as instance ids fit and one
\* delete request can name every slice: a NodeB with nothing on its way runs
\* only slices bound to it, with the shares the registry shows.
THEOREM NodeBsRunTheRegistry ==
  ASSUME IdsFit, R!SlicesFit
  PROVE  Spec => []RunsTheRegistry
<1>1. P!SlicesFit
  BY SameCardinality DEF R!SlicesFit, P!SlicesFit, R!Cardinality, P!Cardinality,
       R!IsFiniteSet, P!IsFiniteSet
<1>2. P!RegistryAssumption
  BY DeliveryAssumption DEF P!RegistryAssumption, P!DefaultShare, DefaultShare
<1>3. Spec => P!Spec
  <2>1. R!Init => P!Init
    BY SameRegistry
  <2>2. [R!Next]_(R!vars) => [P!Next]_(P!vars)
    BY SameRegistry DEF R!vars, P!vars
  <2>. QED BY <2>1, <2>2, RegistryImplemented, PTL DEF ImplementsRegistry, R!Spec, P!Spec
<1>4. P!Spec => []P!NoOrphanConfig
  BY <1>1, <1>2, P!ConfigMatchesBindings DEF P!RegistryAssumption
<1>5. P!Spec => []P!ToldShareCurrent
  BY <1>1, <1>2, P!ConfigIsCurrent DEF P!RegistryAssumption
<1>6. IInv /\ P!NoOrphanConfig /\ P!ToldShareCurrent => RunsTheRegistry
  BY QuietTold
  DEF RunsTheRegistry, P!NoOrphanConfig, P!ToldShareCurrent, P!NoShare, NoShare
<1>. QED BY <1>3, <1>4, <1>5, <1>6, Invariance, PTL

=============================================================================
