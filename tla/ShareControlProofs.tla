-------------------------- MODULE ShareControlProofs --------------------------
(***************************************************************************)
(* Proofs about ShareControl, for any slices, shares, traffic, period,     *)
(* threshold and bounds that satisfy ShareControlAssumption.               *)
(***************************************************************************)
EXTENDS ShareControl, FiniteSums

Metric == [time : Nat, bytes : Nat]

(* The index of a policy *)

\* flush pops some number of metrics.
LEMMA PoppedCount ==
  ASSUME NEW q \in Seq(Metric)
  PROVE  /\ Popped(q) \in 0..Len(q)
         /\ \A i \in 1..Popped(q) : Old(q[i])
         /\ Popped(q) < Len(q) => ~Old(q[Popped(q) + 1])
<1> DEFINE Ok(n) == /\ \A i \in 1..n : Old(q[i])
                    /\ n < Len(q) => ~Old(q[n + 1])
           R == {i \in 1..Len(q) : ~Old(q[i])}
<1>1. \E n \in 0..Len(q) : Ok(n)
  <2>1. CASE R = {}
    <3>1. Ok(Len(q))
      BY <2>1
    <3>2. QED
      BY <3>1
  <2>2. CASE R # {}
    <3>1. PICK k \in R : \A i \in R : k <= i
      <4>1. R \subseteq Nat
        OBVIOUS
      <4> HIDE DEF R
      <4>2. QED
        BY <2>2, <4>1, LeastNatural
    <3>2. k - 1 \in 0..Len(q) /\ Ok(k - 1)
      BY <3>1
    <3>3. QED
      BY <3>2
  <2>3. QED
    BY <2>1, <2>2
<1>2. Popped(q) = CHOOSE n \in 0..Len(q) : Ok(n)
  BY DEF Popped
<1>3. Popped(q) \in 0..Len(q) /\ Ok(Popped(q))
  <2> HIDE DEF Ok
  <2> QED BY <1>1, <1>2
<1>4. QED
  BY <1>3

LEMMA QueueFacts ==
  ASSUME NEW q \in Seq(Metric)
  PROVE  /\ Len(q) \in Nat
         /\ DOMAIN q = 1..Len(q)
         /\ IsFiniteSet(1..Len(q))
         /\ \A i \in 1..Len(q) : q[i] \in Metric /\ q[i].bytes \in Nat /\ q[i].time \in Nat
<1>1. Len(q) \in Nat /\ DOMAIN q = 1..Len(q) /\ \A i \in 1..Len(q) : q[i] \in Metric
  OBVIOUS
<1>2. \A m \in Metric : m.bytes \in Nat /\ m.time \in Nat
  BY DEF Metric
<1>3. IsFiniteSet(1..Len(q))
  BY <1>1, FS_Interval
<1>4. QED
  BY <1>1, <1>2, <1>3

LEMMA BytesNat ==
  ASSUME NEW q \in Seq(Metric), NEW I \in SUBSET DOMAIN q
  PROVE  BytesOver(q, I) \in Nat
<1>1. IsFiniteSet(I)
  BY QueueFacts, FS_Subset
<1>2. \A i \in I : [j \in DOMAIN q |-> q[j].bytes][i] \in Nat
  BY QueueFacts
<1>3. QED
  BY <1>1, <1>2, SumNat DEF BytesOver

\* The bytes of a queue are those of its first n metrics and those of the rest.
LEMMA BytesSuffix ==
  ASSUME NEW q \in Seq(Metric), NEW n \in 0..Len(q)
  PROVE  BytesOf(q) = BytesOver(q, 1..n) + BytesOf(SubSeq(q, n + 1, Len(q)))
<1> DEFINE f == [i \in DOMAIN q |-> q[i].bytes]
           w == SubSeq(q, n + 1, Len(q))
           g == [i \in DOMAIN w |-> w[i].bytes]
           b == [i \in DOMAIN w |-> i + n]
<1>1. /\ DOMAIN q = 1..Len(q) /\ IsFiniteSet(1..Len(q))
      /\ \A i \in 1..Len(q) : f[i] \in Int
  BY QueueFacts
<1>2. /\ w \in Seq(Metric) /\ DOMAIN w = 1..(Len(q) - n)
      /\ \A i \in DOMAIN w : w[i] = q[i + n]
  OBVIOUS
<1>3. IsFiniteSet(DOMAIN w)
  BY <1>2, FS_Interval
<1>4. SumFunctionOnSet(f, 1..Len(q)) =
        SumFunctionOnSet(f, 1..n) + SumFunctionOnSet(f, (1..Len(q)) \ (1..n))
  <2>1. 1..n \in SUBSET (1..Len(q))
    OBVIOUS
  <2> HIDE DEF f
  <2>2. QED
    BY <1>1, <2>1, SumParts
<1>5. SumFunctionOnSet(g, DOMAIN w) = SumFunctionOnSet(f, {b[i] : i \in DOMAIN w})
  <2>1. \A i \in DOMAIN w : g[i] \in Int /\ g[i] = f[b[i]]
    <3> HIDE DEF w
    <3>1. \A i \in DOMAIN w : i + n \in 1..Len(q)
      BY <1>2
    <3>2. \A i \in DOMAIN w : f[b[i]] = q[i + n].bytes /\ g[i] = q[i + n].bytes
      BY <1>1, <1>2, <3>1
    <3>3. \A i \in DOMAIN w : q[i + n].bytes \in Nat
      BY <3>1, QueueFacts
    <3> HIDE DEF f, g, b
    <3>4. QED
      BY <3>2, <3>3
  <2>2. \A i, j \in DOMAIN w : b[i] = b[j] => i = j
    BY <1>2
  <2> HIDE DEF f, g, b, w
  <2>3. QED
    BY <1>3, <2>1, <2>2, SumRenamed
<1>6. {b[i] : i \in DOMAIN w} = (1..Len(q)) \ (1..n)
  <2>1. ASSUME NEW j \in (1..Len(q)) \ (1..n)
        PROVE  j - n \in DOMAIN w /\ b[j - n] = j
    BY <1>2
  <2>2. \A i \in DOMAIN w : b[i] \in (1..Len(q)) \ (1..n)
    BY <1>2
  <2> HIDE DEF b, w
  <2>3. QED
    BY <2>1, <2>2
<1>7. QED
  BY <1>1, <1>4, <1>5, <1>6 DEF BytesOf, BytesOver

LEMMA BytesAppend ==
  ASSUME NEW q \in Seq(Metric), NEW m \in Metric
  PROVE  BytesOf(Append(q, m)) = BytesOf(q) + m.bytes
<1> DEFINE w == Append(q, m)
           f == [i \in DOMAIN q |-> q[i].bytes]
           g == [i \in DOMAIN w |-> w[i].bytes]
           n == Len(q) + 1
<1>1. /\ DOMAIN q = 1..Len(q) /\ DOMAIN w = 1..n /\ n \in Nat
      /\ w[n] = m /\ \A i \in 1..Len(q) : w[i] = q[i]
      /\ w \in Seq(Metric)
      /\ IsFiniteSet(1..n) /\ IsFiniteSet(1..Len(q))
  <2>1. Len(q) \in Nat /\ DOMAIN q = 1..Len(q) /\ n \in Nat
    OBVIOUS
  <2>2. w \in Seq(Metric) /\ Len(w) = n /\ DOMAIN w = 1..n
    OBVIOUS
  <2>3. w[n] = m /\ \A i \in 1..Len(q) : w[i] = q[i]
    OBVIOUS
  <2>4. QED
    BY <2>1, <2>2, <2>3, FS_Interval
<1>2. SumFunctionOnSet(g, 1..n) = g[n] + SumFunctionOnSet(g, (1..n) \ {n})
  <2>1. n \in 1..n /\ \A i \in 1..n : g[i] \in Int
    <3> HIDE DEF w
    <3> QED BY <1>1, QueueFacts
  <2> HIDE DEF g, n
  <2>2. QED
    BY <1>1, <2>1, SumRemove
<1>3. (1..n) \ {n} = 1..Len(q)
  OBVIOUS
<1>4. SumFunctionOnSet(g, (1..n) \ {n}) = SumFunctionOnSet(f, 1..Len(q))
  <2>1. \A i \in 1..Len(q) : g[i] = f[i]
    BY <1>1
  <2> HIDE DEF f, g, n
  <2>2. SumFunctionOnSet(g, 1..Len(q)) = SumFunctionOnSet(f, 1..Len(q))
    BY <1>1, <2>1, SumAgree
  <2>3. QED
    BY <1>3, <2>2, Zenon
<1>5. g[n] = m.bytes /\ m.bytes \in Nat
  <2>1. n \in 1..n
    OBVIOUS
  <2> HIDE DEF w, n
  <2>2. QED
    BY <1>1, <2>1 DEF Metric
<1>6. BytesOf(q) \in Nat
  BY BytesNat DEF BytesOf
<1>7. BytesOf(q) = SumFunctionOnSet(f, 1..Len(q)) /\ BytesOf(w) = SumFunctionOnSet(g, 1..n)
  <2> HIDE DEF w, n
  <2> QED BY <1>1 DEF BytesOf, BytesOver
<1>8. BytesOf(w) = BytesOf(q) + m.bytes
  <2> HIDE DEF f, g, n, w
  <2> QED BY <1>2, <1>4, <1>5, <1>6, <1>7
<1>9. QED
  BY <1>8

-----------------------------------------------------------------------------
(* The invariant *)

\* What TypeOK and TotalIsQueued say of one policy, and that its metrics are not of
\* the future: without that, the next one would not come last in the order of time.
Good(p) ==
  /\ p \in Policy
  /\ p.throttling <=> p.saved # NotSaved
  /\ p.throttling <=> p.end # 0
  /\ \A i \in 2..Len(p.queue) : p.queue[i - 1].time <= p.queue[i].time
  /\ \A i \in 1..Len(p.queue) : p.queue[i].time <= now
  /\ p.total = BytesOf(p.queue)

\* The db holds a finite number of slices: sums over them make sense.
IInv ==
  /\ now \in 0..MaxTime /\ reports \in 0..MaxReports
  /\ slices \subseteq Slice /\ IsFiniteSet(slices)
  /\ \A s \in slices : Good(policy[s])

\* All but the index is left as it is.
SameState(p, p2) ==
  /\ p2.share = p.share /\ p2.auto = p.auto /\ p2.throttle = p.throttle
  /\ p2.throttling = p.throttling /\ p2.end = p.end /\ p2.saved = p.saved

Flushed(p) == \A i \in 1..Len(p.queue) : ~Old(p.queue[i])

-----------------------------------------------------------------------------
(* Adding and flushing keep a policy good *)

\* In the order of time there is no old metric behind one that is not.
LEMMA RestIsRecent ==
  ASSUME now \in Nat, NEW q \in Seq(Metric), NEW n \in 0..Len(q),
         \A i \in 2..Len(q) : q[i - 1].time <= q[i].time,
         n < Len(q) => ~Old(q[n + 1])
  PROVE  \A i \in (n + 1)..Len(q) : ~Old(q[i])
<1> DEFINE R == {i \in (n + 1)..Len(q) : Old(q[i])}
<1>1. SUFFICES ASSUME R # {} PROVE FALSE
  OBVIOUS
<1>2. PICK k \in R : \A i \in R : k <= i
  <2>1. R \subseteq Nat
    OBVIOUS
  <2> HIDE DEF R
  <2>2. QED
    BY <1>1, <2>1, LeastNatural
<1>3. k - 1 \in (n + 1)..Len(q) /\ k \in 2..Len(q) /\ ~Old(q[k - 1])
  <2>1. k # n + 1
    BY <1>2
  <2>2. k - 1 \in (n + 1)..Len(q) /\ k \in 2..Len(q)
    BY <1>2, <2>1
  <2>3. QED
    BY <1>2, <2>2
<1>4. q[k - 1].time <= q[k].time
  BY <1>3
<1>5. q[k - 1].time \in Nat /\ q[k].time \in Nat /\ Period \in Nat
  <2>1. k - 1 \in 1..Len(q) /\ k \in 1..Len(q)
    BY <1>3
  <2>2. QED
    BY <2>1, QueueFacts, ShareControlAssumption
<1>6. Old(q[k])
  BY <1>2
<1>7. QED
  BY <1>3, <1>4, <1>5, <1>6 DEF Old

LEMMA FlushGood ==
  ASSUME now \in Nat, NEW p, Good(p)
  PROVE  Good(Flush(p)) /\ SameState(p, Flush(p)) /\ Flushed(Flush(p))
<1> DEFINE q == p.queue
           n == Popped(q)
           w == SubSeq(q, n + 1, Len(q))
           t == p.total - BytesOver(q, 1..n)
<1>1. q \in Seq(Metric) /\ p \in Policy
  BY DEF Good, Policy, Metric
<1>2. n \in 0..Len(q) /\ (n < Len(q) => ~Old(q[n + 1]))
  <2> HIDE DEF q
  <2> QED BY <1>1, PoppedCount
<1>3. /\ Flush(p).queue = w /\ Flush(p).total = t
      /\ SameState(p, Flush(p))
      /\ t \in Nat /\ w \in Seq(Metric) => Flush(p) \in Policy
  <2> HIDE DEF n, w, t
  <2>1. Flush(p) = [p EXCEPT !.queue = w, !.total = t]
    BY DEF Flush, n, w, t
  <2>2. QED
    BY <1>1, <2>1 DEF SameState, Policy, Metric
<1> HIDE DEF n
<1>4. w \in Seq(Metric) /\ Len(w) = Len(q) - n /\ \A i \in 1..Len(w) : w[i] = q[i + n]
  <2> HIDE DEF q
  <2> QED BY <1>1, <1>2
<1>5. BytesOf(q) = BytesOver(q, 1..n) + BytesOf(w)
  <2> HIDE DEF q
  <2> QED BY <1>1, <1>2, BytesSuffix
<1> HIDE DEF w
<1>6. t = BytesOf(w) /\ t \in Nat
  <2>1. p.total = BytesOf(q)
    BY DEF Good
  <2>2. BytesOf(w) \in Nat
    BY <1>4, BytesNat DEF BytesOf
  <2>3. BytesOver(q, 1..n) \in Nat
    <3>1. 1..n \in SUBSET DOMAIN q
      <4> HIDE DEF q
      <4> QED BY <1>1, <1>2, QueueFacts
    <3>2. QED
      BY <1>1, <3>1, BytesNat
  <2>4. QED
    BY <1>5, <2>1, <2>2, <2>3
<1> HIDE DEF t
<1>7. \A i \in 2..Len(w) : w[i - 1].time <= w[i].time
  <2>1. \A i \in 2..Len(q) : q[i - 1].time <= q[i].time
    BY DEF Good
  <2> HIDE DEF q
  <2>2. ASSUME NEW i \in 2..Len(w)
        PROVE  w[i - 1].time <= w[i].time
    <3> DEFINE k == i + n
    <3>1. i \in 1..Len(w) /\ i - 1 \in 1..Len(w) /\ Len(q) \in Nat
      BY <1>1, <1>4
    <3>2. (i - 1) + n = k - 1 /\ k \in 2..Len(q)
      BY <1>2, <1>4, <3>1
    <3>3. w[i - 1] = q[k - 1] /\ w[i] = q[k]
      BY <1>4, <3>1, <3>2
    <3>4. QED
      <4> HIDE DEF k
      <4> QED BY <2>1, <3>2, <3>3
  <2>3. QED
    BY <2>2
<1>8. \A i \in 1..Len(w) : w[i].time <= now /\ ~Old(w[i])
  <2>1. /\ \A i \in 1..Len(q) : q[i].time <= now
        /\ \A i \in 2..Len(q) : q[i - 1].time <= q[i].time
    BY DEF Good
  <2> HIDE DEF q
  <2>2. \A i \in (n + 1)..Len(q) : ~Old(q[i])
    BY <1>1, <1>2, <2>1, RestIsRecent
  <2>3. \A i \in 1..Len(w) : w[i] = q[i + n] /\ i + n \in (n + 1)..Len(q) /\ i + n \in 1..Len(q)
    BY <1>1, <1>2, <1>4
  <2>4. QED
    BY <2>1, <2>2, <2>3
<1>9. SameState(p, Flush(p)) /\ Flush(p) \in Policy
  BY <1>3, <1>4, <1>6
<1>10. QED
  BY <1>3, <1>6, <1>7, <1>8, <1>9 DEF Good, Flushed, SameState

LEMMA AddGood ==
  ASSUME now \in Nat, NEW p, Good(p), NEW t \in [dl : Nat, ul : Nat]
  PROVE  Good(Add(p, t)) /\ SameState(p, Add(p, t)) /\ Flushed(Add(p, t))
<1> DEFINE q == p.queue
           m == [time |-> now, bytes |-> t.dl + t.ul]
           w == Append(q, m)
           p1 == [p EXCEPT !.queue = Append(@, m), !.total = @ + t.dl + t.ul]
<1>1. q \in Seq(Metric) /\ p \in Policy /\ p.total \in Nat /\ m \in Metric
  BY DEF Good, Policy, Metric
<1>2. w \in Seq(Metric) /\ p.total + t.dl + t.ul \in Nat
  <2> HIDE DEF q, m
  <2> QED BY <1>1
<1>3. /\ p1.queue = w /\ p1.total = p.total + t.dl + t.ul
      /\ SameState(p, p1) /\ p1 \in Policy
  <2> DEFINE v == p.total + t.dl + t.ul
  <2>1. p1 = [p EXCEPT !.queue = w, !.total = v]
    BY <1>1 DEF Policy
  <2> HIDE DEF w, v, p1
  <2>2. p1.queue = w /\ p1.total = v /\ SameState(p, p1) /\ p1 \in Policy
    BY <1>1, <1>2, <2>1 DEF SameState, Policy, Metric, v
  <2>3. QED
    BY <2>2 DEF v
<1>4. BytesOf(w) = p.total + t.dl + t.ul
  <2>1. BytesOf(w) = BytesOf(q) + m.bytes
    <3> HIDE DEF q, m
    <3> QED BY <1>1, BytesAppend
  <2>2. BytesOf(q) = p.total /\ m.bytes = t.dl + t.ul
    BY DEF Good
  <2>3. QED
    BY <1>1, <2>1, <2>2
<1>5. /\ \A i \in 2..Len(q) : q[i - 1].time <= q[i].time
      /\ \A i \in 1..Len(q) : q[i].time <= now
  BY DEF Good
<1>6. /\ Len(w) = Len(q) + 1 /\ Len(q) \in Nat
      /\ w[Len(q) + 1] = m /\ \A i \in 1..Len(q) : w[i] = q[i]
  <2> HIDE DEF q, m
  <2> QED BY <1>1
<1> HIDE DEF w
<1>7. \A i \in 1..Len(w) : w[i].time <= now
  <2>1. m.time = now
    OBVIOUS
  <2> HIDE DEF q, m
  <2>2. QED
    BY <1>5, <1>6, <2>1
<1>8. \A i \in 2..Len(w) : w[i - 1].time <= w[i].time
  <2> HIDE DEF q
  <2>1. ASSUME NEW i \in 2..Len(w)
        PROVE  w[i - 1].time <= w[i].time
    <3>1. CASE i = Len(q) + 1
      <4>1. w[i - 1] = q[i - 1] /\ q[i - 1].time <= now
        BY <1>5, <1>6, <3>1
      <4>2. QED
        BY <1>6, <3>1, <4>1
    <3>2. CASE i # Len(q) + 1
      <4>1. i \in 2..Len(q) /\ i - 1 \in 1..Len(q) /\ i \in 1..Len(q)
        BY <1>6, <3>2
      <4>2. QED
        BY <1>5, <1>6, <4>1
    <3>3. QED
      BY <3>1, <3>2
  <2>2. QED
    BY <2>1
<1> HIDE DEF p1
<1>9. Good(p1)
  <2>1. /\ p1.throttling <=> p1.saved # NotSaved
        /\ p1.throttling <=> p1.end # 0
    BY <1>3 DEF Good, SameState
  <2>2. QED
    BY <1>3, <1>4, <1>7, <1>8, <2>1 DEF Good
<1>10. Good(Flush(p1)) /\ SameState(p1, Flush(p1)) /\ Flushed(Flush(p1))
  BY <1>9, FlushGood
<1>11. Add(p, t) = Flush(p1)
  BY DEF Add, p1
<1>12. QED
  BY <1>3, <1>10, <1>11 DEF SameState

\* A report is indexed: nothing but the indexes changes, and those of the slices
\* that may be throttled hold nothing old.
LEMMA IndexedGood ==
  ASSUME now \in Nat, \A s \in slices : Good(policy[s]), NEW r \in Reports(Judged)
  PROVE  /\ DOMAIN Indexed(r) = slices
         /\ \A s \in slices : /\ Good(Indexed(r)[s])
                              /\ SameState(policy[s], Indexed(r)[s])
                              /\ Indexed(r)[s].throttle => Flushed(Indexed(r)[s])
<1>1. DOMAIN Indexed(r) = slices
  BY DEF Indexed
<1>2. ASSUME NEW s \in slices
      PROVE  /\ Good(Indexed(r)[s])
             /\ SameState(policy[s], Indexed(r)[s])
             /\ Indexed(r)[s].throttle => Flushed(Indexed(r)[s])
  <2> DEFINE p == policy[s]
             p1 == IF s \in DOMAIN r THEN Add(p, r[s]) ELSE p
  <2>1. Good(p1) /\ SameState(p, p1)
    <3>1. CASE s \in DOMAIN r
      <4>1. r[s] \in [dl : Nat, ul : Nat]
        BY <3>1, ShareControlAssumption DEF Reports
      <4>2. QED
        BY <3>1, <4>1, AddGood
    <3>2. CASE s \notin DOMAIN r
      BY <3>2 DEF SameState
    <3>3. QED
      BY <3>1, <3>2
  <2>2. Indexed(r)[s] = Refresh(p1)
    BY DEF Indexed
  <2> HIDE DEF p, p1
  <2>3. CASE p1.throttle
    <3>1. Refresh(p1) = Flush(p1)
      BY <2>3 DEF Refresh
    <3>2. Good(Flush(p1)) /\ SameState(p1, Flush(p1)) /\ Flushed(Flush(p1))
      BY <2>1, FlushGood
    <3>3. QED
      BY <2>1, <2>2, <3>1, <3>2 DEF SameState, p
  <2>4. CASE ~p1.throttle
    BY <2>1, <2>2, <2>4 DEF Refresh, p
  <2>5. QED
    BY <2>3, <2>4
<1>3. QED
  BY <1>1, <1>2

-----------------------------------------------------------------------------
(* Throttling *)

\* What ending and starting make of a good policy is good, whatever share within
\* the bounds it is given then.
LEMMA ThrottleGood ==
  ASSUME now \in Nat, NEW p, Good(p), NEW v \in 0..MaxShare
  PROVE  Good([Throttle(p) EXCEPT !.share = v])
<1> DEFINE e == EndThrottling(p)
           t == StartThrottling(e)
<1>1. e \in Policy /\ e.queue = p.queue /\ e.total = p.total /\ e.share = p.share
  BY DEF EndThrottling, Good, Policy, NotSaved
<1>2. (e.throttling <=> e.saved # NotSaved) /\ (e.throttling <=> e.end # 0)
  BY DEF EndThrottling, Good, Policy, NotSaved
<1> HIDE DEF e
<1>3. now + Period \in Nat /\ now + Period # 0
  BY ShareControlAssumption
<1>4. t \in Policy /\ t.queue = p.queue /\ t.total = p.total
  BY <1>1, <1>3 DEF StartThrottling, Policy, NotSaved
<1>5. (t.throttling <=> t.saved # NotSaved) /\ (t.throttling <=> t.end # 0)
  BY <1>1, <1>2, <1>3 DEF StartThrottling, Policy, NotSaved
<1> HIDE DEF t
<1> DEFINE u == [t EXCEPT !.share = v]
<1>6. /\ u \in Policy /\ u.queue = p.queue /\ u.total = p.total
      /\ u.throttling = t.throttling /\ u.end = t.end /\ u.saved = t.saved
  BY <1>4 DEF Policy
<1> HIDE DEF u
<1>7. Good(u)
  BY <1>5, <1>6 DEF Good
<1>8. QED
  BY <1>7 DEF Throttle, t, e, u

LEMMA ThrottleOutcome ==
  ASSUME now \in Nat, NEW p, Good(p), p.throttle, NEW v
  PROVE  /\ [Throttle(p) EXCEPT !.share = v].queue = p.queue
         /\ [Throttle(p) EXCEPT !.share = v].throttling <=>
              \/ p.throttling /\ now < p.end
              \/ p.total >= Threshold
<1> DEFINE e == EndThrottling(p)
           t == StartThrottling(e)
<1>1. p \in Policy
  BY DEF Good
<1>2. /\ e \in Policy /\ e.queue = p.queue /\ e.total = p.total /\ e.throttle
      /\ e.throttling <=> p.throttling /\ now < p.end
  <2>1. p.end \in Nat /\ p.throttling \in BOOLEAN
    BY <1>1 DEF Policy
  <2>2. CASE Ends(p)
    <3>1. e = [p EXCEPT !.throttling = FALSE, !.end = 0, !.saved = NotSaved]
      BY <2>2 DEF EndThrottling
    <3> HIDE DEF e
    <3>2. e \in Policy /\ e.queue = p.queue /\ e.total = p.total /\ e.throttle = p.throttle
      BY <1>1, <3>1, Zenon DEF Policy, NotSaved
    <3>3. e.throttling = FALSE
      BY <1>1, <3>1 DEF Policy
    <3>4. ~(now < p.end)
      BY <2>1, <2>2 DEF Ends
    <3>5. QED
      BY <3>2, <3>3, <3>4
  <2>3. CASE ~Ends(p)
    <3>1. e = p
      BY <2>3 DEF EndThrottling
    <3>2. p.throttling => now < p.end
      BY <2>1, <2>3 DEF Ends
    <3> HIDE DEF e
    <3>3. QED
      BY <1>1, <3>1, <3>2
  <2>4. QED
    BY <2>2, <2>3
<1> HIDE DEF e
<1>3. /\ t.queue = p.queue
      /\ t.throttling <=> e.throttling \/ p.total >= Threshold
      /\ t = [t EXCEPT !.end = t.end]
  BY <1>2 DEF StartThrottling, Starts, Policy
<1>4. QED
  BY <1>2, <1>3 DEF Throttle, e, StartThrottling, Policy

LEMMA ThrottleTyped ==
  ASSUME now \in Nat, NEW p, Good(p)
  PROVE  Throttle(p) \in Policy
<1> DEFINE e == EndThrottling(p)
<1>1. e \in Policy
  BY DEF EndThrottling, Good, Policy, NotSaved
<1> HIDE DEF e
<1>2. now + Period \in Nat
  BY ShareControlAssumption
<1>3. StartThrottling(e) \in Policy
  BY <1>1, <1>2 DEF StartThrottling, Policy, NotSaved
<1>4. QED
  BY <1>3 DEF Throttle, e

\* A policy stops throttling because its time is up, and not if it starts again.
LEMMA ThrottleStops ==
  ASSUME now \in Nat, NEW p, Good(p), p.throttling, NEW v,
         ~[Throttle(p) EXCEPT !.share = v].throttling
  PROVE  Ends(p) /\ ~Starts(EndThrottling(p))
<1> DEFINE e == EndThrottling(p)
           t == StartThrottling(e)
<1>1. p \in Policy
  BY DEF Good
<1>2. e \in Policy
  BY <1>1 DEF EndThrottling, Policy, NotSaved
<1>3. CASE Starts(e)
  <2>1. t = [e EXCEPT !.throttling = TRUE, !.end = now + Period, !.saved = e.share]
    BY <1>3 DEF StartThrottling
  <2> HIDE DEF e, t
  <2>2. [t EXCEPT !.share = v].throttling = TRUE
    BY <1>2, <2>1 DEF Policy
  <2>3. QED
    BY <2>2 DEF Throttle, t, e
<1>4. CASE ~Starts(e) /\ ~Ends(p)
  <2>1. t = p
    BY <1>4 DEF StartThrottling, EndThrottling
  <2> HIDE DEF e, t
  <2>2. [t EXCEPT !.share = v].throttling = p.throttling
    BY <1>1, <2>1 DEF Policy
  <2>3. QED
    BY <2>2 DEF Throttle, t, e
<1>5. QED
  BY <1>3, <1>4

-----------------------------------------------------------------------------
(* The shares that come out *)

LEMMA ClampBounds ==
  ASSUME NEW v \in Int
  PROVE  Clamp(v) \in MinShare..MaxShare
  BY DEF Clamp, MinShare, MaxShare

LEMMA ClampInt ==
  ASSUME NEW v \in Int
  PROVE  Clamp(v) \in Int
  BY DEF Clamp, MinShare, MaxShare

LEMMA ClampMonotonic ==
  ASSUME NEW v \in Int, NEW w \in Int, v <= w
  PROVE  Clamp(v) <= Clamp(w)
  BY DEF Clamp, MinShare, MaxShare

\* Division, as far as Rescale needs it.
LEMMA Quotient ==
  ASSUME NEW c \in Nat, NEW n \in Nat, NEW d \in Nat \ {0}
  PROVE  /\ (c * n) \div d \in Nat
         /\ n > d => (c * n) \div d >= c
         /\ n < d => (c * n) \div d <= c
         /\ n > d /\ c > 0 /\ (c * n) % d = 0 => (c * n) \div d > c
<1> DEFINE v == (c * n) \div d
           m == (c * n) % d
<1>1. c * n \in Nat
  OBVIOUS
<1>2. v \in Int /\ m \in 0..(d - 1) /\ c * n = d * v + m
  OBVIOUS
<1> HIDE DEF v, m
<1>3. v \in Nat
  <2>1. SUFFICES ASSUME v <= -1 PROVE FALSE
    BY <1>2
  <2>2. d * v <= -d
    BY <1>2, <2>1
  <2>3. QED
    BY <1>1, <1>2, <2>2
<1>4. ASSUME n > d, v < c PROVE FALSE
  <2>1. d * v <= d * (c - 1) /\ d * (c - 1) = d * c - d
    BY <1>2, <1>4
  <2>2. c * n >= c * d
    BY <1>4
  <2>3. c * d = d * c /\ d * c \in Nat /\ d * v \in Int
    BY <1>2
  <2>4. QED
    BY <1>1, <1>2, <2>1, <2>2, <2>3
<1>5. ASSUME n < d, v > c PROVE FALSE
  <2>1. d * v >= d * (c + 1) /\ d * (c + 1) = d * c + d
    BY <1>2, <1>5
  <2>2. c * n <= c * d
    BY <1>5
  <2>3. c * d = d * c /\ d * c \in Nat /\ d * v \in Int
    BY <1>2
  <2>4. QED
    BY <1>1, <1>2, <2>1, <2>2, <2>3
<1>6. ASSUME n > d, c > 0, m = 0, v <= c PROVE FALSE
  <2>1. d * v <= d * c
    BY <1>2, <1>6
  <2>2. c * n >= c * (d + 1) /\ c * (d + 1) = c * d + c
    BY <1>6
  <2>3. c * d = d * c /\ d * c \in Nat /\ d * v \in Int
    BY <1>2
  <2>4. QED
    BY <1>1, <1>2, <1>6, <2>1, <2>2, <2>3
<1>7. QED
  BY <1>2, <1>3, <1>4, <1>5, <1>6 DEF v, m

LEMMA RescaleBounds ==
  ASSUME NEW c \in Nat, NEW n \in Nat, NEW d \in Nat \ {0}
  PROVE  Rescale(c, n, d) \subseteq MinShare..MaxShare
<1> DEFINE v == (c * n) \div d
<1>1. v \in Nat
  BY Quotient
<1> HIDE DEF v
<1>2. Rescale(c, n, d) \subseteq {Clamp(c), Clamp(v), Clamp(v - 1)}
  BY DEF Rescale, v
<1>3. QED
  BY <1>1, <1>2, ClampBounds

\* Rescaling by a ratio of one or more never takes from a share, by one or less
\* never adds to it, in spite of the truncation and of the floor and the cap.
LEMMA RescaleMonotonic ==
  ASSUME NEW c \in Nat, NEW n \in Nat, NEW d \in Nat \ {0}, NEW new \in Rescale(c, n, d)
  PROVE  /\ new \in Int /\ Clamp(c) \in Int
         /\ n >= d => new >= Clamp(c)
         /\ n <= d => new <= Clamp(c)
<1> DEFINE v == (c * n) \div d
           whole == (c * n) % d = 0
<1>1. /\ v \in Nat
      /\ n > d => v >= c
      /\ n < d => v <= c
      /\ n > d /\ c > 0 /\ whole => v > c
  BY Quotient
<1> HIDE DEF v, whole
<1>2. \/ n = d /\ new = Clamp(c)
      \/ n # d /\ new = Clamp(v)
      \/ n # d /\ whole /\ new = Clamp(v - 1)
  BY DEF Rescale, v, whole
<1>3. new \in MinShare..MaxShare /\ new \in Int /\ Clamp(c) \in Int
  <2>1. new \in MinShare..MaxShare
    BY RescaleBounds
  <2>2. Clamp(c) \in MinShare..MaxShare
    BY ClampBounds
  <2>3. QED
    BY <2>1, <2>2
<1>4. CASE n = d /\ new = Clamp(c)
  BY <1>3, <1>4
<1>5. CASE n # d /\ new = Clamp(v)
  BY <1>1, <1>3, <1>5, ClampMonotonic
<1>6. CASE n # d /\ whole /\ new = Clamp(v - 1)
  <2>1. CASE n < d
    <3>1. v - 1 <= c
      BY <1>1, <2>1
    <3>2. QED
      BY <1>1, <1>3, <1>6, <2>1, <3>1, ClampMonotonic
  <2>2. CASE n > d /\ c > 0
    <3>1. c <= v - 1
      BY <1>1, <1>6, <2>2
    <3>2. QED
      BY <1>1, <1>3, <1>6, <2>2, <3>1, ClampMonotonic
  <2>3. CASE n > d /\ c = 0
    <3>1. Clamp(c) = MinShare
      BY <2>3 DEF Clamp, MinShare, MaxShare
    <3>2. new >= MinShare
      BY <1>3 DEF MinShare, MaxShare
    <3>3. QED
      BY <1>3, <2>3, <3>1, <3>2
  <2>4. QED
    BY <1>6, <2>1, <2>2, <2>3
<1>7. QED
  BY <1>2, <1>4, <1>5, <1>6

\* Rescaled by the ratio of another share to itself, a share becomes that one, or
\* the one before.
LEMMA RescaleTo ==
  ASSUME NEW c \in Nat \ {0}, NEW n \in Nat
  PROVE  Rescale(c, n, c) \subseteq {Clamp(n), Clamp(n - 1)}
<1> DEFINE v == (c * n) \div c
           m == (c * n) % c
<1>1. v \in Int /\ m \in 0..(c - 1) /\ c * n = c * v + m
  <2>1. c * n \in Nat
    OBVIOUS
  <2>2. QED
    BY <2>1
<1> HIDE DEF v, m
<1>2. ASSUME v < n PROVE FALSE
  <2>1. c * v <= c * (n - 1) /\ c * (n - 1) = c * n - c
    BY <1>1, <1>2
  <2>2. c * n \in Nat /\ c * v \in Int
    BY <1>1
  <2>3. QED
    BY <1>1, <2>1, <2>2
<1>3. ASSUME v > n PROVE FALSE
  <2>1. c * v >= c * (n + 1) /\ c * (n + 1) = c * n + c
    BY <1>1, <1>3
  <2>2. c * n \in Nat /\ c * v \in Int
    BY <1>1
  <2>3. QED
    BY <1>1, <2>1, <2>2
<1>4. v = n
  BY <1>1, <1>2, <1>3
<1>5. QED
  BY <1>4 DEF Rescale, v

LEMMA GoodShares ==
  ASSUME NEW p, Good(p)
  PROVE  p.share \in Nat /\ (p.throttling => p.saved \in Nat)
<1>1. /\ p.share \in 0..MaxShare
      /\ p.saved \in {NotSaved} \cup 0..MaxShare
      /\ p.throttling => p.saved # NotSaved
  BY DEF Good, Policy
<1>2. QED
  BY <1>1

\* A policy is aimed at a share.
LEMMA TargetNat ==
  ASSUME NEW p, Good(p)
  PROVE  Target(p) \in Nat
<1>1. p.share \in Nat /\ (p.throttling => p.saved \in Nat)
  BY GoodShares
<1>2. ThrottleShare \in Nat
  BY ShareControlAssumption DEF MaxShare
<1>3. QED
  BY <1>1, <1>2 DEF Target, Ends

\* The sum over the equalized slices, their number, and what they come to without
\* one of them.
LEMMA EqualizedSums ==
  ASSUME NEW r \in Reports(Judged), NEW E, E \subseteq DOMAIN r, IsFiniteSet(E), NEW s \in E
  PROVE  /\ r[s].dl \in Nat
         /\ DlSum(E, r) \in Nat /\ DlSum(E \ {s}, r) \in Nat
         /\ DlSum(E, r) = r[s].dl + DlSum(E \ {s}, r)
         /\ Cardinality(E) \in Nat \ {0}
<1> DEFINE f == [x \in DOMAIN r |-> r[x].dl]
<1>1. \A x \in E : f[x] \in Nat /\ f[x] = r[x].dl
  BY ShareControlAssumption DEF Reports
<1> HIDE DEF f
<1>2. IsFiniteSet(E \ {s})
  BY FS_Subset
<1>3. SumFunctionOnSet(f, E) \in Nat /\ SumFunctionOnSet(f, E \ {s}) \in Nat
  BY <1>1, <1>2, SumNat
<1>4. SumFunctionOnSet(f, E) = f[s] + SumFunctionOnSet(f, E \ {s})
  BY <1>1, SumRemove
<1>5. Cardinality(E) \in Nat \ {0}
  BY FS_CardinalityType, FS_EmptySet
<1>6. QED
  BY <1>1, <1>3, <1>4, <1>5 DEF DlSum, f

\* Every share a report may set is between the floor and the cap.
LEMMA NewSharesBounds ==
  ASSUME now \in Nat, IsFiniteSet(slices), NEW P, \A s \in slices : Good(P[s]),
         NEW r \in Reports(Judged), NEW equalize, NEW s \in slices
  PROVE  NewShares(P, r, equalize, s) \subseteq MinShare..MaxShare
<1> DEFINE c == P[s].share
           E == Equalized(P, r)
           b == MinShare..MaxShare
<1>1. Good(P[s]) /\ c \in Nat
  BY GoodShares
<1>2. Unbounded(c) \subseteq b /\ Clamp(c) \in b
  BY <1>1, ClampBounds DEF Unbounded, MinShare, MaxShare
<1>3. CASE Aimed(P[s])
  <2>1. CASE c = 0
    BY <1>2, <1>3, <2>1 DEF NewShares
  <2>2. CASE c # 0
    <3>1. Rescale(c, Target(P[s]), c) \subseteq b
      <4> HIDE DEF c
      <4> QED BY <1>1, <2>2, TargetNat, RescaleBounds
    <3>2. NewShares(P, r, equalize, s) = Rescale(c, Target(P[s]), c)
      BY <1>3, <2>2 DEF NewShares
    <3>3. QED
      BY <3>1, <3>2
  <2>3. QED
    BY <2>1, <2>2
<1>4. CASE ~Aimed(P[s]) /\ equalize /\ s \in Candidates(P, r)
  <2>1. CASE r[s].dl = 0
    BY <1>2, <1>4, <2>1 DEF NewShares
  <2>2. CASE r[s].dl # 0
    <3>1. s \in E /\ E \subseteq DOMAIN r /\ IsFiniteSet(E)
      BY <1>4, FS_Subset DEF Candidates, Equalized
    <3> DEFINE d == Cardinality(E) * r[s].dl
    <3>2. DlSum(E, r) \in Nat /\ d \in Nat \ {0}
      <4> HIDE DEF E
      <4>1. DlSum(E, r) \in Nat /\ r[s].dl \in Nat \ {0} /\ Cardinality(E) \in Nat \ {0}
        BY <2>2, <3>1, EqualizedSums
      <4>2. QED
        BY <4>1
    <3>3. Rescale(c, DlSum(E, r), d) \subseteq b
      <4> HIDE DEF c, d, E
      <4> QED BY <1>1, <3>2, RescaleBounds
    <3>4. NewShares(P, r, equalize, s) = Rescale(c, DlSum(E, r), d)
      BY <1>4, <2>2 DEF NewShares
    <3>5. QED
      BY <3>3, <3>4
  <2>3. QED
    BY <2>1, <2>2
<1>5. CASE ~Aimed(P[s]) /\ ~(equalize /\ s \in Candidates(P, r))
  <2>1. NewShares(P, r, equalize, s) = {Clamp(c)}
    BY <1>5 DEF NewShares
  <2>2. QED
    BY <1>2, <2>1
<1>6. QED
  BY <1>3, <1>4, <1>5

-----------------------------------------------------------------------------
(* The invariant holds *)

LEMMA Bounds ==
  /\ MinShare \in Nat /\ MaxShare \in Nat /\ MinShare..MaxShare \subseteq 0..MaxShare
  /\ Period \in Nat \ {0} /\ Threshold \in Nat
  BY ShareControlAssumption DEF MinShare, MaxShare

\* A new policy is good, and so is one that gets another share or other flags.
LEMMA NewGood ==
  ASSUME NEW v \in 0..MaxShare, NEW auto \in BOOLEAN, NEW throttle \in BOOLEAN
  PROVE  Good(New(v, auto, throttle))
<1> DEFINE p == New(v, auto, throttle)
<1>1. /\ p \in Policy /\ p.queue = <<>> /\ p.total = 0
      /\ p.throttling = FALSE /\ p.end = 0 /\ p.saved = NotSaved
  BY DEF New, Policy, NotSaved
<1>2. BytesOf(<<>>) = 0
  <2>1. DOMAIN <<>> = {}
    OBVIOUS
  <2>2. QED
    BY <2>1, SumEmpty DEF BytesOf, BytesOver
<1> HIDE DEF p
<1>3. Good(p)
  <2>1. Len(p.queue) = 0 /\ p.total = BytesOf(p.queue)
    BY <1>1, <1>2
  <2>2. QED
    BY <1>1, <2>1 DEF Good
<1>4. QED
  BY <1>3 DEF p

LEMMA PutGood ==
  ASSUME NEW p, Good(p), NEW v \in 0..MaxShare, NEW auto \in BOOLEAN, NEW throttle \in BOOLEAN
  PROVE  Good([p EXCEPT !.share = v, !.auto = auto, !.throttle = throttle])
<1> DEFINE u == [p EXCEPT !.share = v, !.auto = auto, !.throttle = throttle]
<1>1. p \in Policy
  BY DEF Good
<1>2. /\ u \in Policy /\ u.queue = p.queue /\ u.total = p.total
      /\ u.throttling = p.throttling /\ u.end = p.end /\ u.saved = p.saved
  BY <1>1 DEF Policy
<1> HIDE DEF u
<1>3. Good(u)
  BY <1>2 DEF Good
<1>4. QED
  BY <1>3 DEF u

LEMMA InitInv == Init => IInv
<1> SUFFICES ASSUME Init PROVE IInv
  OBVIOUS
<1>1. slices = {DefaultSlice} /\ policy[DefaultSlice] = New(DefaultShare, FALSE, FALSE)
  BY DEF Init, slices
<1>2. Good(New(DefaultShare, FALSE, FALSE))
  <2>1. DefaultShare \in 0..MaxShare
    BY DEF DefaultShare, MaxShare
  <2>2. QED
    BY <2>1, NewGood
<1>3. IsFiniteSet({DefaultSlice})
  BY FS_Singleton
<1>4. QED
  <2>1. \A s \in slices : Good(policy[s])
    BY <1>1, <1>2
  <2>2. slices \subseteq Slice /\ IsFiniteSet(slices)
    BY <1>1, <1>3, ShareControlAssumption
  <2>3. now \in 0..MaxTime /\ reports \in 0..MaxReports
    BY ShareControlAssumption DEF Init
  <2>4. QED
    BY <2>1, <2>2, <2>3 DEF IInv

\* What a step that leaves the clock alone has to show.
LEMMA StillInv ==
  ASSUME IInv, UNCHANGED now, reports' \in 0..MaxReports,
         (DOMAIN policy') \subseteq Slice, IsFiniteSet(DOMAIN policy'),
         \A s \in DOMAIN policy' : Good(policy'[s])
  PROVE  IInv'
<1>1. \A s \in slices' : Good(policy[s])'
  BY DEF Good, slices
<1>2. now' \in 0..MaxTime
  BY DEF IInv
<1>3. QED
  BY <1>1, <1>2 DEF IInv, slices

LEMMA PostSliceInv ==
  ASSUME IInv, NEW s \in Slice, NEW v \in Shares, NEW auto \in BOOLEAN,
         NEW throttle \in BOOLEAN, PostSlice(s, v, auto, throttle)
  PROVE  IInv'
<1>1. DOMAIN policy' = slices \cup {s} /\ UNCHANGED <<now, reports>>
  BY DEF PostSlice
<1>2. DOMAIN policy' \subseteq Slice /\ IsFiniteSet(DOMAIN policy')
  BY <1>1, FS_AddElement DEF IInv
<1>3. ASSUME NEW x \in DOMAIN policy'
      PROVE  Good(policy'[x])
  <2>1. CASE x = s
    <3>1. policy'[x] = New(v, auto, throttle)
      BY <1>1, <2>1 DEF PostSlice
    <3>2. v \in 0..MaxShare
      BY ShareControlAssumption
    <3>3. QED
      BY <3>1, <3>2, NewGood
  <2>2. CASE x # s
    <3>1. policy'[x] = policy[x] /\ x \in slices
      BY <1>1, <1>3, <2>2 DEF PostSlice
    <3>2. QED
      BY <3>1 DEF IInv
  <2>3. QED
    BY <2>1, <2>2
<1>4. reports' \in 0..MaxReports
  BY <1>1 DEF IInv
<1>5. QED
  BY <1>1, <1>2, <1>3, <1>4, StillInv

LEMMA PutSliceInv ==
  ASSUME IInv, NEW s \in Slice, NEW v \in Shares, NEW auto \in BOOLEAN,
         NEW throttle \in BOOLEAN, PutSlice(s, v, auto, throttle)
  PROVE  IInv'
<1> DEFINE u == [policy[s] EXCEPT !.share = v, !.auto = auto, !.throttle = throttle]
<1>1. s \in slices /\ UNCHANGED <<now, reports>>
  BY DEF PutSlice
<1>2. Good(policy[s]) /\ policy[s] \in Policy
  BY <1>1 DEF IInv, Good
<1>3. /\ DOMAIN policy' = slices
      /\ \A x \in slices : policy'[x] = IF x = s THEN u ELSE policy[x]
  BY <1>1, <1>2 DEF PutSlice, slices, Policy
<1>4. Good(u)
  <2>1. v \in 0..MaxShare
    BY ShareControlAssumption
  <2>2. QED
    BY <1>2, <2>1, PutGood
<1> HIDE DEF u
<1>5. \A x \in DOMAIN policy' : Good(policy'[x])
  BY <1>3, <1>4 DEF IInv
<1>6. DOMAIN policy' \subseteq Slice /\ IsFiniteSet(DOMAIN policy') /\ reports' \in 0..MaxReports
  BY <1>1, <1>3 DEF IInv
<1>7. QED
  BY <1>1, <1>5, <1>6, StillInv

LEMMA DeleteSliceInv ==
  ASSUME IInv, NEW s \in Slice, DeleteSlice(s)
  PROVE  IInv'
<1>1. /\ DOMAIN policy' = slices \ {s} /\ UNCHANGED <<now, reports>>
      /\ \A x \in slices \ {s} : policy'[x] = policy[x]
  BY DEF DeleteSlice, Restrict
<1>2. DOMAIN policy' \subseteq Slice /\ IsFiniteSet(DOMAIN policy')
  BY <1>1, FS_RemoveElement DEF IInv
<1>3. \A x \in DOMAIN policy' : Good(policy'[x])
  BY <1>1 DEF IInv
<1>4. reports' \in 0..MaxReports
  BY <1>1 DEF IInv
<1>5. QED
  BY <1>1, <1>2, <1>3, <1>4, StillInv

LEMMA TickInv ==
  ASSUME IInv, Tick
  PROVE  IInv'
<1>1. now' = now + 1 /\ now' \in 0..MaxTime /\ now \in Nat /\ UNCHANGED <<policy, reports>>
  BY ShareControlAssumption DEF Tick, IInv
<1>2. ASSUME NEW s \in slices
      PROVE  Good(policy[s])'
  <2> DEFINE p == policy[s]
             q == p.queue
  <2>1. Good(p)
    BY DEF IInv
  <2>2. q \in Seq(Metric)
    BY <2>1 DEF Good, Policy, Metric
  <2>3. \A i \in 1..Len(q) : q[i].time <= now
    BY <2>1 DEF Good
  <2>4. \A i \in 1..Len(q) : q[i].time <= now'
    <3> HIDE DEF q
    <3> QED BY <1>1, <2>2, <2>3, QueueFacts
  <2>5. QED
    BY <1>1, <2>1, <2>4 DEF Good
<1>3. QED
  BY <1>1, <1>2 DEF IInv, slices

LEMMA IndicationInv ==
  ASSUME IInv, NEW r \in Reports(Judged), NEW busy \in BOOLEAN, Indication(r, busy)
  PROVE  IInv'
<1> DEFINE P == Indexed(r)
           equalize == busy /\ Unequal(P, r)
<1>1. now \in Nat /\ IsFiniteSet(slices) /\ \A s \in slices : Good(policy[s])
  BY DEF IInv
<1>2. \A s \in slices : Good(P[s])
  BY <1>1, IndexedGood
<1>3. PICK new : /\ \A s \in slices : new[s] \in NewShares(P, r, equalize, s)
                 /\ policy' = [s \in slices |-> [Throttle(P[s]) EXCEPT !.share = new[s]]]
  BY DEF Indication
<1>4. UNCHANGED now /\ reports' \in 0..MaxReports
  BY ShareControlAssumption DEF Indication, IInv
<1> HIDE DEF P, equalize
<1>5. ASSUME NEW s \in slices
      PROVE  Good(policy'[s])
  <2>1. new[s] \in 0..MaxShare
    BY <1>1, <1>2, <1>3, NewSharesBounds, Bounds
  <2>2. policy'[s] = [Throttle(P[s]) EXCEPT !.share = new[s]]
    BY <1>3
  <2>3. QED
    BY <1>1, <1>2, <2>1, <2>2, ThrottleGood
<1>6. DOMAIN policy' = slices
  BY <1>3
<1>7. QED
  BY <1>4, <1>5, <1>6, StillInv DEF IInv

LEMMA NextInv == IInv /\ [Next]_vars => IInv'
<1> SUFFICES ASSUME IInv, [Next]_vars PROVE IInv'
  OBVIOUS
<1>1. ASSUME NEW s \in Slice, NEW v \in Shares, NEW auto \in BOOLEAN,
             NEW throttle \in BOOLEAN, PostSlice(s, v, auto, throttle)
      PROVE  IInv'
  BY <1>1, PostSliceInv
<1>2. ASSUME NEW s \in Slice, NEW v \in Shares, NEW auto \in BOOLEAN,
             NEW throttle \in BOOLEAN, PutSlice(s, v, auto, throttle)
      PROVE  IInv'
  BY <1>2, PutSliceInv
<1>3. ASSUME NEW s \in Slice, DeleteSlice(s)
      PROVE  IInv'
  BY <1>3, DeleteSliceInv
<1>4. ASSUME NEW r \in Reports(Traffic), NEW busy \in BOOLEAN, Indication(r, busy)
      PROVE  IInv'
  <2>1. r \in Reports(Judged)
    BY ShareControlAssumption DEF Reports
  <2>2. QED
    BY <1>4, <2>1, IndicationInv
<1>5. CASE Tick
  BY <1>5, TickInv
<1>6. CASE UNCHANGED vars
  BY <1>6 DEF vars, IInv, Good, slices
<1>7. QED
  BY <1>1, <1>2, <1>3, <1>4, <1>5, <1>6 DEF Next

LEMMA Invariant == Spec => []IInv
  BY InitInv, NextInv, PTL DEF Spec

-----------------------------------------------------------------------------
(* The theorems *)

\* Policies stay well typed, throttle exactly while they have a share and an end
\* to return to, and keep their metrics in the order of time.
THEOREM TypeCorrect == Spec => []TypeOK
<1>1. IInv => TypeOK
  BY DEF IInv, Good, TypeOK
<1>2. QED
  BY <1>1, Invariant, PTL

\* Whatever reports come and however long a slice goes without one, the total that
\* MetricsIndex keeps up is the traffic of the metrics in its queue.
THEOREM TotalsQueued == Spec => []TotalIsQueued
<1>1. IInv => TotalIsQueued
  BY DEF IInv, Good, TotalIsQueued
<1>2. QED
  BY <1>1, Invariant, PTL

\* What ThrottleFollowsTraffic says of one step.
ThrottleStep ==
  Handled =>
    \A s \in {x \in slices : policy[x].throttle} :
      LET q == policy'[s].queue
          traffic == BytesOver(q, {i \in DOMAIN q : ~Old(q[i])})
      IN policy'[s].throttling <=>
           \/ policy[s].throttling /\ now < policy[s].end
           \/ traffic >= Threshold

LEMMA IndicationThrottles ==
  ASSUME IInv, NEW r \in Reports(Judged), NEW busy \in BOOLEAN, Indication(r, busy)
  PROVE  ThrottleStep
<1> DEFINE P == Indexed(r)
<1>1. now \in Nat /\ \A s \in slices : Good(policy[s])
  BY DEF IInv
<1>2. \A s \in slices : /\ Good(P[s]) /\ SameState(policy[s], P[s])
                        /\ P[s].throttle => Flushed(P[s])
  BY <1>1, IndexedGood
<1>3. PICK new : policy' = [s \in slices |-> [Throttle(P[s]) EXCEPT !.share = new[s]]]
  BY DEF Indication
<1> HIDE DEF P
<1>4. ASSUME NEW s \in slices, policy[s].throttle
      PROVE  LET q == policy'[s].queue
                 traffic == BytesOver(q, {i \in DOMAIN q : ~Old(q[i])})
             IN policy'[s].throttling <=>
                  \/ policy[s].throttling /\ now < policy[s].end
                  \/ traffic >= Threshold
  <2> DEFINE q == P[s].queue
  <2>1. Good(P[s]) /\ Flushed(P[s]) /\ P[s].throttle
    BY <1>2, <1>4 DEF SameState
  <2>2. P[s].throttling = policy[s].throttling /\ P[s].end = policy[s].end
    BY <1>2 DEF SameState
  <2>3. policy'[s] = [Throttle(P[s]) EXCEPT !.share = new[s]]
    BY <1>3
  <2>4. /\ policy'[s].queue = q
        /\ policy'[s].throttling <=>
             \/ P[s].throttling /\ now < P[s].end
             \/ P[s].total >= Threshold
    BY <1>1, <2>1, <2>3, ThrottleOutcome
  <2>5. {i \in DOMAIN q : ~Old(q[i])} = DOMAIN q
    <3>1. DOMAIN q = 1..Len(q)
      BY <2>1 DEF Good, Policy
    <3>2. QED
      BY <2>1, <3>1 DEF Flushed
  <2>6. P[s].total = BytesOver(q, DOMAIN q)
    BY <2>1 DEF Good, BytesOf
  <2> HIDE DEF q
  <2>7. P[s].total = BytesOver(q, {i \in DOMAIN q : ~Old(q[i])})
    BY <2>5, <2>6, Zenon
  <2>8. QED
    BY <2>2, <2>4, <2>7
<1>5. QED
  BY <1>4 DEF ThrottleStep

\* A report leaves a slice throttled exactly if its time is not up or its traffic
\* of the last period reaches the threshold.
THEOREM ThrottlingFollowsTraffic == Spec => ThrottleFollowsTraffic
<1>1. IInv /\ [Next]_vars => [ThrottleStep]_vars
  <2> SUFFICES ASSUME IInv, Next, Handled PROVE ThrottleStep
    BY DEF ThrottleStep
  <2>1. PICK r \in Reports(Traffic), busy \in BOOLEAN : Indication(r, busy)
    BY DEF Next, Handled, PostSlice, PutSlice, DeleteSlice, Tick
  <2>2. r \in Reports(Judged)
    BY ShareControlAssumption DEF Reports
  <2>3. QED
    BY <2>1, <2>2, IndicationThrottles
<1>2. QED
  BY <1>1, Invariant, PTL DEF Spec, ThrottleFollowsTraffic, ThrottleStep

\* What ShareReturns says of one step.
ReturnStep ==
  Handled =>
    \A s \in slices :
      LET p == policy[s] IN
      /\ p.throttling /\ ~policy'[s].throttling
      /\ p.share # 0 /\ (p.auto => p.share # p.saved)
      => policy'[s].share \in {Clamp(p.saved), Clamp(p.saved - 1)}

LEMMA IndicationReturns ==
  ASSUME IInv, NEW r \in Reports(Judged), NEW busy \in BOOLEAN, Indication(r, busy)
  PROVE  ReturnStep
<1> DEFINE P == Indexed(r)
           equalize == busy /\ Unequal(P, r)
<1>1. now \in Nat /\ \A s \in slices : Good(policy[s])
  BY DEF IInv
<1>2. \A s \in slices : Good(P[s]) /\ SameState(policy[s], P[s])
  BY <1>1, IndexedGood
<1>3. PICK new : /\ \A s \in slices : new[s] \in NewShares(P, r, equalize, s)
                 /\ policy' = [s \in slices |-> [Throttle(P[s]) EXCEPT !.share = new[s]]]
  BY DEF Indication
<1> HIDE DEF P, equalize
<1>4. ASSUME NEW s \in slices, policy[s].throttling, ~policy'[s].throttling,
             policy[s].share # 0, policy[s].auto => policy[s].share # policy[s].saved
      PROVE  policy'[s].share \in {Clamp(policy[s].saved), Clamp(policy[s].saved - 1)}
  <2> DEFINE p == P[s]
             c == p.share
             n == p.saved
  <2>1. /\ Good(p) /\ p.throttling /\ c # 0 /\ (p.auto => c # n)
        /\ c = policy[s].share /\ n = policy[s].saved
    BY <1>2, <1>4 DEF SameState
  <2>2. policy'[s] = [Throttle(p) EXCEPT !.share = new[s]]
    BY <1>3
  <2>3. new[s] \in NewShares(P, r, equalize, s)
    BY <1>3
  <2>4. Ends(p) /\ ~Starts(EndThrottling(p))
    <3> HIDE DEF p
    <3> QED BY <1>1, <1>4, <2>1, <2>2, ThrottleStops
  <2>5. c \in Nat \ {0} /\ n \in Nat
    <3> HIDE DEF p
    <3> QED BY <2>1, GoodShares
  <2>6. Target(p) = n /\ (Aimed(p) <=> n # c)
    BY <2>1, <2>4 DEF Target, Aimed
  <2>7. new[s] \in {Clamp(n), Clamp(n - 1)}
    <3>1. CASE n # c
      <4>1. NewShares(P, r, equalize, s) = Rescale(c, n, c)
        BY <2>1, <2>6, <3>1 DEF NewShares
      <4> HIDE DEF c, n
      <4>2. QED
        BY <2>3, <2>5, <4>1, RescaleTo
    <3>2. CASE n = c
      <4>1. s \notin Candidates(P, r)
        BY <2>1, <3>2 DEF Candidates, Equalized
      <4>2. NewShares(P, r, equalize, s) = {Clamp(c)}
        BY <2>6, <3>2, <4>1 DEF NewShares
      <4>3. QED
        BY <2>3, <3>2, <4>2
    <3>3. QED
      BY <3>1, <3>2
  <2>8. policy'[s].share = new[s]
    <3> HIDE DEF p
    <3>1. Throttle(p) \in Policy
      BY <1>1, <2>1, ThrottleTyped
    <3>2. QED
      BY <2>2, <3>1 DEF Policy
  <2>9. QED
    BY <2>1, <2>7, <2>8
<1>5. QED
  BY <1>4 DEF ReturnStep

\* A slice that stops throttling has the share back that it had before, but for the
\* floor and the one that the float factor may cost.
THEOREM SharesReturn == Spec => ShareReturns
<1>1. IInv /\ [Next]_vars => [ReturnStep]_vars
  <2> SUFFICES ASSUME IInv, Next, Handled PROVE ReturnStep
    BY DEF ReturnStep
  <2>1. PICK r \in Reports(Traffic), busy \in BOOLEAN : Indication(r, busy)
    BY DEF Next, Handled, PostSlice, PutSlice, DeleteSlice, Tick
  <2>2. r \in Reports(Judged)
    BY ShareControlAssumption DEF Reports
  <2>3. QED
    BY <2>1, <2>2, IndicationReturns
<1>2. QED
  BY <1>1, Invariant, PTL DEF Spec, ShareReturns, ReturnStep

\* The next report, whatever it says, moves shares towards the mean of the equalized
\* slices and never away from it, truncation, floor and cap included.
THEOREM SharesGoToTheMean == Spec => []SharesFollowTraffic
<1>1. ASSUME IInv, NEW r \in Reports(Judged), NEW s \in slices, ~Aimed(Indexed(r)[s])
      PROVE  LET P == Indexed(r)
                 E == {x \in DOMAIN r \cap slices : policy[x].auto}
                 others == DlSum(E \ {s}, r)
                 mine == (Cardinality(E) - 1) * r[s].dl
                 old == Clamp(policy[s].share)
             IN \A new \in NewShares(P, r, Unequal(P, r), s) :
                  /\ s \notin E => new = old
                  /\ s \in E /\ r[s].dl > 0 =>
                       /\ mine <= others => new >= old
                       /\ mine >= others => new <= old
  <2> DEFINE P == Indexed(r)
             c == policy[s].share
             E == {x \in DOMAIN r \cap slices : policy[x].auto}
             others == DlSum(E \ {s}, r)
             mine == (Cardinality(E) - 1) * r[s].dl
             d == Cardinality(E) * r[s].dl
  <2>1. \A x \in slices : Good(P[x]) /\ SameState(policy[x], P[x])
    BY <1>1, IndexedGood DEF IInv
  <2>2. P[s].share = c /\ c \in Nat
    BY <2>1, GoodShares DEF SameState
  <2>3. Equalized(P, r) = E
    BY <2>1 DEF Equalized, SameState
  <2> HIDE DEF P
  <2>4. ASSUME NEW new \in NewShares(P, r, Unequal(P, r), s), new # Clamp(c)
        PROVE  s \in E /\ (r[s].dl > 0 => new \in Rescale(c, DlSum(E, r), d))
    <3>1. ~Aimed(P[s])
      BY <1>1 DEF P
    <3>2. Unequal(P, r) /\ s \in Candidates(P, r)
      BY <2>2, <2>4, <3>1 DEF NewShares
    <3>3. s \in E
      BY <2>3, <3>2 DEF Candidates
    <3>4. NewShares(P, r, Unequal(P, r), s) =
            IF r[s].dl = 0 THEN Unbounded(c)
            ELSE Rescale(c, DlSum(E, r), d)
      <4> HIDE DEF E
      <4> QED BY <2>2, <2>3, <3>1, <3>2 DEF NewShares
    <3>5. QED
      BY <2>4, <3>3, <3>4
  <2>5. ASSUME s \in E, r[s].dl > 0
        PROVE  /\ DlSum(E, r) \in Nat /\ d \in Nat \ {0}
               /\ mine <= others => DlSum(E, r) >= d
               /\ mine >= others => DlSum(E, r) <= d
    <3>1. E \subseteq DOMAIN r /\ IsFiniteSet(E)
      BY <1>1, FS_Subset DEF IInv
    <3> HIDE DEF E
    <3>2. /\ r[s].dl \in Nat \ {0}
          /\ DlSum(E, r) \in Nat /\ others \in Nat
          /\ DlSum(E, r) = r[s].dl + others
          /\ Cardinality(E) \in Nat \ {0}
      <4>1. s \in E /\ r[s].dl > 0
        BY <2>5
      <4>2. /\ r[s].dl \in Nat
            /\ DlSum(E, r) \in Nat /\ DlSum(E \ {s}, r) \in Nat
            /\ DlSum(E, r) = r[s].dl + DlSum(E \ {s}, r)
            /\ Cardinality(E) \in Nat \ {0}
        BY <3>1, <4>1, EqualizedSums
      <4>3. QED
        BY <4>1, <4>2
    <3>3. d \in Nat \ {0} /\ d = r[s].dl + mine /\ mine \in Nat
      <4>1. \A k, x \in Nat \ {0} :
              k * x \in Nat \ {0} /\ k * x = x + (k - 1) * x /\ (k - 1) * x \in Nat
        OBVIOUS
      <4>2. QED
        BY <3>2, <4>1
    <3> HIDE DEF others, mine, d
    <3>4. QED
      BY <3>2, <3>3
  <2>6. ASSUME NEW new \in NewShares(P, r, Unequal(P, r), s)
        PROVE  /\ s \notin E => new = Clamp(c)
               /\ s \in E /\ r[s].dl > 0 =>
                    /\ mine <= others => new >= Clamp(c)
                    /\ mine >= others => new <= Clamp(c)
    <3>1. Clamp(c) \in Int
      <4> HIDE DEF c
      <4> QED BY <2>2, ClampInt
    <3> HIDE DEF E, others, mine, d, c
    <3>2. CASE new = Clamp(c)
      BY <3>1, <3>2
    <3>3. CASE new # Clamp(c)
      <4>1. s \in E /\ (r[s].dl > 0 => new \in Rescale(c, DlSum(E, r), d))
        BY <2>4, <3>3
      <4>2. ASSUME r[s].dl > 0
            PROVE  /\ mine <= others => new >= Clamp(c)
                   /\ mine >= others => new <= Clamp(c)
        BY <2>2, <2>5, <4>1, <4>2, RescaleMonotonic
      <4>3. QED
        BY <4>1, <4>2
    <3>4. QED
      BY <3>2, <3>3
  <2>7. QED
    BY <2>6 DEF P
<1>2. IInv => SharesFollowTraffic
  BY <1>1 DEF SharesFollowTraffic
<1>3. QED
  BY <1>2, Invariant, PTL
=============================================================================
