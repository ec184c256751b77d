---------------------------- MODULE ShareControl ----------------------------
(***************************************************************************)
(* The closed loop: what a KPM indication does to the allocation policies  *)
(* of the slices.  Each policy has a share, an index of the traffic its    *)
(* slice reported in the last throttle period, and the state of its        *)
(* throttling.  A report adds to the indexes, ends and starts throttling,  *)
(* equalizes the shares of the slices that ask for it, and caps and floors *)
(* every share, reported or not.  All of it runs under App.mutex, as do    *)
(* the REST operations on slices, so each is one action.                   *)
(*                                                                         *)
(* Time is counted in seconds, as std::time does.                          *)
(***************************************************************************)
EXTENDS Integers, Sequences, FiniteSets, Functions

CONSTANTS
  Slice,
  DefaultSlice,    \* the slice App::init creates
  Shares,          \* the shares a REST body may carry
  Traffic,         \* what a report may say of one slice: [dl, ul], in bytes
  Judged,          \* what SharesFollowTraffic lets the next report say of one
  Threshold,       \* throttle_threshold
  Period,          \* throttle_period
  ThrottleShare,   \* throttle_share
  MaxTime,         \* bound: the last second modelled
  MaxReports       \* bound: the reports modelled

DefaultShare == 512
MinShare == 64
MaxShare == 1024
NotSaved == -1

ASSUME ShareControlAssumption ==
  /\ DefaultSlice \in Slice
  /\ Shares \subseteq 0..MaxShare
  /\ ThrottleShare \in 0..MaxShare
  /\ Traffic \subseteq Judged /\ Judged \subseteq [dl : Nat, ul : Nat]
  /\ Threshold \in Nat
  /\ Period \in Nat \ {0}
  /\ MaxTime \in Nat /\ MaxReports \in Nat

VARIABLES
  policy,    \* the policy of each slice in the db
  now,       \* the clock
  reports    \* reports handled so far

vars == <<policy, now, reports>>

slices == DOMAIN policy

Policy ==
  [share : 0..MaxShare, auto : BOOLEAN, throttle : BOOLEAN,
   throttling : BOOLEAN, end : Nat, saved : {NotSaved} \cup 0..MaxShare,
   queue : Seq([time : Nat, bytes : Nat]), total : Nat]

\* A policy is well typed, has a share and an end to return to exactly while it
\* is throttling, and its index is a queue in the order of time.
TypeOK ==
  /\ now \in 0..MaxTime /\ reports \in 0..MaxReports
  /\ slices \subseteq Slice
  /\ \A s \in slices :
       /\ policy[s] \in Policy
       /\ policy[s].throttling <=> policy[s].saved # NotSaved
       /\ policy[s].throttling <=> policy[s].end # 0
       /\ \A i \in 2..Len(policy[s].queue) :
            policy[s].queue[i - 1].time <= policy[s].queue[i].time

New(v, auto, throttle) ==
  [share |-> v, auto |-> auto, throttle |-> throttle,
   throttling |-> FALSE, end |-> 0, saved |-> NotSaved,
   queue |-> <<>>, total |-> 0]

Init ==
  /\ policy = [s \in {DefaultSlice} |-> New(DefaultShare, FALSE, FALSE)]
  /\ now = 0 /\ reports = 0

-----------------------------------------------------------------------------
(* Slice::create, App::del and AllocationPolicy::update *)

PostSlice(s, v, auto, throttle) ==
  /\ s \notin slices
  /\ policy' = [r \in slices \cup {s} |->
                  IF r = s THEN New(v, auto, throttle) ELSE policy[r]]
  /\ UNCHANGED <<now, reports>>

DeleteSlice(s) ==
  /\ s \in slices
  /\ policy' = Restrict(policy, slices \ {s})
  /\ UNCHANGED <<now, reports>>

\* A body that leaves a flag out keeps it.  Nothing else of the policy can be
\* changed, and throttling goes on as it was.
PutSlice(s, v, auto, throttle) ==
  /\ s \in slices
  /\ policy' = [policy EXCEPT ![s].share = v, ![s].auto = auto, ![s].throttle = throttle]
  /\ UNCHANGED <<now, reports>>

Tick ==
  /\ now < MaxTime /\ now' = now + 1
  /\ UNCHANGED <<policy, reports>>

-----------------------------------------------------------------------------
(* MetricsIndex: the traffic of the last Period seconds and its total *)

BytesOver(q, I) == SumFunctionOnSet([i \in DOMAIN q |-> q[i].bytes], I)
BytesOf(q) == BytesOver(q, DOMAIN q)

Old(m) == m.time < now - Period

\* How many metrics flush pops: from the front, until it finds one that is not old.
Popped(q) ==
  CHOOSE n \in 0..Len(q) : /\ \A i \in 1..n : Old(q[i])
                           /\ n < Len(q) => ~Old(q[n + 1])

\* Mutant of Flush: the total is not reduced.
FlushQueueOnly(p) == [p EXCEPT !.queue = SubSeq(@, Popped(@) + 1, Len(@))]

Flush(p) ==
  LET n == Popped(p.queue)
  IN [p EXCEPT !.queue = SubSeq(@, n + 1, Len(@)),
               !.total = @ - BytesOver(p.queue, 1..n)]

Add(p, t) ==
  Flush([p EXCEPT !.queue = Append(@, [time |-> now, bytes |-> t.dl + t.ul]),
                  !.total = @ + t.dl + t.ul])

-----------------------------------------------------------------------------
(* maybeEndThrottling and maybeStartThrottling, with the conditions of their *)
(* callers.  Neither changes the share: the loop aims it at a target, which  *)
(* is set, with all the others, only at the end.                             *)

\* Mutant of Refresh: only the slices of the report are flushed.
RefreshNothing(p) == p

\* A slice that may be throttled has its index flushed even if the report says
\* nothing of it.
Refresh(p) == IF p.throttle THEN Flush(p) ELSE p

Ends(p) == p.throttle /\ p.throttling /\ now >= p.end

\* Mutant of EndThrottling: the end is not reset.
EndThrottlingKeepsEnd(p) ==
  IF Ends(p) THEN [p EXCEPT !.throttling = FALSE, !.saved = NotSaved]
  ELSE p

EndThrottling(p) ==
  IF Ends(p) THEN [p EXCEPT !.throttling = FALSE, !.end = 0, !.saved = NotSaved]
  ELSE p

Starts(p) == p.throttle /\ ~p.throttling /\ p.total >= Threshold

StartThrottling(p) ==
  IF Starts(p)
  THEN [p EXCEPT !.throttling = TRUE, !.end = now + Period, !.saved = p.share]
  ELSE p

Throttle(p) == StartThrottling(EndThrottling(p))

\* Mutant of Target: the saved share is read after it is reset.
TargetForgotten(p) == IF Starts(EndThrottling(p)) THEN ThrottleShare ELSE p.share

\* Where the two loops aim a policy, the second one last; its share if neither
\* does.
Target(p) ==
  IF Starts(EndThrottling(p)) THEN ThrottleShare
  ELSE IF Ends(p) THEN p.saved
  ELSE p.share

\* A factor has been set.  It is zero when the share is on target already, and
\* not a number when both are zero.
Aimed(p) ==
  /\ Ends(p) \/ Starts(EndThrottling(p))
  /\ Target(p) # p.share \/ p.share = 0

-----------------------------------------------------------------------------
(* The shares a report sets *)

Clamp(v) == IF v < MinShare THEN MinShare ELSE IF v > MaxShare THEN MaxShare ELSE v

\* Shares that c, rescaled by the ratio n/d, may end up with.  The code goes by
\* way of a float factor, c + c * (n - d) / d, so that a result that should be
\* whole may come out just below and lose one: 100 times 911/100 makes 910.  For
\* which c, n and d it does is left open here.
Rescale(c, n, d) ==
  LET v == (c * n) \div d IN
  IF n = d THEN {Clamp(c)}
  ELSE {Clamp(v)} \cup {Clamp(w) : w \in IF (c * n) % d = 0 THEN {v - 1} ELSE {}}

\* The factor is infinite, or not a number: its conversion to int is undefined
\* behaviour, the least int on x86 and a saturated one elsewhere.
Unbounded(c) == IF c = 0 THEN {MinShare} ELSE {MinShare, MaxShare}

\* The policies once report r, a function from slice names, is in their indexes.
Indexed(r) ==
  [s \in slices |->
     Refresh(IF s \in DOMAIN r THEN Add(policy[s], r[s]) ELSE policy[s])]

\* Mutant of Equalized: every reported slice is equalized.
EqualizedAll(P, r) == DOMAIN r \cap slices

\* The equalized slices a report names.
Equalized(P, r) == {s \in DOMAIN r \cap slices : P[s].auto}

DlSum(S, r) == SumFunctionOnSet([s \in DOMAIN r |-> r[s].dl], S)

\* Those whose share no throttling has just aimed elsewhere, and whether one of
\* them is more than 5% away from the mean.
Candidates(P, r) == {s \in Equalized(P, r) : ~Aimed(P[s])}

Unequal(P, r) ==
  LET E == Equalized(P, r)
      sum == DlSum(E, r)
      num == Cardinality(E)
      Apart(a, b) == IF a > b THEN a - b ELSE b - a
  IN \E s \in Candidates(P, r) : 20 * Apart(sum, num * r[s].dl) > num * r[s].dl

NewShares(P, r, equalize, s) ==
  LET E == Equalized(P, r)
      c == P[s].share
  IN IF Aimed(P[s])
     THEN IF c = 0 THEN Unbounded(c) ELSE Rescale(c, Target(P[s]), c)
     ELSE IF equalize /\ s \in Candidates(P, r)
     THEN IF r[s].dl = 0 THEN Unbounded(c)
          ELSE Rescale(c, DlSum(E, r), Cardinality(E) * r[s].dl)
     ELSE {Clamp(c)}

\* App::handle(KpmIndication) for a report r that says busy if some slice it
\* names used more than 15% of an even allocation of the PRBs.  Only that opens
\* the way to equalizing.  A report without slices changes nothing.
Indication(r, busy) ==
  LET P == Indexed(r)
      equalize == busy /\ Unequal(P, r)
      Choices == {f \in [slices -> UNION {NewShares(P, r, equalize, s) : s \in slices}] :
                    \A s \in slices : f[s] \in NewShares(P, r, equalize, s)}
  IN /\ reports < MaxReports /\ reports' = reports + 1
     /\ \E new \in Choices :
          policy' = [s \in slices |-> [Throttle(P[s]) EXCEPT !.share = new[s]]]
     /\ UNCHANGED now

Reports(T) == UNION {[S -> T] : S \in SUBSET Slice \ {{}}}

-----------------------------------------------------------------------------

Next ==
  \/ \E s \in Slice, v \in Shares, auto, throttle \in BOOLEAN :
       PostSlice(s, v, auto, throttle) \/ PutSlice(s, v, auto, throttle)
  \/ \E s \in Slice : DeleteSlice(s)
  \/ \E r \in Reports(Traffic), busy \in BOOLEAN : Indication(r, busy)
  \/ Tick

Spec == Init /\ [][Next]_vars

-----------------------------------------------------------------------------
(* Properties *)

Handled == reports' # reports

\* The total of an index, kept up by additions and subtractions, is that of the
\* metrics still queued, whatever was queued and flushed when.
TotalIsQueued == \A s \in slices : policy[s].total = BytesOf(policy[s].queue)

\* A report leaves a throttled policy throttling if its time is not up or if the
\* slice's traffic in the last Period seconds reaches the threshold, and only
\* then: traffic older than that counts for nothing, though no report has named
\* the slice since.
ThrottleFollowsTraffic ==
  [][Handled =>
       \A s \in {x \in slices : policy[x].throttle} :
         LET q == policy'[s].queue
             traffic == BytesOver(q, {i \in DOMAIN q : ~Old(q[i])})
         IN policy'[s].throttling <=>
              \/ policy[s].throttling /\ now < policy[s].end
              \/ traffic >= Threshold]_vars

\* A policy that stops throttling gets back the share it saved when it started,
\* whatever shares came and went meanwhile, but for the floor and the one that the
\* float factor may cost.  No factor leads from a share of zero back to it, and none
\* is needed from the share itself, so that it may be equalized at once.
ShareReturns ==
  [][Handled =>
       \A s \in slices :
         LET p == policy[s] IN
         /\ p.throttling /\ ~policy'[s].throttling
         /\ p.share # 0 /\ (p.auto => p.share # p.saved)
         => policy'[s].share \in {Clamp(p.saved), Clamp(p.saved - 1)}]_vars

\* Whatever report comes next, it moves the shares its throttling leaves alone
\* towards the mean of the equalized slices, whatever the others sent: one of
\* them that sent something never loses by being below the mean or gains by being
\* above it, and a slice that is not equalized only gets the floor.
SharesFollowTraffic ==
  reports < MaxReports => \A r \in Reports(Judged) :
    LET P == Indexed(r) IN
    \A s \in {x \in slices : ~Aimed(P[x])} :
      LET E == {x \in DOMAIN r \cap slices : policy[x].auto}
          others == DlSum(E \ {s}, r)
          mine == (Cardinality(E) - 1) * r[s].dl
          old == Clamp(policy[s].share)
      IN \A new \in NewShares(P, r, Unequal(P, r), s) :
           /\ s \notin E => new = old
           /\ s \in E /\ r[s].dl > 0 =>
                /\ mine <= others => new >= old
                /\ mine >= others => new <= old

\* "Caller must call setShare() on the new value": a policy that throttles again
\* as soon as its time is up still has the share to return to that it had.  The
\* caller sets the shares only after maybeStartThrottling has saved the current
\* one, which is the throttle share.
SavedShareSurvives ==
  [][\A s \in slices : Handled /\ policy[s].throttling /\ policy'[s].throttling
       => policy'[s].saved = policy[s].saved]_vars

=============================================================================
