------------------------------- MODULE Delivery -------------------------------
(***************************************************************************)
(* From the registry to the NodeBs.  Registry says what the control        *)
(* requests of an operation add up to, as if each reached its NodeB at     *)
(* once and in order; here the two threads that issue them, App.mutex, the *)
(* instance ids, and the requests on their way to each NodeB are steps of  *)
(* their own.  UEs are left out: their requests go the same way.           *)
(*                                                                         *)
(* An operation of the REST thread, and the closed loop of the RMR thread, *)
(* hold App.mutex until their last request is sent.  Nothing can see the   *)
(* db in between, so the changes to it are made when the mutex is taken,   *)
(* and the reply is the one the operation will end with.                   *)
(***************************************************************************)
EXTENDS Integers, FiniteSets, SequencesExt

CONSTANTS
  NodeB, Slice, DefaultSlice, Shares, MaxOfSlices,   \* as in Registry
  LastId,        \* the last instance id a RICrequestID can hold: 65535
  MaxId,         \* instance ids from here on are not told apart
  MaxInFlight    \* bound: no operation starts with more on the way to a NodeB

DefaultShare == 512
MinShare == 64
NoShare == -1
NoSlice == "no slice"    \* an empty Ue::bound_slice

Rest == "REST worker"
Rmr == "RMR thread"
Free == "free"
Thread == {Rest, Rmr}

ASSUME DeliveryAssumption ==
  /\ IsFiniteSet(NodeB) /\ IsFiniteSet(Slice)
  /\ DefaultSlice \in Slice /\ NoSlice \notin Slice
  /\ Shares \subseteq 0..1024 /\ DefaultShare \in Shares
  /\ MaxOfSlices \in Nat \ {0} /\ LastId \in Nat /\ MaxInFlight \in Nat
  /\ MaxId \in 1..(LastId + 1)

VARIABLES
  nodebs, slices, bound, share, reply,   \* as in Registry
  mutex,    \* App.mutex: the thread that holds it, or Free
  todo,     \* the requests each thread still has to send
  nextId,   \* E2AP::next_instance_id, MaxId standing for all that follow
  chan,     \* the control requests on their way to each NodeB, in order
  ran       \* the share of each slice at each NodeB

db == <<nodebs, slices, bound, share>>
vars == <<nodebs, slices, bound, share, reply, mutex, todo, nextId, chan, ran>>

\* Of a control request, what it does to a NodeB: give its slices this share, or
\* delete them (NoShare).  Status and subscription requests have no slices.
Request == [meid : NodeB, slices : SUBSET Slice, share : Shares \cup {NoShare}]

TypeOK ==
  /\ nodebs \in SUBSET NodeB
  /\ slices \in SUBSET Slice
  /\ bound \in [NodeB -> SUBSET Slice]
  /\ share \in [Slice -> Shares \cup {NoShare}]
  /\ reply \in {200, 201, 403, 404}
  /\ mutex \in Thread \cup {Free}
  /\ todo \in [Thread -> Seq(Request)]
  /\ nextId \in 1..MaxId
  /\ chan \in [NodeB -> Seq(Request)]
  /\ ran \in [NodeB -> [Slice -> Shares \cup {NoShare}]]

Init ==
  /\ nodebs = {} /\ slices = {DefaultSlice}
  /\ bound = [n \in NodeB |-> {}]
  /\ share = [s \in Slice |-> IF s = DefaultSlice THEN DefaultShare ELSE NoShare]
  /\ reply = 200
  /\ mutex = Free
  /\ todo = [t \in Thread |-> <<>>]
  /\ nextId = 1
  /\ chan = [n \in NodeB |-> <<>>]
  /\ ran = [n \in NodeB |-> [s \in Slice |-> NoShare]]

(***************************************************************************)
(* Control requests.                                                       *)
(***************************************************************************)

SliceConfig(n, s, v) == [meid |-> n, slices |-> {s}, share |-> v]

\* A list longer than maxOfSlices leaves as an empty message.
SliceDelete(n, S) ==
  [meid |-> n, slices |-> IF Cardinality(S) <= MaxOfSlices THEN S ELSE {},
   share |-> NoShare]

SliceStatus(n) == [meid |-> n, slices |-> {}, share |-> NoShare]
Subscription(n) == SliceStatus(n)

BoundTo(s) == {n \in nodebs : s \in bound[n]}

\* One request for each bound NodeB, in some order of their names.
ConfigBound(s, v) == SetToSeq({SliceConfig(n, s, v) : n \in BoundTo(s)})
DeleteBound(s) == SetToSeq({SliceDelete(n, {s}) : n \in BoundTo(s)})

\* What a NodeB does with a request.
Apply(config, r) == [s \in Slice |-> IF s \in r.slices THEN r.share ELSE config[s]]

(***************************************************************************)
(* Operations: each takes App.mutex, and holds it while it has requests.   *)
(***************************************************************************)

Idle(t) == todo[t] = <<>> /\ mutex # t

Lock(t) ==
  /\ Idle(t) /\ mutex = Free
  /\ \A n \in NodeB : Len(chan[n]) <= MaxInFlight
  /\ UNCHANGED <<nextId, chan, ran>>

\* Mutant of Begin: the mutex is released before the requests are sent.
BeginUnlocked(t, requests) ==
  /\ Lock(t)
  /\ todo' = [todo EXCEPT ![t] = requests]
  /\ UNCHANGED mutex

Begin(t, requests) ==
  /\ Lock(t)
  /\ todo' = [todo EXCEPT ![t] = requests]
  /\ mutex' = IF requests = <<>> THEN Free ELSE t

Refuse(code) == Begin(Rest, <<>>) /\ reply' = code /\ UNCHANGED db

\* The mutex is released before the status request and the subscription.
AddNodeB(n) ==
  \/ n \in nodebs /\ Refuse(403)
  \/ /\ n \notin nodebs
     /\ Lock(Rest)
     /\ todo' = [todo EXCEPT ![Rest] = <<SliceStatus(n), Subscription(n)>>]
     /\ nodebs' = nodebs \cup {n}
     /\ reply' = 201
     /\ UNCHANGED <<mutex, slices, bound, share>>

AddSlice(s, v) ==
  \/ s \in slices /\ Refuse(403)
  \/ /\ s \notin slices
     /\ Begin(Rest, <<>>)
     /\ slices' = slices \cup {s}
     /\ share' = [share EXCEPT ![s] = v]
     /\ reply' = 201
     /\ UNCHANGED <<nodebs, bound>>

UpdateSlice(s, v) ==
  \/ s \notin slices /\ Refuse(404)
  \/ /\ s \in slices
     /\ Begin(Rest, ConfigBound(s, v))
     /\ share' = [share EXCEPT ![s] = v]
     /\ reply' = 200
     /\ UNCHANGED <<nodebs, slices, bound>>

DelSlice(s) ==
  \/ s \notin slices /\ Refuse(404)
  \/ /\ s \in slices
     /\ Begin(Rest, DeleteBound(s))
     /\ slices' = slices \ {s}
     /\ share' = [share EXCEPT ![s] = NoShare]
     /\ reply' = 200
     /\ UNCHANGED <<nodebs, bound>>

\* Deleting the subscriptions is E2ap's.
DelNodeB(n) ==
  \/ n \notin nodebs /\ Refuse(404)
  \/ /\ n \in nodebs
     /\ Begin(Rest, IF bound[n] = {} THEN <<>> ELSE <<SliceDelete(n, bound[n])>>)
     /\ nodebs' = nodebs \ {n}
     /\ bound' = [bound EXCEPT ![n] = {}]
     /\ reply' = 200
     /\ UNCHANGED <<slices, share>>

BindSliceNodeB(s, n) ==
  \/ (s \notin slices \/ n \notin nodebs) /\ Refuse(404)
  \/ s \in slices /\ n \in nodebs /\ s \in bound[n] /\ Refuse(403)
  \/ /\ s \in slices /\ n \in nodebs /\ s \notin bound[n]
     /\ Begin(Rest, <<SliceConfig(n, s, share[s])>>)
     /\ bound' = [bound EXCEPT ![n] = @ \cup {s}]
     /\ reply' = 200
     /\ UNCHANGED <<nodebs, slices, share>>

UnbindSliceNodeB(s, n) ==
  \/ (s \notin slices \/ n \notin nodebs \/ s \notin bound[n]) /\ Refuse(404)
  \/ /\ s \in slices /\ n \in nodebs /\ s \in bound[n]
     /\ Begin(Rest, <<SliceDelete(n, {s})>>)
     /\ bound' = [bound EXCEPT ![n] = @ \ {s}]
     /\ reply' = 200
     /\ UNCHANGED <<nodebs, slices, share>>

\* Mutant of KpmIndication: the shares are not capped.
KpmIndicationUncapped ==
  \E new \in [slices -> {v \in Shares : v >= MinShare} \cup {2048}] :
    LET changed == {p \in slices \X nodebs :
                      p[1] \in bound[p[2]] /\ new[p[1]] # share[p[1]]}
    IN
    /\ Begin(Rmr, SetToSeq({SliceConfig(p[2], p[1], new[p[1]]) : p \in changed}))
    /\ share' = [s \in Slice |-> IF s \in slices THEN new[s] ELSE share[s]]
    /\ UNCHANGED <<nodebs, slices, bound, reply>>

\* A KPM report may change any of the shares; those that changed are sent.
KpmIndication ==
  \E new \in [slices -> {v \in Shares : v >= MinShare}] :
    LET changed == {p \in slices \X nodebs :
                      p[1] \in bound[p[2]] /\ new[p[1]] # share[p[1]]}
    IN
    /\ Begin(Rmr, SetToSeq({SliceConfig(p[2], p[1], new[p[1]]) : p \in changed}))
    /\ share' = [s \in Slice |-> IF s \in slices THEN new[s] ELSE share[s]]
    /\ UNCHANGED <<nodebs, slices, bound, reply>>

(***************************************************************************)
(* Sending.  A request gets the next id; one whose id does not fit cannot  *)
(* be encoded, and send_control_request returns false, which no caller     *)
(* looks at.  Requests without slices are not followed further.            *)
(***************************************************************************)

Encodes(id) == id <= LastId

\* Mutant of Send: it tries to take App.mutex, which its caller holds, until it can.
SendRelocking(t) ==
  LET r == Head(todo[t]) IN
  \/ todo[t] # <<>> /\ mutex # Free /\ UNCHANGED vars
  \/ /\ todo[t] # <<>> /\ mutex = Free
     /\ todo' = [todo EXCEPT ![t] = Tail(@)]
     /\ nextId' = IF nextId < MaxId THEN nextId + 1 ELSE nextId
     /\ chan' = IF Encodes(nextId) /\ r.slices # {}
                THEN [chan EXCEPT ![r.meid] = Append(@, r)]
                ELSE chan
     /\ UNCHANGED <<db, reply, mutex, ran>>

Send(t) ==
  LET r == Head(todo[t]) IN
  /\ todo[t] # <<>>
  /\ todo' = [todo EXCEPT ![t] = Tail(@)]
  /\ nextId' = IF nextId < MaxId THEN nextId + 1 ELSE nextId
  /\ chan' = IF Encodes(nextId) /\ r.slices # {}
             THEN [chan EXCEPT ![r.meid] = Append(@, r)]
             ELSE chan
  /\ UNCHANGED <<db, reply, mutex, ran>>

\* The operation's last unlock.
Unlock(t) ==
  /\ mutex = t /\ todo[t] = <<>>
  /\ mutex' = Free
  /\ UNCHANGED <<db, reply, todo, nextId, chan, ran>>

\* RMR and E2 deliver a NodeB's requests in the order they were sent.
Deliver(n) ==
  /\ chan[n] # <<>>
  /\ ran' = [ran EXCEPT ![n] = Apply(@, Head(chan[n]))]
  /\ chan' = [chan EXCEPT ![n] = Tail(@)]
  /\ UNCHANGED <<db, reply, mutex, todo, nextId>>

-----------------------------------------------------------------------------

Northbound ==
  \/ \E n \in NodeB : AddNodeB(n) \/ DelNodeB(n)
  \/ \E s \in Slice, v \in Shares : AddSlice(s, v) \/ UpdateSlice(s, v)
  \/ \E s \in Slice : DelSlice(s)
  \/ \E s \in Slice, n \in NodeB : BindSliceNodeB(s, n) \/ UnbindSliceNodeB(s, n)

Next ==
  \/ Northbound
  \/ KpmIndication
  \/ \E t \in Thread : Send(t) \/ Unlock(t)
  \/ \E n \in NodeB : Deliver(n)

\* A thread that has begun an operation goes on with it, and what was sent
\* arrives; clients and reports owe nothing.
Fairness ==
  /\ \A t \in Thread : WF_vars(Send(t) \/ Unlock(t))
  /\ \A n \in NodeB : WF_vars(Deliver(n))

Spec == Init /\ [][Next]_vars /\ Fairness

(***************************************************************************)
(* Properties.                                                             *)
(***************************************************************************)

\* The share the last of requests q that names slice s to NodeB n gives it, or v
\* if none does.
LastShare(q, n, s, v) ==
  LET I == {i \in DOMAIN q : q[i].meid = n /\ s \in q[i].slices}
  IN IF I = {} THEN v ELSE q[CHOOSE i \in I : \A j \in I : j <= i].share

\* What a NodeB runs once everything on its way to it, and everything an
\* operation still has to send it, has arrived.
Told(n) ==
  [s \in Slice |-> LastShare(todo[Rest], n, s, LastShare(todo[Rmr], n, s,
                     LastShare(chan[n], n, s, ran[n][s])))]

R == INSTANCE Registry WITH
       Ue <- {}, ues <- {},
       members <- [s \in Slice |-> {}], boundSlice <- [u \in {} |-> NoSlice],
       nbShare <- [n \in NodeB |-> Told(n)], nbUes <- [n \in NodeB |-> {}]

\* With requests sent one by one by two threads, and on their way for as long as
\* it takes, each NodeB is headed for what Registry says it has been told: no
\* request overtakes one of the other thread that was decided on before it.
ImplementsRegistry == R!Spec

\* Only the thread that holds App.mutex has configuration left to send: whatever
\* is decided about a NodeB is sent before the other thread can decide anything.
OnlyHolderConfigures ==
  \A t \in Thread : \A i \in DOMAIN todo[t] :
    todo[t][i].slices # {} => mutex = t

Quiet(n) == chan[n] = <<>> /\ \A t \in Thread : todo[t] = <<>>

\* When nothing is on its way, a NodeB runs only slices that are bound to it,
\* each with the share the registry shows for it.
RunsTheRegistry ==
  \A n \in NodeB : Quiet(n) =>
    \A s \in Slice : ran[n][s] # NoShare =>
      n \in nodebs /\ s \in slices \cap bound[n] /\ ran[n][s] = share[s]

\* What an operation decides for a NodeB is in force there sooner or later, or
\* another operation decides otherwise.
InForce ==
  \A n \in NodeB, s \in Slice, v \in Shares \cup {NoShare} :
    Told(n)[s] = v ~> ran[n][s] = v \/ Told(n)[s] # v

\* "Delete a NodeB.  NexRAN unsubscribes from this NodeB via the RIC, and removes
\* any configuration applied to it": a NodeB that does not exist runs no slice
\* once everything sent has arrived.  From the 65536th request on nothing is
\* sent, and every reply is as before.
DeletedNodeBRunsNothing ==
  \A n \in NodeB \ nodebs : Quiet(n) => \A s \in Slice : ran[n][s] = NoShare

=============================================================================
