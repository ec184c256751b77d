-------------------------------- MODULE E2ap --------------------------------
(***************************************************************************)
(* The E2AP request tracker and its two callers.  The REST worker issues   *)
(* requests for the northbound operations; the RMR thread handles replies  *)
(* and indications, and issues control requests of its own when a KPM      *)
(* indication runs the closed loop.  Both go through E2AP.mutex for each   *)
(* table access, and hold App.mutex around the registry.  The RIC and the  *)
(* network are external: they may answer late, out of order, twice, with a *)
(* failure, or never.                                                      *)
(*                                                                         *)
(* A critical section of E2AP.mutex that calls nothing else is one step,   *)
(* taken when the mutex is free; delete_all_subscriptions, which sends     *)
(* while it holds the mutex, takes and releases it in steps of their own.  *)
(***************************************************************************)
EXTENDS Naturals, Sequences, FiniteSets

CONSTANTS
  NodeB,
  MaxId,            \* bound: no operation starts once the next instance id is past it
  Unreliable,       \* whether replies are duplicated and sends fail
  StrayOutcomes     \* what deleting an Indication with an unset model may do

Rest == "rest"
Rmr == "rmr"
Thread == {Rest, Rmr}
Free == "free"

ASSUME E2apAssumption ==
  /\ "none" \notin NodeB
  /\ MaxId \in Nat
  /\ Unreliable \in BOOLEAN
  /\ StrayOutcomes \in SUBSET {"ignored", "crashed"}

VARIABLES
  nodebs,         \* the keys of db[NodeBResource]
  appMutex, e2apMutex,          \* the thread that holds each, or Free
  nextId,         \* next_instance_id
  controls,       \* ids of the control requests that await an ack
  pendingSubs,    \* pending_subscriptions: [id, meid]
  subs,           \* subscriptions: [subid, id, meid]
  pendingDels,    \* ids of pending_deletes
  job,            \* what each thread is in the middle of
  net,            \* messages in flight, both ways
  granted         \* the RIC's live subscriptions: [subid, id, meid]

mutexes == <<appMutex, e2apMutex>>
tables == <<controls, pendingSubs, subs, pendingDels>>
vars == <<nodebs, mutexes, nextId, tables, job, net, granted>>

-----------------------------------------------------------------------------
(* Messages and jobs *)

Subid(id) == 100 + id     \* the RIC chooses its own subscription ids

Msg(type, id, n) == [type |-> type, id |-> id, meid |-> n]

\* todo: the requests still to issue, as messages with no id yet;
\* id: the one taken for the first of them; m: the message being handled;
\* meid: the NodeB whose subscriptions are to be deleted, "none" if no such thing;
\* left: those of its subscriptions not yet looked at.
Idle == [pc |-> "idle", todo |-> <<>>, id |-> 0,
         m |-> Msg("none", 0, "none"), meid |-> "none", left |-> {}]

Requests == {"CtlReq", "SubReq", "DelReq"}
Replies == {"CtlReply", "SubResp", "SubFail", "DelResp", "DelFail", "Ind"}

Sub == [subid : Nat, id : Nat, meid : NodeB]
Todo == [type : {"CtlReq", "SubReq"}, id : {0}, meid : NodeB]

Job ==
  [pc : {"idle", "issue", "register", "transmit", "undo",
         "unsubscribe", "commit", "kpm", "crashed"},
   todo : Seq(Todo), id : Nat,
   m : [type : Replies \cup {"none"}, id : Nat, meid : NodeB \cup {"none"}],
   meid : NodeB \cup {"none"}, left : SUBSET Sub]

TypeOK ==
  /\ nodebs \in SUBSET NodeB
  /\ appMutex \in Thread \cup {Free} /\ e2apMutex \in Thread \cup {Free}
  /\ nextId \in Nat
  /\ controls \in SUBSET Nat /\ pendingDels \in SUBSET Nat
  /\ pendingSubs \in SUBSET [id : Nat, meid : NodeB]
  /\ subs \in SUBSET Sub /\ granted \in SUBSET Sub
  /\ net \in SUBSET [type : Requests \cup Replies, id : Nat, meid : NodeB]
  /\ job \in [Thread -> Job]

Init ==
  /\ nodebs = {}
  /\ appMutex = Free /\ e2apMutex = Free
  /\ nextId = 1
  /\ controls = {} /\ pendingSubs = {} /\ subs = {} /\ pendingDels = {}
  /\ job = [t \in Thread |-> Idle]
  /\ net = {} /\ granted = {}

Alive == job[Rmr].pc # "crashed"
At(t, pc) == Alive /\ job[t].pc = pc
Goto(t, pc) == job' = [job EXCEPT ![t].pc = pc]

-----------------------------------------------------------------------------
(* The requests a thread issues, one after the other *)

\* get_next_instance_id, for the next ControlRequest or SubscriptionRequest.
Issue(t) ==
  /\ At(t, "issue") /\ job[t].todo # <<>> /\ e2apMutex = Free
  /\ nextId' = nextId + 1
  /\ job' = [job EXCEPT ![t].id = nextId, ![t].pc = "register"]
  /\ UNCHANGED <<nodebs, mutexes, tables, net, granted>>

Current(t) == Msg(job[t].todo[1].type, job[t].id, job[t].todo[1].meid)

\* The next request of the job; the current one has been sent or dropped.
Advance(t) ==
  job' = [job EXCEPT ![t].todo = Tail(@), ![t].id = 0, ![t].pc = "issue"]

\* Mutant of Register: a subscription request is sent unregistered.
RegisterLate(t) ==
  LET r == Current(t) IN
  /\ At(t, "register") /\ e2apMutex = Free
  /\ controls' = controls \cup {id \in {r.id} : r.type = "CtlReq"}
  /\ Goto(t, "transmit")
  /\ UNCHANGED <<nodebs, mutexes, nextId, pendingSubs, subs, pendingDels, net, granted>>

\* A request is entered in its table before it is sent; one whose id is there
\* already is dropped.
Register(t) ==
  LET r == Current(t) IN
  /\ At(t, "register") /\ e2apMutex = Free
  /\ UNCHANGED <<nodebs, mutexes, nextId, subs, pendingDels, net, granted>>
  /\ IF \/ r.type = "CtlReq" /\ r.id \in controls
        \/ r.type = "SubReq" /\ r.id \in {p.id : p \in pendingSubs}
     THEN Advance(t) /\ UNCHANGED <<controls, pendingSubs>>
     ELSE /\ controls' = controls \cup {id \in {r.id} : r.type = "CtlReq"}
          /\ pendingSubs' = pendingSubs \cup
               {p \in {[id |-> r.id, meid |-> r.meid]} : r.type = "SubReq"}
          /\ Goto(t, "transmit")

\* App::send_message, outside the mutex.
Transmit(t) ==
  /\ At(t, "transmit")
  /\ \/ net' = net \cup {Current(t)} /\ Advance(t)
     \/ Unreliable /\ Goto(t, "undo") /\ UNCHANGED net
  /\ UNCHANGED <<nodebs, mutexes, nextId, tables, granted>>

\* A request that could not be sent is taken out again.
Undo(t) ==
  LET r == Current(t) IN
  /\ At(t, "undo") /\ e2apMutex = Free
  /\ controls' = controls \ {id \in {r.id} : r.type = "CtlReq"}
  /\ pendingSubs' = {p \in pendingSubs : ~(r.type = "SubReq" /\ p.id = r.id)}
  /\ Advance(t)
  /\ UNCHANGED <<nodebs, mutexes, nextId, subs, pendingDels, net, granted>>

\* Mutant of Finish: an early return forgets App.mutex.
FinishLocked(t) ==
  /\ At(t, "issue") /\ job[t].todo = <<>> /\ job[t].meid = "none"
  /\ job' = [job EXCEPT ![t] = Idle]
  /\ UNCHANGED <<nodebs, mutexes, nextId, tables, net, granted>>

\* Every request is out: release App.mutex if this operation holds it.  A
\* deletion of a NodeB goes on to delete_all_subscriptions.
Finish(t) ==
  /\ At(t, "issue") /\ job[t].todo = <<>> /\ job[t].meid = "none"
  /\ appMutex' = IF appMutex = t THEN Free ELSE appMutex
  /\ job' = [job EXCEPT ![t] = Idle]
  /\ UNCHANGED <<nodebs, e2apMutex, nextId, tables, net, granted>>

-----------------------------------------------------------------------------
(* The REST worker *)

\* POST of a NodeB.  add releases App.mutex before it sends the slice status
\* request and the KPM subscription.
PostNodeB(n) ==
  /\ At(Rest, "idle") /\ appMutex = Free /\ n \notin nodebs /\ nextId <= MaxId
  /\ nodebs' = nodebs \cup {n}
  /\ job' = [job EXCEPT ![Rest].pc = "issue",
                        ![Rest].todo = <<Msg("CtlReq", 0, n), Msg("SubReq", 0, n)>>]
  /\ UNCHANGED <<mutexes, nextId, tables, net, granted>>

\* Any other operation on bindings, slices or UEs: it holds App.mutex while it
\* sends a control request to a NodeB.
ConfigureNodeB(n) ==
  /\ At(Rest, "idle") /\ appMutex = Free /\ n \in nodebs /\ nextId <= MaxId
  /\ appMutex' = Rest
  /\ job' = [job EXCEPT ![Rest].pc = "issue", ![Rest].todo = <<Msg("CtlReq", 0, n)>>]
  /\ UNCHANGED <<nodebs, e2apMutex, nextId, tables, net, granted>>

\* Mutant of DeleteNodeB: App.mutex is not taken.
DeleteNodeBUnlocked(n) ==
  /\ At(Rest, "idle") /\ n \in nodebs
  /\ job' = [job EXCEPT ![Rest].pc = "issue", ![Rest].meid = n]
  /\ UNCHANGED <<nodebs, mutexes, nextId, tables, net, granted>>

\* DELETE of a NodeB, with or without slices to delete from it.
DeleteNodeB(n) ==
  /\ At(Rest, "idle") /\ appMutex = Free /\ n \in nodebs
  /\ appMutex' = Rest
  /\ \E todo \in {<<>>, <<Msg("CtlReq", 0, n)>>} :
       /\ todo = <<>> \/ nextId <= MaxId
       /\ job' = [job EXCEPT ![Rest].pc = "issue", ![Rest].todo = todo,
                             ![Rest].meid = n]
  /\ UNCHANGED <<nodebs, e2apMutex, nextId, tables, net, granted>>

\* delete_all_subscriptions takes E2AP.mutex for its whole loop.
LockSubscriptions ==
  /\ At(Rest, "issue") /\ job[Rest].todo = <<>> /\ job[Rest].meid # "none"
  /\ e2apMutex = Free /\ e2apMutex' = Rest
  /\ job' = [job EXCEPT ![Rest].pc = "unsubscribe",
                        ![Rest].left = {s \in subs : s.meid = job[Rest].meid}]
  /\ UNCHANGED <<nodebs, appMutex, nextId, tables, net, granted>>

\* _send_subscription_delete_request, for the ids of the RIC's response.  With
\* "locked" it trusts its caller to hold the mutex; without, it takes it.
SendDelete(s, locked) ==
  /\ locked \/ e2apMutex = Free
  /\ \/ s.id \in pendingDels /\ UNCHANGED <<pendingDels, net>>
     \/ /\ s.id \notin pendingDels
        /\ pendingDels' = pendingDels \cup {s.id}
        /\ net' = net \cup {Msg("DelReq", s.id, job[Rest].meid)}
     \/ /\ s.id \notin pendingDels
        /\ Unreliable /\ UNCHANGED <<pendingDels, net>>

\* Mutant of DeleteSubscription: the mutex is taken again for each request.
DeleteSubscriptionRelocking ==
  /\ At(Rest, "unsubscribe")
  /\ \E s \in job[Rest].left :
       /\ SendDelete(s, FALSE)
       /\ job' = [job EXCEPT ![Rest].left = @ \ {s}]
  /\ UNCHANGED <<nodebs, mutexes, nextId, controls, pendingSubs, subs, granted>>

DeleteSubscription ==
  /\ At(Rest, "unsubscribe")
  /\ \E s \in job[Rest].left :
       /\ SendDelete(s, TRUE)
       /\ job' = [job EXCEPT ![Rest].left = @ \ {s}]
  /\ UNCHANGED <<nodebs, mutexes, nextId, controls, pendingSubs, subs, granted>>

\* The NodeB is erased from the db once its subscriptions have been dealt with.
EraseNodeB ==
  /\ At(Rest, "unsubscribe") /\ job[Rest].left = {}
  /\ nodebs' = nodebs \ {job[Rest].meid}
  /\ appMutex' = Free /\ e2apMutex' = Free
  /\ job' = [job EXCEPT ![Rest] = Idle]
  /\ UNCHANGED <<nextId, tables, net, granted>>

-----------------------------------------------------------------------------
(* The RMR thread: E2AP::handle_message *)

\* A message is delivered; an unreliable network may deliver it again.
Take(m) ==
  /\ At(Rmr, "idle") /\ e2apMutex = Free
  /\ m \in net
  /\ net' = net \ {m} \/ (Unreliable /\ net' = net)

\* Mutant of ReceiveSubResponse: a response is believed without a request.
ReceiveSubResponseUnmatched(m) ==
  /\ m.type = "SubResp" /\ Take(m)
  /\ job' = [job EXCEPT ![Rmr].pc = "commit", ![Rmr].m = m]
  /\ UNCHANGED <<nodebs, mutexes, nextId, tables, granted>>

\* A response is matched under the mutex and committed in a second critical
\* section; one that matches nothing is ignored.
ReceiveSubResponse(m) ==
  /\ m.type = "SubResp" /\ Take(m)
  /\ IF \E p \in pendingSubs : p.id = m.id
     THEN \E p \in pendingSubs :
            /\ p.id = m.id
            /\ job' = [job EXCEPT ![Rmr].pc = "commit", ![Rmr].m = [m EXCEPT !.meid = p.meid]]
     ELSE UNCHANGED job
  /\ UNCHANGED <<nodebs, mutexes, nextId, tables, granted>>

ReceiveDelResponse(m) ==
  /\ m.type = "DelResp" /\ Take(m)
  /\ IF m.id \in pendingDels
     THEN job' = [job EXCEPT ![Rmr].pc = "commit", ![Rmr].m = m]
     ELSE UNCHANGED job
  /\ UNCHANGED <<nodebs, mutexes, nextId, tables, granted>>

\* Mutants of CommitSubscription: the response's job is cleared too early, and
\* the request stays pending.
CommitSubscriptionCleared ==
  LET m == [Idle.m EXCEPT !.id = job[Rmr].m.id] IN
  /\ At(Rmr, "commit") /\ job[Rmr].m.type = "SubResp" /\ e2apMutex = Free
  /\ subs' = subs \cup {[subid |-> Subid(m.id), id |-> m.id, meid |-> m.meid]}
  /\ pendingSubs' = {p \in pendingSubs : p.id # m.id}
  /\ job' = [job EXCEPT ![Rmr] = Idle]
  /\ UNCHANGED <<nodebs, mutexes, nextId, controls, pendingDels, net, granted>>

CommitSubscriptionPending ==
  LET m == job[Rmr].m IN
  /\ At(Rmr, "commit") /\ m.type = "SubResp" /\ e2apMutex = Free
  /\ subs' = {s \in subs : s.subid # Subid(m.id)}
               \cup {[subid |-> Subid(m.id), id |-> m.id, meid |-> m.meid]}
  /\ job' = [job EXCEPT ![Rmr] = Idle]
  /\ UNCHANGED <<nodebs, mutexes, nextId, controls, pendingSubs, pendingDels, net, granted>>

CommitSubscription ==
  LET m == job[Rmr].m IN
  /\ At(Rmr, "commit") /\ m.type = "SubResp" /\ e2apMutex = Free
  /\ subs' = {s \in subs : s.subid # Subid(m.id)}
               \cup {[subid |-> Subid(m.id), id |-> m.id, meid |-> m.meid]}
  /\ pendingSubs' = {p \in pendingSubs : p.id # m.id}
  /\ job' = [job EXCEPT ![Rmr] = Idle]
  /\ UNCHANGED <<nodebs, mutexes, nextId, controls, pendingDels, net, granted>>

\* Mutant of CommitDelete: the delete stays pending.
CommitDeletePending ==
  LET m == job[Rmr].m IN
  /\ At(Rmr, "commit") /\ m.type = "DelResp" /\ e2apMutex = Free
  /\ subs' = {s \in subs : s.subid # Subid(m.id)}
  /\ job' = [job EXCEPT ![Rmr] = Idle]
  /\ UNCHANGED <<nodebs, mutexes, nextId, controls, pendingSubs, pendingDels, net, granted>>

CommitDelete ==
  LET m == job[Rmr].m IN
  /\ At(Rmr, "commit") /\ m.type = "DelResp" /\ e2apMutex = Free
  /\ subs' = {s \in subs : s.subid # Subid(m.id)}
  /\ pendingDels' = pendingDels \ {m.id}
  /\ job' = [job EXCEPT ![Rmr] = Idle]
  /\ UNCHANGED <<nodebs, mutexes, nextId, controls, pendingSubs, net, granted>>

\* A reply that is looked up, handed to App::handle, which logs it, and dropped.
Dismiss(m) ==
  Take(m) /\ UNCHANGED <<nodebs, mutexes, nextId, tables, job, granted>>

\* decode_control_ack and decode_control_failure leave req unset, so
\* handle_message never gets to erase the control.
ReceiveControlReply(m) == m.type = "CtlReply" /\ Dismiss(m)

\* handle_message erases nothing for a failure.
ReceiveSubFailure(m) == m.type = "SubFail" /\ Dismiss(m)
ReceiveDelFailure(m) == m.type = "DelFail" /\ Dismiss(m)

ReceiveOther(m) ==
  ReceiveControlReply(m) \/ ReceiveSubFailure(m) \/ ReceiveDelFailure(m)

\* An indication is matched by the RMR subscription id; a report without slices
\* goes no further.  One that matches nothing, or that its model cannot decode, is
\* deleted together with its unset model pointer.
ReceiveIndication(m) ==
  /\ m.type = "Ind" /\ Take(m)
  /\ \/ /\ \E s \in subs : s.subid = Subid(m.id)
        /\ UNCHANGED job \/ Goto(Rmr, "kpm")
     \/ "ignored" \in StrayOutcomes /\ UNCHANGED job
     \/ "crashed" \in StrayOutcomes /\ Goto(Rmr, "crashed")
  /\ UNCHANGED <<nodebs, mutexes, nextId, tables, granted>>

\* The closed loop holds App.mutex while it sends what changed.
HandleKpm ==
  /\ At(Rmr, "kpm")
  /\ appMutex = Free /\ appMutex' = Rmr
  /\ \E todo \in {<<>>} \cup {<<Msg("CtlReq", 0, n)>> : n \in nodebs} :
       /\ todo = <<>> \/ nextId <= MaxId
       /\ job' = [job EXCEPT ![Rmr].pc = "issue", ![Rmr].todo = todo]
  /\ UNCHANGED <<nodebs, e2apMutex, nextId, tables, net, granted>>

-----------------------------------------------------------------------------
(* The RIC and the network.  Any message may stay in flight for ever, which is *)
(* how one is lost.  CtlReply is an ack or a failure: both are handled alike.  *)

Answer(m, type) == net' = (net \ {m}) \cup {[m EXCEPT !.type = type]}

RicSubscribe(m) ==
  /\ m \in net /\ m.type = "SubReq"
  /\ \/ /\ granted' = granted \cup
                        {[subid |-> Subid(m.id), id |-> m.id, meid |-> m.meid]}
        /\ Answer(m, "SubResp")
     \/ Answer(m, "SubFail") /\ UNCHANGED granted
  /\ UNCHANGED <<nodebs, mutexes, nextId, tables, job>>

RicDelete(m) ==
  /\ m \in net /\ m.type = "DelReq"
  /\ \/ granted' = {g \in granted : g.id # m.id} /\ Answer(m, "DelResp")
     \/ Answer(m, "DelFail") /\ UNCHANGED granted
  /\ UNCHANGED <<nodebs, mutexes, nextId, tables, job>>

RicControl(m) ==
  /\ m \in net /\ m.type = "CtlReq"
  /\ Answer(m, "CtlReply")
  /\ UNCHANGED <<nodebs, mutexes, nextId, tables, job, granted>>

RicIndicate ==
  /\ \E g \in granted : net' = net \cup {Msg("Ind", g.id, g.meid)}
  /\ UNCHANGED <<nodebs, mutexes, nextId, tables, job, granted>>

-----------------------------------------------------------------------------

ThreadStep(t) == Issue(t) \/ Register(t) \/ Transmit(t) \/ Undo(t) \/ Finish(t)

RestStep ==
  ThreadStep(Rest) \/ LockSubscriptions \/ DeleteSubscription \/ EraseNodeB

RmrStep == ThreadStep(Rmr) \/ CommitSubscription \/ CommitDelete \/ HandleKpm

Receive(m) ==
  \/ ReceiveSubResponse(m) \/ ReceiveDelResponse(m)
  \/ ReceiveOther(m) \/ ReceiveIndication(m)

Ric(m) == RicSubscribe(m) \/ RicDelete(m) \/ RicControl(m)

Next ==
  \/ \E n \in NodeB : PostNodeB(n) \/ ConfigureNodeB(n) \/ DeleteNodeB(n)
  \/ RestStep \/ RmrStep
  \/ \E m \in net : Receive(m) \/ Ric(m)
  \/ RicIndicate

\* The scheduler runs both threads: a step a thread can take and goes on being
\* able to take is taken.  Nothing is assumed of clients, RIC or network.
Fairness == WF_vars(RestStep) /\ WF_vars(RmrStep)

Spec == Init /\ [][Next]_vars /\ Fairness

-----------------------------------------------------------------------------
(* Properties *)

\* A request is in its table before it can be answered, and stays there until it
\* is: the RIC never answers a request the tracker does not know.
RegisteredBeforeAnswered ==
  \A m \in net :
    /\ m.type = "CtlReq" => m.id \in controls
    /\ m.type = "SubReq" => m.id \in {p.id : p \in pendingSubs}
    /\ m.type = "DelReq" => m.id \in pendingDels

\* A subscription in the table is one the RIC has granted, to the same request
\* for the same NodeB, unless its deletion is on its way: a late or repeated
\* response never brings a deleted one back, nor one of another NodeB.
RecordedIsLive == \A s \in subs : s \in granted \/ s.id \in pendingDels

\* A delete is pending only for a subscription that is still recorded: its id
\* cannot block another subscription's delete.
DeleteIsForSubscription == pendingDels \subseteq {s.id : s \in subs}

\* App.mutex is taken before E2AP.mutex, never after it, and both are released
\* by the operation that took them.
LockOrder ==
  /\ e2apMutex # Free => appMutex = e2apMutex
  /\ \A t \in Thread : job[t].pc = "idle" => appMutex # t /\ e2apMutex # t

\* Every REST operation gets to its end, and so does every message: neither
\* thread waits forever for a mutex, not even for one it holds itself.
RestReturns == [](job[Rest].pc # "idle" => <>(job[Rest].pc = "idle"))
RmrReturns == [](job[Rmr].pc # "idle" => <>(job[Rmr].pc = "idle"))

Quiet == net = {} /\ \A t \in Thread : job[t].pc = "idle"

\* "NexRAN unsubscribes from this NodeB via the RIC": when nothing is in flight,
\* the RIC has no subscription for a NodeB that does not exist.
DeletedNodeBUnsubscribed ==
  Quiet => \A g \in granted : g.meid \in nodebs

\* "The E2AP library matches sent messages to replies": once the reply to a
\* control request, or the refusal of a delete, has been handled, the request no
\* longer waits for one.  While a refused delete does, every later delete of
\* that subscription "already exists".
AnsweredIsForgotten ==
  [][\A m \in net : Receive(m) =>
       /\ m.type = "CtlReply" => m.id \notin controls'
       /\ m.type = "DelFail" => m.id \notin pendingDels']_vars

\* "indication subscriptionID not found; ignoring": the xApp outlives it.
StrayIndicationIgnored == Alive

(***************************************************************************)
(* What the tracker promises of every subscription request, whatever the   *)
(* RIC and the network do: Subscriptions.                                  *)
(***************************************************************************)

\* Every id that can be taken: an operation that starts at MaxId may take two,
\* and the other thread one.
Ids == 1..(MaxId + 2)

Unissued(id) ==
  id >= nextId \/ \E t \in Thread : job[t].pc = "register" /\ job[t].id = id

Phase(id) ==
  IF Unissued(id) THEN "unused"
  ELSE IF \E p \in pendingSubs : p.id = id THEN "requested"
  ELSE IF id \in pendingDels THEN "deleting"
  ELSE IF \E s \in subs : s.id = id THEN "established"
  ELSE "closed"

phase == [id \in Ids |-> Phase(id)]

S == INSTANCE Subscriptions WITH Id <- Ids, phase <- phase

\* A subscription goes from requested to established to deleting to closed, one
\* step at a time and never back: no late, repeated or refused reply
\* establishes one twice, revives one, or deletes one that was not asked to be.
ImplementsSubscriptions == S!Spec

=============================================================================
