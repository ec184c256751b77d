----------------------------- MODULE E2apProofs -----------------------------
(***************************************************************************)
(* E2ap for any NodeBs and any number of requests: its types, its mutexes, *)
(* its tables, and the Subscriptions they implement.                       *)
(***************************************************************************)
EXTENDS E2ap, TLAPS

IdsOf(T) == {x.id : x \in T}

Busy == {"issue", "register", "transmit", "undo"}

\* Which thread can be where, and what it holds there.
MutexInv ==
  /\ e2apMutex = IF job[Rest].pc = "unsubscribe" THEN Rest ELSE Free
  /\ job[Rest].pc \in Busy \cup {"idle", "unsubscribe"}
  /\ job[Rmr].pc \in Busy \cup {"idle", "commit", "kpm", "crashed"}
  /\ job[Rmr].meid = "none"
  /\ job[Rest].pc = "unsubscribe" => job[Rest].meid # "none"
  /\ job[Rest].meid # "none" => appMutex = Rest
  /\ appMutex = Rest => job[Rest].pc # "idle"
  /\ appMutex = Rmr => job[Rmr].pc \in Busy

Committing(id) == job[Rmr].pc = "commit" /\ job[Rmr].m.id = id

\* The RIC does not know the id, and no message has it.
Unsent(id) ==
  /\ id \notin IdsOf(net) /\ id \notin IdsOf(granted) /\ id \notin IdsOf(subs)
  /\ ~ Committing(id)

Holding == {"register", "transmit", "undo"}

\* A request that has an id is in its table once it is past "register", and not
\* sent before it is past "transmit".
InHand(t) ==
  /\ job[t].pc \in Holding =>
       job[t].id \in 1..(nextId - 1) /\ job[t].todo # <<>> /\ Unsent(job[t].id)
  /\ job[t].pc \notin Holding => job[t].id = 0
  /\ job[t].pc = "register" =>
       job[t].id \notin controls /\ job[t].id \notin IdsOf(pendingSubs)
  /\ job[t].pc \in {"transmit", "undo"} =>
       /\ Current(t).type = "CtlReq" => job[t].id \in controls
       /\ Current(t).type = "SubReq" =>
            [id |-> job[t].id, meid |-> Current(t).meid] \in pendingSubs

\* An id is given once, and nobody knows it before.
FreshInv ==
  /\ nextId > 0
  /\ job[Rest].id = job[Rmr].id => job[Rest].id = 0
  /\ \A id \in Nat : id >= nextId =>
       Unsent(id) /\ id \notin controls /\ id \notin IdsOf(pendingSubs)

IdInv == FreshInv /\ \A t \in Thread : InHand(t)

\* The tables agree with each other and with the RIC.
TableInv ==
  /\ \A p, q \in pendingSubs : p.id = q.id => p = q
  /\ IdsOf(pendingSubs) \cap IdsOf(subs) = {}
  /\ \A s \in subs : s.subid = Subid(s.id)
  /\ DeleteIsForSubscription
  /\ RecordedIsLive

\* No subscription goes while they are being deleted.
LeftInv == job[Rest].pc = "unsubscribe" => job[Rest].left \subseteq subs

\* What a message in flight says of the tables.
NetInv ==
  /\ RegisteredBeforeAnswered
  /\ \A m \in net :
       /\ m.type = "SubReq" =>
            /\ [id |-> m.id, meid |-> m.meid] \in pendingSubs
            /\ \A r \in net : r.type = "SubResp" => r.id # m.id
            /\ ~ Committing(m.id)
       /\ m.type = "SubResp" =>
            \A p \in pendingSubs : p.id = m.id =>
              [subid |-> Subid(p.id), id |-> p.id, meid |-> p.meid] \in granted
       /\ m.type = "DelResp" =>
            /\ m.id \in pendingDels \/ m.id \notin IdsOf(subs) \cup IdsOf(pendingSubs)
            /\ \A r \in net : r.type = "DelReq" => r.id # m.id
       /\ m.type = "DelReq" =>
            \A r \in net : r.type = "DelReq" /\ r.id = m.id => r = m

\* A matched reply still has its request when it is committed.
CommitInv ==
  LET m == job[Rmr].m IN
  job[Rmr].pc = "commit" =>
    \/ /\ m.type = "SubResp"
       /\ [id |-> m.id, meid |-> m.meid] \in pendingSubs
       /\ [subid |-> Subid(m.id), id |-> m.id, meid |-> m.meid] \in granted
    \/ /\ m.type = "DelResp"
       /\ m.id \in pendingDels
       /\ \A r \in net : r.type = "DelReq" => r.id # m.id

IInv == TypeOK /\ MutexInv /\ IdInv /\ TableInv /\ LeftInv /\ NetInv /\ CommitInv

Messages == [type : Requests \cup Replies, id : Nat, meid : NodeB]

-----------------------------------------------------------------------------

\* Nothing has been sent yet.
LEMMA InitInv == Init => IInv
  BY E2apAssumption
  DEF Init, IInv, TypeOK, MutexInv, IdInv, FreshInv, InHand, Holding, Unsent,
      Committing, IdsOf,
      TableInv, LeftInv, NetInv, CommitInv, RecordedIsLive, DeleteIsForSubscription,
      RegisteredBeforeAnswered, Job, Idle, Msg, Thread, Rest, Rmr, Free, Busy

\* Types: a step writes what the types allow.
LEMMA TypeStep == TypeOK /\ MutexInv /\ IdInv /\ CommitInv /\ [Next]_vars => TypeOK'
<1> SUFFICES ASSUME TypeOK, MutexInv, IdInv, CommitInv, [Next]_vars PROVE TypeOK'
  OBVIOUS
<1>0. /\ job \in [Thread -> Job] /\ \A t \in Thread : job[t] \in Job
      /\ net \in SUBSET Messages
  BY DEF TypeOK, Messages
<1>n. \A type \in {"CtlReq", "SubReq"}, n \in NodeB : Msg(type, 0, n) \in Todo
  BY DEF Msg, Todo
<1>e. <<>> \in Seq(Todo)
  OBVIOUS
<1>i. Idle \in Job
  BY DEF Idle, Msg, Job
<1>c. \A t \in Thread : job[t].todo # <<>> =>
         /\ Current(t) \in [type : {"CtlReq", "SubReq"}, id : Nat, meid : NodeB]
         /\ Tail(job[t].todo) \in Seq(Todo)
  <2> SUFFICES ASSUME NEW t \in Thread, job[t].todo # <<>>
               PROVE  /\ Current(t) \in [type : {"CtlReq", "SubReq"}, id : Nat, meid : NodeB]
                      /\ Tail(job[t].todo) \in Seq(Todo)
    OBVIOUS
  <2>1. job[t].todo \in Seq(Todo) /\ job[t].id \in Nat
    BY <1>0 DEF Job
  <2>2. job[t].todo[1] \in Todo /\ Tail(job[t].todo) \in Seq(Todo)
    BY <2>1
  <2> QED
    BY <2>1, <2>2 DEF Current, Msg, Todo
<1>a. \A t \in Thread : job[t].todo # <<>> /\ Advance(t) => job' \in [Thread -> Job]
  <2> SUFFICES ASSUME NEW t \in Thread, job[t].todo # <<>>, Advance(t)
               PROVE  job' \in [Thread -> Job]
    OBVIOUS
  <2>1. [job[t] EXCEPT !.todo = Tail(job[t].todo), !.id = 0, !.pc = "issue"] \in Job
    BY <1>0, <1>c DEF Job
  <2> QED
    BY <1>0, <2>1 DEF Advance
<1>g. \A t \in Thread : \A pc \in {"transmit", "undo", "kpm", "crashed"} :
         Goto(t, pc) => job' \in [Thread -> Job]
  <2> SUFFICES ASSUME NEW t \in Thread,
                      NEW pc \in {"transmit", "undo", "kpm", "crashed"}, Goto(t, pc)
               PROVE  job' \in [Thread -> Job]
    OBVIOUS
  <2>1. [job[t] EXCEPT !.pc = pc] \in Job
    BY <1>0 DEF Job
  <2> QED
    BY <1>0, <2>1 DEF Goto
<1>1. ASSUME NEW n \in NodeB, PostNodeB(n) PROVE TypeOK'
  <2>1. <<Msg("CtlReq", 0, n), Msg("SubReq", 0, n)>> \in Seq(Todo)
    BY <1>n
  <2>2. job' \in [Thread -> Job]
    BY <1>0, <1>1, <2>1 DEF PostNodeB, Thread, Job
  <2> QED
    BY <1>1, <2>2 DEF TypeOK, PostNodeB, mutexes, tables
<1>2. ASSUME NEW n \in NodeB, ConfigureNodeB(n) PROVE TypeOK'
  <2>1. <<Msg("CtlReq", 0, n)>> \in Seq(Todo)
    BY <1>n
  <2>2. job' \in [Thread -> Job]
    BY <1>0, <1>2, <2>1 DEF ConfigureNodeB, Thread, Job
  <2> QED
    BY <1>2, <2>2 DEF TypeOK, ConfigureNodeB, Thread, tables
<1>3. ASSUME NEW n \in NodeB, DeleteNodeB(n) PROVE TypeOK'
  <2>1. <<Msg("CtlReq", 0, n)>> \in Seq(Todo) /\ <<>> \in Seq(Todo)
    BY <1>n
  <2>2. job' \in [Thread -> Job]
    <3> PICK todo \in {<<>>, <<Msg("CtlReq", 0, n)>>} :
          job' = [job EXCEPT ![Rest].pc = "issue", ![Rest].todo = todo, ![Rest].meid = n]
      BY <1>3 DEF DeleteNodeB
    <3>1. [job[Rest] EXCEPT !.pc = "issue", !.todo = todo, !.meid = n] \in Job
      BY <1>0, <2>1 DEF Thread, Job
    <3> QED
      BY <1>0, <3>1 DEF Thread
  <2> QED
    BY <1>3, <2>2 DEF TypeOK, DeleteNodeB, Thread, tables
<1>4. ASSUME NEW t \in Thread, Issue(t) PROVE TypeOK'
  <2>1. job' \in [Thread -> Job]
    <3>1. [job[t] EXCEPT !.id = nextId, !.pc = "register"] \in Job
      BY <1>0 DEF Job, TypeOK
    <3> QED
      BY <1>0, <1>4, <3>1 DEF Issue
  <2> QED
    BY <1>4, <2>1 DEF TypeOK, Issue, mutexes, tables
<1>5. ASSUME NEW t \in Thread, Register(t) PROVE TypeOK'
  <2>1. job[t].todo # <<>>
    BY <1>5 DEF IdInv, InHand, Holding, Register, At
  <2>2. job' \in [Thread -> Job]
    BY <1>5, <1>a, <1>g, <2>1 DEF Register
  <2>3. controls' \in SUBSET Nat /\ pendingSubs' \in SUBSET [id : Nat, meid : NodeB]
    <3>1. UNCHANGED <<controls, pendingSubs>> \/
          /\ controls' \subseteq controls \cup {Current(t).id}
          /\ pendingSubs' \subseteq
               pendingSubs \cup {[id |-> Current(t).id, meid |-> Current(t).meid]}
      BY <1>5 DEF Register
    <3>2. Current(t).id \in Nat /\ Current(t).meid \in NodeB
      BY <1>c, <2>1
    <3>3. [id |-> Current(t).id, meid |-> Current(t).meid] \in [id : Nat, meid : NodeB]
      BY <3>2
    <3>4. controls \in SUBSET Nat /\ pendingSubs \in SUBSET [id : Nat, meid : NodeB]
      BY DEF TypeOK
    <3> QED
      BY <3>1, <3>2, <3>3, <3>4
  <2> QED
    BY <1>5, <2>2, <2>3 DEF TypeOK, Register, mutexes
<1>6. ASSUME NEW t \in Thread, Transmit(t) PROVE TypeOK'
  <2>1. job[t].todo # <<>>
    BY <1>6 DEF IdInv, InHand, Holding, Transmit, At
  <2>2. job' \in [Thread -> Job]
    BY <1>6, <1>a, <1>g, <2>1 DEF Transmit
  <2>3. net' \in SUBSET Messages
    BY <1>0, <1>6, <1>c, <2>1 DEF Transmit, Messages, Requests
  <2> QED
    BY <1>6, <2>2, <2>3 DEF TypeOK, Messages, Transmit, mutexes, tables
<1>7. ASSUME NEW t \in Thread, Undo(t) PROVE TypeOK'
  <2>1. job[t].todo # <<>>
    BY <1>7 DEF IdInv, InHand, Holding, Undo, At
  <2>2. job' \in [Thread -> Job]
    BY <1>7, <1>a, <2>1 DEF Undo
  <2> QED
    BY <1>7, <2>2 DEF TypeOK, Undo, mutexes
<1>8. ASSUME NEW t \in Thread, Finish(t) PROVE TypeOK'
  <2>1. job' \in [Thread -> Job]
    BY <1>0, <1>8, <1>i DEF Finish
  <2> QED
    BY <1>8, <2>1 DEF TypeOK, Finish, tables
<1>9. ASSUME LockSubscriptions PROVE TypeOK'
  <2>1. {s \in subs : s.meid = job[Rest].meid} \in SUBSET Sub
    BY DEF TypeOK
  <2>2. job' \in [Thread -> Job]
    BY <1>0, <1>9, <2>1 DEF LockSubscriptions, Thread, Job
  <2> QED
    BY <1>9, <2>2 DEF TypeOK, LockSubscriptions, tables, Thread
<1>10. ASSUME DeleteSubscription PROVE TypeOK'
  <2> PICK s \in job[Rest].left :
        /\ SendDelete(s, TRUE)
        /\ job' = [job EXCEPT ![Rest].left = @ \ {s}]
    BY <1>10 DEF DeleteSubscription
  <2>1. job' \in [Thread -> Job]
    BY <1>0 DEF Thread, Job
  <2>2. s.id \in Nat /\ job[Rest].meid \in NodeB
    BY <1>0, <1>10 DEF DeleteSubscription, At, Thread, Job, Sub, MutexInv
  <2>3. Msg("DelReq", s.id, job[Rest].meid) \in Messages
    BY <2>2 DEF Msg, Messages, Requests
  <2>4. pendingDels' \in SUBSET Nat /\ net' \in SUBSET Messages
    BY <1>0, <2>2, <2>3 DEF SendDelete, TypeOK
  <2> QED
    BY <1>10, <2>1, <2>4 DEF TypeOK, Messages, DeleteSubscription, mutexes
<1>11. ASSUME EraseNodeB PROVE TypeOK'
  <2>1. job' \in [Thread -> Job]
    BY <1>0, <1>11, <1>i DEF EraseNodeB, Thread
  <2> QED
    BY <1>11, <2>1 DEF TypeOK, EraseNodeB, tables
<1>12. ASSUME CommitSubscription PROVE TypeOK'
  <2>1. job' \in [Thread -> Job]
    BY <1>0, <1>12, <1>i DEF CommitSubscription, Thread
  <2>2. subs' \in SUBSET Sub
    BY <1>12 DEF CommitSubscription, CommitInv, At, TypeOK, Sub, Subid
  <2> QED
    BY <1>12, <2>1, <2>2 DEF TypeOK, CommitSubscription, mutexes
<1>13. ASSUME CommitDelete PROVE TypeOK'
  <2>1. job' \in [Thread -> Job]
    BY <1>0, <1>13, <1>i DEF CommitDelete, Thread
  <2> QED
    BY <1>13, <2>1 DEF TypeOK, CommitDelete, mutexes
<1>14. ASSUME HandleKpm PROVE TypeOK'
  <2>1. \A n \in nodebs : <<Msg("CtlReq", 0, n)>> \in Seq(Todo)
    BY <1>n DEF TypeOK
  <2>2. job' \in [Thread -> Job]
    <3> PICK todo \in {<<>>} \cup {<<Msg("CtlReq", 0, n)>> : n \in nodebs} :
          job' = [job EXCEPT ![Rmr].pc = "issue", ![Rmr].todo = todo]
      BY <1>14 DEF HandleKpm
    <3>1. todo \in Seq(Todo)
      BY <2>1, <1>e
    <3>2. [job[Rmr] EXCEPT !.pc = "issue", !.todo = todo] \in Job
      BY <1>0, <3>1 DEF Thread, Job
    <3> QED
      BY <1>0, <3>2 DEF Thread
  <2> QED
    BY <1>14, <2>2 DEF TypeOK, HandleKpm, Thread, tables
<1>15. ASSUME NEW m \in net, ReceiveSubResponse(m) PROVE TypeOK'
  <2>1. job' \in [Thread -> Job]
    <3>1. CASE UNCHANGED job
      BY <1>0, <3>1
    <3>2. ASSUME NEW p \in pendingSubs,
                 job' = [job EXCEPT ![Rmr].pc = "commit",
                                    ![Rmr].m = [m EXCEPT !.meid = p.meid]]
          PROVE  job' \in [Thread -> Job]
      <4>1. [m EXCEPT !.meid = p.meid] \in Messages
        BY <1>0 DEF Messages, TypeOK
      <4> QED
        BY <1>0, <1>15, <3>2, <4>1
        DEF Thread, Job, Messages, ReceiveSubResponse, Replies
    <3> QED
      BY <1>15, <3>1, <3>2 DEF ReceiveSubResponse
  <2> QED
    BY <1>15, <2>1 DEF TypeOK, ReceiveSubResponse, Take, mutexes, tables
<1>16. ASSUME NEW m \in net, ReceiveDelResponse(m) PROVE TypeOK'
  <2>1. job' \in [Thread -> Job]
    BY <1>0, <1>16 DEF Thread, Job, Messages, ReceiveDelResponse, Replies
  <2> QED
    BY <1>16, <2>1 DEF TypeOK, ReceiveDelResponse, Take, mutexes, tables
<1>17. ASSUME NEW m \in net, ReceiveOther(m) PROVE TypeOK'
  BY <1>17 DEF TypeOK, ReceiveOther, ReceiveControlReply,
      ReceiveSubFailure, ReceiveDelFailure, Dismiss, Take, mutexes, tables
<1>18. ASSUME NEW m \in net, ReceiveIndication(m) PROVE TypeOK'
  <2>1. job' \in [Thread -> Job]
    BY <1>0, <1>18, <1>g DEF Thread, ReceiveIndication
  <2> QED
    BY <1>18, <2>1 DEF TypeOK, ReceiveIndication, Take, mutexes, tables
<1>19. ASSUME NEW m \in net, RicSubscribe(m) PROVE TypeOK'
  <2>1. net' \in SUBSET Messages
    BY <1>0, <1>19 DEF Messages, RicSubscribe, Answer, Replies
  <2>2. granted' \in SUBSET Sub
    BY <1>0, <1>19 DEF TypeOK, Messages, RicSubscribe, Subid, Sub
  <2> QED
    BY <1>19, <2>1, <2>2 DEF TypeOK, Messages, RicSubscribe, mutexes, tables
<1>20. ASSUME NEW m \in net, RicDelete(m) PROVE TypeOK'
  <2>1. net' \in SUBSET Messages
    BY <1>0, <1>20 DEF Messages, RicDelete, Answer, Replies
  <2> QED
    BY <1>20, <2>1 DEF TypeOK, Messages, RicDelete, mutexes, tables
<1>21. ASSUME NEW m \in net, RicControl(m) PROVE TypeOK'
  <2>1. net' \in SUBSET Messages
    BY <1>0, <1>21 DEF Messages, RicControl, Answer, Replies
  <2> QED
    BY <1>21, <2>1 DEF TypeOK, Messages, RicControl, mutexes, tables
<1>22. ASSUME RicIndicate PROVE TypeOK'
  <2>1. \A g \in granted : Msg("Ind", g.id, g.meid) \in Messages
    BY DEF TypeOK, Sub, Msg, Messages, Replies
  <2> QED
    BY <1>0, <1>22, <2>1 DEF TypeOK, Messages, RicIndicate, mutexes, tables
<1>23. CASE UNCHANGED vars
  BY <1>23 DEF TypeOK, vars, mutexes, tables
<1> QED
  BY <1>1, <1>2, <1>3, <1>4, <1>5, <1>6, <1>7, <1>8, <1>9, <1>10, <1>11, <1>12,
     <1>13, <1>14, <1>15, <1>16, <1>17, <1>18, <1>19, <1>20, <1>21, <1>22, <1>23
  DEF Next, RestStep, RmrStep, ThreadStep, Receive, Ric, Thread

\* Mutexes: who holds which, by the program counters.
LEMMA MutexStep == TypeOK /\ MutexInv /\ [Next]_vars => MutexInv'
<1> SUFFICES ASSUME TypeOK, MutexInv, [Next]_vars PROVE MutexInv'
  OBVIOUS
<1>0. job \in [Thread -> Job] 
  BY DEF TypeOK
<1> USE E2apAssumption, <1>0
  DEF MutexInv, At, Goto, Advance, Thread, Rest, Rmr, Free, mutexes, Idle, Msg,
      Busy, Job
<1>1. ASSUME NEW n \in NodeB, PostNodeB(n) PROVE MutexInv'
  BY <1>1 DEF PostNodeB
<1>2. ASSUME NEW n \in NodeB, ConfigureNodeB(n) PROVE MutexInv'
  BY <1>2 DEF ConfigureNodeB
<1>3. ASSUME NEW n \in NodeB, DeleteNodeB(n) PROVE MutexInv'
  BY <1>3 DEF DeleteNodeB
<1>4. ASSUME NEW t \in Thread, Issue(t) PROVE MutexInv'
  BY <1>4 DEF Issue
<1>5. ASSUME NEW t \in Thread, Register(t) PROVE MutexInv'
  BY <1>5 DEF Register
<1>6. ASSUME NEW t \in Thread, Transmit(t) PROVE MutexInv'
  BY <1>6 DEF Transmit
<1>7. ASSUME NEW t \in Thread, Undo(t) PROVE MutexInv'
  BY <1>7 DEF Undo
<1>8. ASSUME NEW t \in Thread, Finish(t) PROVE MutexInv'
  BY <1>8 DEF Finish
<1>9. ASSUME LockSubscriptions PROVE MutexInv'
  BY <1>9 DEF LockSubscriptions
<1>10. ASSUME DeleteSubscription PROVE MutexInv'
  BY <1>10 DEF DeleteSubscription
<1>11. ASSUME EraseNodeB PROVE MutexInv'
  BY <1>11 DEF EraseNodeB
<1>12. ASSUME CommitSubscription PROVE MutexInv'
  BY <1>12 DEF CommitSubscription
<1>13. ASSUME CommitDelete PROVE MutexInv'
  BY <1>13 DEF CommitDelete
<1>14. ASSUME HandleKpm PROVE MutexInv'
  BY <1>14 DEF HandleKpm
<1>15. ASSUME NEW m \in net, ReceiveSubResponse(m) PROVE MutexInv'
  BY <1>15 DEF ReceiveSubResponse, Take
<1>16. ASSUME NEW m \in net, ReceiveDelResponse(m) PROVE MutexInv'
  BY <1>16 DEF ReceiveDelResponse, Take
<1>17. ASSUME NEW m \in net, ReceiveOther(m) PROVE MutexInv'
  BY <1>17 DEF ReceiveOther, ReceiveControlReply,
      ReceiveSubFailure, ReceiveDelFailure, Dismiss, Take
<1>18. ASSUME NEW m \in net, ReceiveIndication(m) PROVE MutexInv'
  BY <1>18 DEF ReceiveIndication, Take
<1>19. ASSUME NEW m \in net, RicSubscribe(m) PROVE MutexInv'
  BY <1>19 DEF RicSubscribe
<1>20. ASSUME NEW m \in net, RicDelete(m) PROVE MutexInv'
  BY <1>20 DEF RicDelete
<1>21. ASSUME NEW m \in net, RicControl(m) PROVE MutexInv'
  BY <1>21 DEF RicControl
<1>22. ASSUME RicIndicate PROVE MutexInv'
  BY <1>22 DEF RicIndicate
<1>23. ASSUME UNCHANGED vars PROVE MutexInv'
  BY <1>23 DEF vars
<1> QED
  BY <1>1, <1>2, <1>3, <1>4, <1>5, <1>6, <1>7, <1>8, <1>9, <1>10, <1>11, <1>12,
     <1>13, <1>14, <1>15, <1>16, <1>17, <1>18, <1>19, <1>20, <1>21, <1>22, <1>23
  DEF Next, RestStep, RmrStep, ThreadStep, Receive, Ric

\* Only the thread that holds an id sends it.
LEMMA UnsentStays ==
  IInv /\ [Next]_vars =>
    \A id \in Nat : Unsent(id) /\ (\A t \in Thread : Transmit(t) => job[t].id # id) => Unsent(id)'
<1> SUFFICES ASSUME IInv, [Next]_vars, NEW id \in Nat, Unsent(id),
                    \A t \in Thread : Transmit(t) => job[t].id # id
             PROVE  Unsent(id)'
  OBVIOUS
<1>0. job \in [Thread -> Job] /\ net \in SUBSET Messages
  BY DEF TypeOK, IInv, Messages
<1> USE <1>0
  DEF Unsent, IdsOf, Committing, Thread, Rest, Rmr, At, Goto, Advance, Job, mutexes,
      tables
<1>1. ASSUME NEW n \in NodeB, PostNodeB(n) PROVE Unsent(id)'
  BY <1>1 DEF PostNodeB
<1>2. ASSUME NEW n \in NodeB, ConfigureNodeB(n) PROVE Unsent(id)'
  BY <1>2 DEF ConfigureNodeB
<1>3. ASSUME NEW n \in NodeB, DeleteNodeB(n) PROVE Unsent(id)'
  BY <1>3 DEF DeleteNodeB
<1>4. ASSUME NEW t \in Thread, Issue(t) PROVE Unsent(id)'
  BY <1>4 DEF Issue
<1>5. ASSUME NEW t \in Thread, Register(t) PROVE Unsent(id)'
  BY <1>5 DEF Register
<1>6. ASSUME NEW t \in Thread, Transmit(t) PROVE Unsent(id)'
  <2>1. job[t].id # id
    BY <1>6
  <2> QED
    BY <1>6, <2>1 DEF Transmit, Current, Msg
<1>7. ASSUME NEW t \in Thread, Undo(t) PROVE Unsent(id)'
  BY <1>7 DEF Undo
<1>8. ASSUME NEW t \in Thread, Finish(t) PROVE Unsent(id)'
  BY <1>8 DEF Finish, Idle
<1>9. ASSUME LockSubscriptions PROVE Unsent(id)'
  BY <1>9 DEF LockSubscriptions
<1>10. ASSUME DeleteSubscription PROVE Unsent(id)'
  BY <1>10 DEF DeleteSubscription, SendDelete, Msg, IInv, LeftInv
<1>11. ASSUME EraseNodeB PROVE Unsent(id)'
  BY <1>11 DEF EraseNodeB, Idle
<1>12. ASSUME CommitSubscription PROVE Unsent(id)'
  BY <1>12 DEF CommitSubscription, Idle
<1>13. ASSUME CommitDelete PROVE Unsent(id)'
  BY <1>13 DEF CommitDelete, Idle
<1>14. ASSUME HandleKpm PROVE Unsent(id)'
  BY <1>14 DEF HandleKpm
<1>15. ASSUME NEW m \in net, ReceiveSubResponse(m) PROVE Unsent(id)'
  BY <1>15 DEF ReceiveSubResponse, Take
<1>16. ASSUME NEW m \in net, ReceiveDelResponse(m) PROVE Unsent(id)'
  BY <1>16 DEF ReceiveDelResponse, Take
<1>17. ASSUME NEW m \in net, ReceiveOther(m) PROVE Unsent(id)'
  BY <1>17 DEF ReceiveOther, ReceiveControlReply,
      ReceiveSubFailure, ReceiveDelFailure, Dismiss, Take
<1>18. ASSUME NEW m \in net, ReceiveIndication(m) PROVE Unsent(id)'
  BY <1>18 DEF ReceiveIndication, Take
<1>19. ASSUME NEW m \in net, RicSubscribe(m) PROVE Unsent(id)'
  BY <1>19 DEF RicSubscribe, Answer, Messages
<1>20. ASSUME NEW m \in net, RicDelete(m) PROVE Unsent(id)'
  BY <1>20 DEF RicDelete, Answer, Messages
<1>21. ASSUME NEW m \in net, RicControl(m) PROVE Unsent(id)'
  BY <1>21 DEF RicControl, Answer, Messages
<1>22. ASSUME RicIndicate PROVE Unsent(id)'
  BY <1>22 DEF RicIndicate, Msg
<1>23. ASSUME UNCHANGED vars PROVE Unsent(id)'
  BY <1>23 DEF vars
<1> QED
  BY <1>1, <1>2, <1>3, <1>4, <1>5, <1>6, <1>7, <1>8, <1>9, <1>10, <1>11, <1>12,
     <1>13, <1>14, <1>15, <1>16, <1>17, <1>18, <1>19, <1>20, <1>21, <1>22, <1>23
  DEF Next, RestStep, RmrStep, ThreadStep, Receive, Ric

\* Ids: each is given once, and its request is in hand until it is sent.
LEMMA IdStep == IInv /\ [Next]_vars => IdInv'
<1> SUFFICES ASSUME IInv, [Next]_vars PROVE IdInv'
  OBVIOUS
<1>0. /\ job \in [Thread -> Job] /\ nextId \in Nat /\ nextId > 0
      /\ FreshInv /\ MutexInv /\ TableInv /\ \A t \in Thread : InHand(t)
  BY DEF TypeOK, IInv, IdInv, FreshInv
<1>u. \A id \in Nat :
        Unsent(id) /\ (\A t \in Thread : Transmit(t) => job[t].id # id) => Unsent(id)'
  BY UnsentStays
<1>d. \A t, u \in Thread : t # u /\ job[t].pc \in Holding => job[u].id # job[t].id
  BY <1>0 DEF FreshInv, InHand, Thread
\* A thread whose job stays as it is keeps its request, and ids not yet given
\* stay unknown, if no table gains or loses the id in question.
<1>k. ASSUME NEW u \in Thread, job'[u] = job[u], nextId' \in Nat, nextId' >= nextId,
             \A id \in IdsOf(pendingSubs)' \ IdsOf(pendingSubs) : id # job[u].id,
             \A id \in controls' \ controls : id # job[u].id,
             \A p \in pendingSubs \ pendingSubs' : p.id # job[u].id,
             \A id \in controls \ controls' : id # job[u].id
      PROVE  InHand(u)'
  <2>1. job[u].id \in Nat /\ Current(u)' = Current(u)
    BY <1>0, <1>k DEF Job, Current
  <2>2. job[u].pc \in Holding => Unsent(job[u].id)'
    <3> SUFFICES ASSUME job[u].pc \in Holding PROVE Unsent(job[u].id)'
      OBVIOUS
    <3>1. ASSUME NEW t \in Thread, Transmit(t) PROVE job[t].id # job[u].id
      <4>1. job'[t].pc # "transmit" /\ job[t].pc = "transmit"
        BY <1>0, <3>1 DEF Transmit, At, Goto, Advance, Job
      <4> QED
        BY <1>d, <1>k, <4>1 DEF Holding
    <3>2. Unsent(job[u].id)
      BY <1>0 DEF InHand
    <3> QED
      BY <1>k, <1>u, <2>1, <3>1, <3>2 DEF Unsent, Committing
  <2>3. [id |-> job[u].id, meid |-> Current(u).meid] \in pendingSubs =>
        [id |-> job[u].id, meid |-> Current(u).meid] \in pendingSubs'
    BY <1>k
  <2> QED
    BY <1>0, <1>k, <2>1, <2>2, <2>3 DEF InHand, Holding
<1>r. \A t \in Thread : job[t].id \in 0..(nextId - 1)
  <2> SUFFICES ASSUME NEW t \in Thread PROVE job[t].id \in 0..(nextId - 1)
    OBVIOUS
  <2>1. job[t].id = 0 \/ job[t].id \in 1..(nextId - 1)
    BY <1>0 DEF InHand
  <2> QED
    BY <1>0, <2>1
<1>j. \A t \in Thread :
        /\ Advance(t) => /\ job'[t].pc = "issue" /\ job'[t].id = 0
                         /\ \A u \in Thread : u # t => job'[u] = job[u]
        /\ \A pc \in {"transmit", "undo", "kpm", "crashed"} : Goto(t, pc) =>
             /\ job'[t].pc = pc /\ job'[t].id = job[t].id /\ job'[t].todo = job[t].todo
             /\ \A u \in Thread : u # t => job'[u] = job[u]
  BY <1>0 DEF Goto, Advance, Job
<1>w. \A t \in Thread : Transmit(t) =>
        job[t].pc = "transmit" /\ job'[t] # job[t] /\ job[t].id \in 1..(nextId - 1)
  <2> SUFFICES ASSUME NEW t \in Thread, Transmit(t)
               PROVE  job[t].pc = "transmit" /\ job'[t] # job[t] /\ job[t].id \in 1..(nextId - 1)
    OBVIOUS
  <2>1. job[t].pc = "transmit" /\ (Advance(t) \/ Goto(t, "undo"))
    BY DEF Transmit, At
  <2>2. job'[t].pc # "transmit"
    BY <1>j, <2>1
  <2> QED
    BY <1>0, <2>1, <2>2 DEF InHand, Holding
<1>v. ASSUME \A t \in Thread : job[t].pc = "transmit" => job'[t] = job[t]
      PROVE  \A id \in Nat : Unsent(id) => Unsent(id)'
  BY <1>u, <1>v, <1>w
\* Nothing happens to the ids.
<1> DEFINE Empty(u) ==
      /\ job[u].pc # "transmit" /\ job'[u].id = 0 /\ job'[u].pc \notin Holding
<1>s. ASSUME UNCHANGED <<nextId, controls, pendingSubs>>,
             \A u \in Thread : job'[u] = job[u] \/ Empty(u)
      PROVE  IdInv'
  <2>1. \A u \in Thread : InHand(u)'
    <3> SUFFICES ASSUME NEW u \in Thread, job'[u] # job[u] PROVE InHand(u)'
      BY <1>0, <1>k, <1>s
    <3> QED
      BY <1>s DEF InHand, Holding
  <2>2. \A id \in Nat : Unsent(id) => Unsent(id)'
    BY <1>s, <1>v
  <2>3. FreshInv'
    BY <1>0, <1>s, <2>2 DEF FreshInv, Thread, IdsOf
  <2> QED
    BY <2>1, <2>3 DEF IdInv
<1>1. ASSUME NEW n \in NodeB, PostNodeB(n) PROVE IdInv'
  <2>1. UNCHANGED <<nextId, controls, pendingSubs>>
    BY <1>1 DEF PostNodeB, tables
  <2>2. \A u \in Thread : job'[u] = job[u] \/ Empty(u)
    BY <1>0, <1>1
    DEF PostNodeB, At, Goto, Thread, Rest, Rmr, InHand, Holding, Job, Idle
  <2> QED
    BY <1>s, <2>1, <2>2
<1>2. ASSUME NEW n \in NodeB, ConfigureNodeB(n) PROVE IdInv'
  <2>1. UNCHANGED <<nextId, controls, pendingSubs>>
    BY <1>2 DEF ConfigureNodeB, tables
  <2>2. \A u \in Thread : job'[u] = job[u] \/ Empty(u)
    BY <1>0, <1>2
    DEF ConfigureNodeB, At, Goto, Thread, Rest, Rmr, InHand, Holding, Job, Idle
  <2> QED
    BY <1>s, <2>1, <2>2
<1>3. ASSUME NEW n \in NodeB, DeleteNodeB(n) PROVE IdInv'
  <2>1. UNCHANGED <<nextId, controls, pendingSubs>>
    BY <1>3 DEF DeleteNodeB, tables
  <2>2. \A u \in Thread : job'[u] = job[u] \/ Empty(u)
    BY <1>0, <1>3
    DEF DeleteNodeB, At, Goto, Thread, Rest, Rmr, InHand, Holding, Job, Idle
  <2> QED
    BY <1>s, <2>1, <2>2
<1>8. ASSUME NEW t \in Thread, Finish(t) PROVE IdInv'
  <2>1. UNCHANGED <<nextId, controls, pendingSubs>>
    BY <1>8 DEF Finish, tables
  <2>2. \A u \in Thread : job'[u] = job[u] \/ Empty(u)
    BY <1>0, <1>8
    DEF Finish, At, Goto, Thread, Rest, Rmr, InHand, Holding, Job, Idle
  <2> QED
    BY <1>s, <2>1, <2>2
<1>9. ASSUME LockSubscriptions PROVE IdInv'
  <2>1. UNCHANGED <<nextId, controls, pendingSubs>>
    BY <1>9 DEF LockSubscriptions, tables
  <2>2. \A u \in Thread : job'[u] = job[u] \/ Empty(u)
    BY <1>0, <1>9
    DEF LockSubscriptions, At, Goto, Thread, Rest, Rmr, InHand, Holding, Job, Idle
  <2> QED
    BY <1>s, <2>1, <2>2
<1>10. ASSUME DeleteSubscription PROVE IdInv'
  <2>1. UNCHANGED <<nextId, controls, pendingSubs>>
    BY <1>10 DEF DeleteSubscription, tables
  <2>2. \A u \in Thread : job'[u] = job[u] \/ Empty(u)
    BY <1>0, <1>10
    DEF DeleteSubscription, At, Goto, Thread, Rest, Rmr, InHand, Holding, Job, Idle
  <2> QED
    BY <1>s, <2>1, <2>2
<1>11. ASSUME EraseNodeB PROVE IdInv'
  <2>1. UNCHANGED <<nextId, controls, pendingSubs>>
    BY <1>11 DEF EraseNodeB, tables
  <2>2. \A u \in Thread : job'[u] = job[u] \/ Empty(u)
    BY <1>0, <1>11
    DEF EraseNodeB, At, Goto, Thread, Rest, Rmr, InHand, Holding, Job, Idle
  <2> QED
    BY <1>s, <2>1, <2>2
<1>13. ASSUME CommitDelete PROVE IdInv'
  <2>1. UNCHANGED <<nextId, controls, pendingSubs>>
    BY <1>13 DEF CommitDelete, tables
  <2>2. \A u \in Thread : job'[u] = job[u] \/ Empty(u)
    BY <1>0, <1>13
    DEF CommitDelete, At, Goto, Thread, Rest, Rmr, InHand, Holding, Job, Idle
  <2> QED
    BY <1>s, <2>1, <2>2
<1>14. ASSUME HandleKpm PROVE IdInv'
  <2>1. UNCHANGED <<nextId, controls, pendingSubs>>
    BY <1>14 DEF HandleKpm, tables
  <2>2. \A u \in Thread : job'[u] = job[u] \/ Empty(u)
    BY <1>0, <1>14
    DEF HandleKpm, At, Goto, Thread, Rest, Rmr, InHand, Holding, Job, Idle
  <2> QED
    BY <1>s, <2>1, <2>2
<1>15. ASSUME NEW m \in net, ReceiveSubResponse(m) PROVE IdInv'
  <2>1. UNCHANGED <<nextId, controls, pendingSubs>>
    BY <1>15 DEF ReceiveSubResponse, tables
  <2>2. \A u \in Thread : job'[u] = job[u] \/ Empty(u)
    BY <1>0, <1>15
    DEF ReceiveSubResponse, Take, At, Goto, Thread, Rest, Rmr, InHand, Holding, Job,
        Idle
  <2> QED
    BY <1>s, <2>1, <2>2
<1>16. ASSUME NEW m \in net, ReceiveDelResponse(m) PROVE IdInv'
  <2>1. UNCHANGED <<nextId, controls, pendingSubs>>
    BY <1>16 DEF ReceiveDelResponse, tables
  <2>2. \A u \in Thread : job'[u] = job[u] \/ Empty(u)
    BY <1>0, <1>16
    DEF ReceiveDelResponse, Take, At, Goto, Thread, Rest, Rmr, InHand, Holding, Job,
        Idle
  <2> QED
    BY <1>s, <2>1, <2>2
<1>17. ASSUME NEW m \in net, ReceiveOther(m) PROVE IdInv'
  <2>1. UNCHANGED <<nextId, controls, pendingSubs>>
    BY <1>17 DEF ReceiveOther, ReceiveControlReply,
      ReceiveSubFailure, ReceiveDelFailure, Dismiss, tables
  <2>2. \A u \in Thread : job'[u] = job[u]
    BY <1>17 DEF ReceiveOther, ReceiveControlReply,
      ReceiveSubFailure, ReceiveDelFailure, Dismiss, tables, vars
  <2> QED
    BY <1>s, <2>1, <2>2
<1>18. ASSUME NEW m \in net, ReceiveIndication(m) PROVE IdInv'
  <2>1. UNCHANGED <<nextId, controls, pendingSubs>>
    BY <1>18 DEF ReceiveIndication, tables
  <2>2. \A u \in Thread : job'[u] = job[u] \/ Empty(u)
    BY <1>0, <1>18
    DEF ReceiveIndication, Take, At, Goto, Thread, Rest, Rmr, InHand, Holding, Job,
        Idle
  <2> QED
    BY <1>s, <2>1, <2>2
<1>19. ASSUME NEW m \in net, RicSubscribe(m) PROVE IdInv'
  <2>1. UNCHANGED <<nextId, controls, pendingSubs>>
    BY <1>19 DEF RicSubscribe, tables
  <2>2. \A u \in Thread : job'[u] = job[u]
    BY <1>19 DEF RicSubscribe, tables, vars
  <2> QED
    BY <1>s, <2>1, <2>2
<1>20. ASSUME NEW m \in net, RicDelete(m) PROVE IdInv'
  <2>1. UNCHANGED <<nextId, controls, pendingSubs>>
    BY <1>20 DEF RicDelete, tables
  <2>2. \A u \in Thread : job'[u] = job[u]
    BY <1>20 DEF RicDelete, tables, vars
  <2> QED
    BY <1>s, <2>1, <2>2
<1>21. ASSUME NEW m \in net, RicControl(m) PROVE IdInv'
  <2>1. UNCHANGED <<nextId, controls, pendingSubs>>
    BY <1>21 DEF RicControl, tables
  <2>2. \A u \in Thread : job'[u] = job[u]
    BY <1>21 DEF RicControl, tables, vars
  <2> QED
    BY <1>s, <2>1, <2>2
<1>22. ASSUME RicIndicate PROVE IdInv'
  <2>1. UNCHANGED <<nextId, controls, pendingSubs>>
    BY <1>22 DEF RicIndicate, tables
  <2>2. \A u \in Thread : job'[u] = job[u]
    BY <1>22 DEF RicIndicate, tables, vars
  <2> QED
    BY <1>s, <2>1, <2>2
<1>23. ASSUME UNCHANGED vars PROVE IdInv'
  <2>1. UNCHANGED <<nextId, controls, pendingSubs>>
    BY <1>23 DEF vars, tables
  <2>2. \A u \in Thread : job'[u] = job[u]
    BY <1>23 DEF vars, tables, vars
  <2> QED
    BY <1>s, <2>1, <2>2
<1>4. ASSUME NEW t \in Thread, Issue(t) PROVE IdInv'
  <2>1. /\ job'[t].pc = "register" /\ job'[t].id = nextId /\ job'[t].todo = job[t].todo
        /\ job[t].todo # <<>> /\ job[t].pc = "issue" /\ nextId' = nextId + 1
        /\ \A u \in Thread : u # t => job'[u] = job[u]
        /\ UNCHANGED <<net, granted, subs, controls, pendingSubs>>
    BY <1>0, <1>4 DEF Issue, Job, At, tables
  <2>2. \A id \in Nat : Unsent(id) => Unsent(id)'
    BY <1>v, <2>1
  <2>3. Unsent(nextId) /\ nextId \notin controls /\ nextId \notin IdsOf(pendingSubs)
    BY <1>0 DEF FreshInv
  <2>4. InHand(t)'
    BY <1>0, <2>1, <2>2, <2>3 DEF InHand, Holding, IdsOf, Unsent, Committing
  <2>5. \A u \in Thread : u # t => InHand(u)'
    BY <1>0, <1>k, <2>1 DEF IdsOf
  <2>6. FreshInv'
    <3>1. job'[Rest].id = job'[Rmr].id => job'[Rest].id = 0
      BY <1>0, <1>r, <2>1 DEF Thread, Rest, Rmr
    <3>2. \A id \in Nat : id >= nextId' =>
            Unsent(id)' /\ id \notin controls' /\ id \notin IdsOf(pendingSubs)'
      BY <1>0, <2>1, <2>2 DEF FreshInv, IdsOf
    <3> QED
      BY <1>0, <2>1, <3>1, <3>2 DEF FreshInv
  <2> QED
    BY <2>4, <2>5, <2>6 DEF IdInv
<1>5. ASSUME NEW t \in Thread, Register(t) PROVE IdInv'
  <2> DEFINE r == Current(t)
  <2>1. /\ job[t].pc = "register" /\ job[t].id \in 1..(nextId - 1) /\ r.id = job[t].id
        /\ Unsent(job[t].id) /\ job[t].todo # <<>>
        /\ r.id \notin controls /\ r.id \notin IdsOf(pendingSubs)
    BY <1>0, <1>5 DEF Register, InHand, Holding, At, Current, Msg
  <2>2. /\ controls' = controls \cup {id \in {r.id} : r.type = "CtlReq"}
        /\ pendingSubs' = pendingSubs \cup
               {p \in {[id |-> r.id, meid |-> r.meid]} : r.type = "SubReq"}
        /\ Goto(t, "transmit") /\ nextId' = nextId
    BY <1>5, <2>1 DEF Register, IdsOf
  <2>3. /\ job'[t].pc = "transmit" /\ job'[t].id = job[t].id /\ job'[t].todo = job[t].todo
        /\ \A u \in Thread : u # t => job'[u] = job[u]
    BY <1>j, <2>2
  <2>4. Current(t)' = r
    BY <2>3 DEF Current
  <2>5. /\ \A id \in IdsOf(pendingSubs)' \ IdsOf(pendingSubs) : id = r.id
        /\ \A id \in controls' \ controls : id = r.id
        /\ pendingSubs \subseteq pendingSubs' /\ controls \subseteq controls'
    BY <2>2 DEF IdsOf
  <2>6. \A id \in Nat : Unsent(id) => Unsent(id)'
    BY <1>v, <2>1, <2>3
  <2>7. InHand(t)'
    <3>1. Unsent(job[t].id)'
      BY <2>1, <2>3, <2>6 DEF Unsent, Committing
    <3> QED
      BY <1>0, <2>1, <2>2, <2>3, <2>4, <3>1 DEF InHand, Holding
  <2>8. \A u \in Thread : u # t => InHand(u)'
    <3> SUFFICES ASSUME NEW u \in Thread, u # t PROVE InHand(u)'
      OBVIOUS
    <3>1. job[u].id # r.id
      BY <1>d, <2>1 DEF Holding
    <3>2. /\ \A id \in IdsOf(pendingSubs)' \ IdsOf(pendingSubs) : id # job[u].id
          /\ \A id \in controls' \ controls : id # job[u].id
          /\ \A p \in pendingSubs \ pendingSubs' : p.id # job[u].id
          /\ \A id \in controls \ controls' : id # job[u].id
      BY <2>5, <3>1
    <3>3. job'[u] = job[u] /\ nextId' \in Nat /\ nextId' >= nextId
      BY <1>0, <2>2, <2>3
    <3> QED
      BY <1>k, <3>2, <3>3
  <2>9. FreshInv'
    BY <1>0, <2>1, <2>2, <2>3, <2>5, <2>6 DEF FreshInv, Thread, IdsOf
  <2> QED
    BY <2>7, <2>8, <2>9 DEF IdInv
<1>6. ASSUME NEW t \in Thread, Transmit(t) PROVE IdInv'
  <2>1. /\ job[t].pc = "transmit" /\ UNCHANGED <<nextId, controls, pendingSubs, subs, granted>>
        /\ job[t].id \in 1..(nextId - 1)
    BY <1>0, <1>6 DEF Transmit, At, tables, InHand, Holding
  <2>2. \A u \in Thread : u # t => job'[u] = job[u]
    BY <1>6, <1>j DEF Transmit
  <2>3. \A u \in Thread : u # t => InHand(u)'
    BY <1>0, <1>k, <2>1, <2>2
  <2>4. InHand(t)'
    <3>1. CASE Advance(t)
      BY <1>j, <3>1 DEF InHand, Holding
    <3>2. CASE Goto(t, "undo") /\ UNCHANGED net
      <4>1. /\ job'[t].pc = "undo" /\ job'[t].id = job[t].id /\ job'[t].todo = job[t].todo
        BY <1>j, <3>2
      <4>2. Current(t)' = Current(t)
        BY <4>1 DEF Current
      <4>3. Unsent(job[t].id)'
        BY <1>0, <2>1, <2>2, <3>2, <4>1
        DEF Unsent, Committing, InHand, Holding, Thread
      <4> QED
        BY <1>0, <2>1, <4>1, <4>2, <4>3 DEF InHand, Holding
    <3> QED
      BY <1>6, <3>1, <3>2 DEF Transmit
  <2>5. \A id \in Nat : id >= nextId => Unsent(id) /\ Unsent(id)'
    <3> SUFFICES ASSUME NEW id \in Nat, id >= nextId PROVE Unsent(id) /\ Unsent(id)'
      OBVIOUS
    <3>1. \A u \in Thread : Transmit(u) => job[u].id # id
      BY <1>0, <1>w
    <3> QED
      BY <1>0, <1>u, <3>1 DEF FreshInv
  <2>6. job'[t].id \in {0, job[t].id}
    BY <1>6, <1>j DEF Transmit
  <2>7. FreshInv'
    BY <1>0, <2>1, <2>2, <2>5, <2>6 DEF FreshInv, Thread, IdsOf
  <2> QED
    BY <2>3, <2>4, <2>7 DEF IdInv
<1>7. ASSUME NEW t \in Thread, Undo(t) PROVE IdInv'
  <2> DEFINE r == Current(t)
  <2>1. /\ job[t].pc = "undo" /\ nextId' = nextId /\ r.id = job[t].id
        /\ controls' \subseteq controls /\ pendingSubs' \subseteq pendingSubs
        /\ \A p \in pendingSubs \ pendingSubs' : p.id = r.id
        /\ \A id \in controls \ controls' : id = r.id
    BY <1>7 DEF Undo, At, Current, Msg
  <2>2. /\ job'[t].pc = "issue" /\ job'[t].id = 0
        /\ \A u \in Thread : u # t => job'[u] = job[u]
    BY <1>7, <1>j DEF Undo
  <2>3. \A u \in Thread : u # t => InHand(u)'
    <3> SUFFICES ASSUME NEW u \in Thread, u # t PROVE InHand(u)'
      OBVIOUS
    <3>1. job[u].id # job[t].id
      BY <1>d, <2>1 DEF Holding
    <3> QED
      BY <1>0, <1>k, <2>1, <2>2, <3>1 DEF IdsOf
  <2>4. InHand(t)'
    BY <2>2 DEF InHand, Holding
  <2>5. \A id \in Nat : Unsent(id) => Unsent(id)'
    BY <1>v, <2>1, <2>2
  <2>6. FreshInv'
    BY <1>0, <2>1, <2>2, <2>5 DEF FreshInv, Thread, IdsOf
  <2> QED
    BY <2>3, <2>4, <2>6 DEF IdInv
<1>12. ASSUME CommitSubscription PROVE IdInv'
  <2>1. /\ job[Rmr].pc = "commit" /\ UNCHANGED <<nextId, controls>>
        /\ pendingSubs' = {p \in pendingSubs : p.id # job[Rmr].m.id}
        /\ job'[Rest] = job[Rest] /\ job'[Rmr].pc = "idle" /\ job'[Rmr].id = 0
    BY <1>0, <1>12 DEF CommitSubscription, At, Thread, Rest, Rmr, Idle
  <2>2. \A id \in Nat : Unsent(id) => Unsent(id)'
    BY <1>v, <2>1 DEF Thread
  <2>3. InHand(Rest)'
    <3>1. CASE job[Rest].pc \in Holding
      <4>1. job[Rest].id # job[Rmr].m.id
        BY <1>0, <2>1, <3>1 DEF InHand, Unsent, Committing, Thread
      <4> QED
        BY <1>0, <1>k, <2>1, <4>1 DEF IdsOf, Thread
    <3>2. CASE job[Rest].pc \notin Holding
      BY <1>0, <2>1, <3>2 DEF InHand, Holding, Thread
    <3> QED
      BY <3>1, <3>2
  <2>4. InHand(Rmr)'
    BY <2>1 DEF InHand, Holding
  <2>6. FreshInv'
    BY <1>0, <2>1, <2>2 DEF FreshInv, Thread, IdsOf
  <2> QED
    BY <2>3, <2>4, <2>6 DEF IdInv, Thread
<1> QED
  BY <1>1, <1>2, <1>3, <1>4, <1>5, <1>6, <1>7, <1>8, <1>9, <1>10, <1>11, <1>12,
     <1>13, <1>14, <1>15, <1>16, <1>17, <1>18, <1>19, <1>20, <1>21, <1>22, <1>23
     DEF Next, RestStep, RmrStep, ThreadStep, Receive, Ric, Thread

\* The subscriptions being deleted stay; the tables agree.
LEMMA LeftStep == IInv /\ [Next]_vars => LeftInv'
<1> SUFFICES ASSUME IInv, [Next]_vars PROVE LeftInv'
  OBVIOUS
<1>0. job \in [Thread -> Job] /\ MutexInv /\ LeftInv
  BY DEF TypeOK, IInv
<1> USE <1>0
  DEF LeftInv, MutexInv, At, Goto, Advance, Thread, Rest, Rmr, Free, Idle, Job,
      mutexes, tables
<1>1. ASSUME NEW n \in NodeB, PostNodeB(n) PROVE LeftInv'
  BY <1>1 DEF PostNodeB
<1>2. ASSUME NEW n \in NodeB, ConfigureNodeB(n) PROVE LeftInv'
  BY <1>2 DEF ConfigureNodeB
<1>3. ASSUME NEW n \in NodeB, DeleteNodeB(n) PROVE LeftInv'
  BY <1>3 DEF DeleteNodeB
<1>4. ASSUME NEW t \in Thread, Issue(t) PROVE LeftInv'
  BY <1>4 DEF Issue
<1>5. ASSUME NEW t \in Thread, Register(t) PROVE LeftInv'
  BY <1>5 DEF Register
<1>6. ASSUME NEW t \in Thread, Transmit(t) PROVE LeftInv'
  BY <1>6 DEF Transmit
<1>7. ASSUME NEW t \in Thread, Undo(t) PROVE LeftInv'
  BY <1>7 DEF Undo
<1>8. ASSUME NEW t \in Thread, Finish(t) PROVE LeftInv'
  BY <1>8 DEF Finish
<1>9. ASSUME LockSubscriptions PROVE LeftInv'
  BY <1>9 DEF LockSubscriptions
<1>10. ASSUME DeleteSubscription PROVE LeftInv'
  BY <1>10 DEF DeleteSubscription
<1>11. ASSUME EraseNodeB PROVE LeftInv'
  BY <1>11 DEF EraseNodeB
<1>12. ASSUME CommitSubscription PROVE LeftInv'
  BY <1>12 DEF CommitSubscription
<1>13. ASSUME CommitDelete PROVE LeftInv'
  BY <1>13 DEF CommitDelete
<1>14. ASSUME HandleKpm PROVE LeftInv'
  BY <1>14 DEF HandleKpm
<1>15. ASSUME NEW m \in net, ReceiveSubResponse(m) PROVE LeftInv'
  BY <1>15 DEF ReceiveSubResponse, Take
<1>16. ASSUME NEW m \in net, ReceiveDelResponse(m) PROVE LeftInv'
  BY <1>16 DEF ReceiveDelResponse, Take
<1>17. ASSUME NEW m \in net, ReceiveOther(m) PROVE LeftInv'
  BY <1>17 DEF ReceiveOther, ReceiveControlReply,
      ReceiveSubFailure, ReceiveDelFailure, Dismiss, Take
<1>18. ASSUME NEW m \in net, ReceiveIndication(m) PROVE LeftInv'
  BY <1>18 DEF ReceiveIndication, Take
<1>19. ASSUME NEW m \in net, RicSubscribe(m) PROVE LeftInv'
  BY <1>19 DEF RicSubscribe
<1>20. ASSUME NEW m \in net, RicDelete(m) PROVE LeftInv'
  BY <1>20 DEF RicDelete
<1>21. ASSUME NEW m \in net, RicControl(m) PROVE LeftInv'
  BY <1>21 DEF RicControl
<1>22. ASSUME RicIndicate PROVE LeftInv'
  BY <1>22 DEF RicIndicate
<1>23. ASSUME UNCHANGED vars PROVE LeftInv'
  BY <1>23 DEF vars
<1> QED
  BY <1>1, <1>2, <1>3, <1>4, <1>5, <1>6, <1>7, <1>8, <1>9, <1>10, <1>11, <1>12,
     <1>13, <1>14, <1>15, <1>16, <1>17, <1>18, <1>19, <1>20, <1>21, <1>22, <1>23
  DEF Next, RestStep, RmrStep, ThreadStep, Receive, Ric

\* The tables stay in agreement: a response is committed for the request it was
\* matched with, whatever came between.
LEMMA TableStep == IInv /\ [Next]_vars => TableInv'
<1> SUFFICES ASSUME IInv, [Next]_vars PROVE TableInv'
  OBVIOUS
<1>0. /\ job \in [Thread -> Job] /\ net \in SUBSET Messages /\ subs \in SUBSET Sub
      /\ MutexInv /\ TableInv /\ LeftInv /\ NetInv /\ CommitInv /\ \A t \in Thread : InHand(t)
  BY DEF TypeOK, IInv, IdInv, Messages
<1> USE DEF TableInv, RecordedIsLive, DeleteIsForSubscription
<1>1. CASE UNCHANGED <<pendingSubs, subs, pendingDels, granted>>
  BY <1>0, <1>1 DEF IdsOf
<1>2. ASSUME NEW t \in Thread, Register(t) PROVE TableInv'
  <2> DEFINE r == Current(t)
  <2>1. /\ r.id \notin IdsOf(subs) /\ r.id \notin IdsOf(pendingSubs)
    BY <1>0, <1>2 DEF Register, InHand, Holding, Unsent, At, Current, Msg
  <2>2. /\ pendingSubs' = pendingSubs \cup
               {p \in {[id |-> r.id, meid |-> r.meid]} : r.type = "SubReq"}
        /\ UNCHANGED <<subs, pendingDels, granted>>
    BY <1>2, <2>1 DEF Register, IdsOf
  <2> QED
    BY <1>0, <2>1, <2>2 DEF IdsOf
<1>3. ASSUME NEW t \in Thread, Undo(t) PROVE TableInv'
  <2>1. pendingSubs' \subseteq pendingSubs /\ UNCHANGED <<subs, pendingDels, granted>>
    BY <1>3 DEF Undo
  <2> QED
    BY <1>0, <2>1 DEF IdsOf
<1>4. ASSUME DeleteSubscription PROVE TableInv'
  <2> PICK s \in job[Rest].left : SendDelete(s, TRUE)
    BY <1>4 DEF DeleteSubscription
  <2>1. s \in subs /\ UNCHANGED <<pendingSubs, subs, granted>>
    BY <1>0, <1>4 DEF DeleteSubscription, At, LeftInv
  <2>2. pendingDels' = pendingDels \/ pendingDels' = pendingDels \cup {s.id}
    BY DEF SendDelete
  <2> QED
    BY <1>0, <2>1, <2>2 DEF IdsOf
<1>5. ASSUME CommitSubscription PROVE TableInv'
  <2> DEFINE m == job[Rmr].m
             new == [subid |-> Subid(m.id), id |-> m.id, meid |-> m.meid]
  <2>1. /\ [id |-> m.id, meid |-> m.meid] \in pendingSubs /\ new \in granted
        /\ subs' = {s \in subs : s.subid # Subid(m.id)} \cup {new}
        /\ pendingSubs' = {p \in pendingSubs : p.id # m.id}
        /\ UNCHANGED <<pendingDels, granted>>
    BY <1>0, <1>5 DEF CommitSubscription, CommitInv, At
  <2>2. m.id \notin IdsOf(subs) /\ m.id \in Nat /\ \A s \in subs : s.id \in Nat
    BY <1>0, <2>1 DEF IdsOf, Sub, Thread, Job
  <2>3. subs' = subs \cup {new}
    BY <1>0, <2>1, <2>2 DEF IdsOf, Subid
  <2> QED
    BY <1>0, <2>1, <2>3 DEF IdsOf
<1>6. ASSUME CommitDelete PROVE TableInv'
  <2> DEFINE m == job[Rmr].m
  <2>1. /\ subs' = {s \in subs : s.subid # Subid(m.id)}
        /\ pendingDels' = pendingDels \ {m.id}
        /\ UNCHANGED <<pendingSubs, granted>> 
    BY <1>6 DEF CommitDelete
  <2>2. m.id \in Nat /\ \A s \in subs : s.id \in Nat /\ s.subid = Subid(s.id)
    BY <1>0 DEF Sub, Thread, Job
  <2>3. subs' = {s \in subs : s.id # m.id}
    BY <2>1, <2>2 DEF Subid
  <2> QED
    BY <1>0, <2>1, <2>3 DEF IdsOf
<1>7. ASSUME NEW m \in net, RicSubscribe(m) PROVE TableInv'
  <2>1. granted \subseteq granted' /\ UNCHANGED <<pendingSubs, subs, pendingDels>>
    BY <1>7 DEF RicSubscribe, tables
  <2> QED
    BY <1>0, <2>1 DEF IdsOf
<1>8. ASSUME NEW m \in net, RicDelete(m) PROVE TableInv'
  <2>1. /\ \A g \in granted \ granted' : g.id = m.id
        /\ UNCHANGED <<pendingSubs, subs, pendingDels>>
    BY <1>8 DEF RicDelete, tables
  <2>2. m.id \in pendingDels
    BY <1>0, <1>8 DEF RicDelete, NetInv, RegisteredBeforeAnswered
  <2> QED
    BY <1>0, <2>1, <2>2 DEF IdsOf
<1> QED
  BY <1>1, <1>2, <1>3, <1>4, <1>5, <1>6, <1>7, <1>8
  DEF Next, RestStep, RmrStep, ThreadStep, Receive, Ric, Thread, PostNodeB,
      ConfigureNodeB, DeleteNodeB,
      Issue, Transmit, Finish, LockSubscriptions, EraseNodeB, HandleKpm,
         ReceiveSubResponse, ReceiveDelResponse,
      ReceiveOther, ReceiveControlReply,
      ReceiveSubFailure, ReceiveDelFailure, Dismiss, ReceiveIndication, RicControl, RicIndicate, vars, tables

\* Messages: what is in flight says the truth of the tables.
LEMMA NetStep == IInv /\ [Next]_vars => NetInv'
<1> SUFFICES ASSUME IInv, [Next]_vars PROVE NetInv'
  OBVIOUS
<1>0. /\ job \in [Thread -> Job] /\ net \in SUBSET Messages /\ subs \in SUBSET Sub
      /\ granted \in SUBSET Sub /\ pendingSubs \in SUBSET [id : Nat, meid : NodeB]
      /\ MutexInv /\ TableInv /\ LeftInv /\ NetInv /\ CommitInv /\ \A t \in Thread : InHand(t)
  BY DEF TypeOK, IInv, IdInv, Messages
<1> USE DEF NetInv, RegisteredBeforeAnswered
<1>k. ASSUME net' \in SUBSET net, UNCHANGED <<tables, granted>>,
             \A m \in net' : m.type = "SubReq" /\ Committing(m.id)' => Committing(m.id)
      PROVE  NetInv'
  BY <1>0, <1>k DEF tables, IdsOf
<1>1. ASSUME \/ \E n \in NodeB : PostNodeB(n) \/ ConfigureNodeB(n) \/ DeleteNodeB(n)
             \/ \E t \in Thread : Issue(t) \/ Finish(t)
             \/ LockSubscriptions \/ EraseNodeB \/ HandleKpm
      PROVE  NetInv'
  <2>1. UNCHANGED <<tables, net, granted>>
    BY <1>1
    DEF PostNodeB, ConfigureNodeB, DeleteNodeB, Issue, Finish, LockSubscriptions,
                EraseNodeB, HandleKpm
  <2>2. \A id \in Nat : Committing(id)' => Committing(id)
    <3>1. CASE \E n \in NodeB : PostNodeB(n) \/ ConfigureNodeB(n) \/ DeleteNodeB(n)
      BY <1>0, <3>1
      DEF PostNodeB, ConfigureNodeB, DeleteNodeB, Committing, Thread, Rest, Rmr
    <3>2. CASE \E t \in Thread : Issue(t) \/ Finish(t)
      BY <1>0, <3>2 DEF Issue, Finish, Committing, Thread, Rest, Rmr, Job, Idle
    <3>3. CASE LockSubscriptions \/ EraseNodeB
      BY <1>0, <3>3 DEF LockSubscriptions, EraseNodeB, Committing, Thread, Rest, Rmr
    <3>4. CASE HandleKpm
      BY <1>0, <3>4 DEF HandleKpm, Committing, Thread, Rmr, Job
    <3> QED
      BY <1>1, <3>1, <3>2, <3>3, <3>4
  <2> QED
    BY <1>0, <1>k, <2>1, <2>2 DEF Messages
<1>s. CASE UNCHANGED vars
  BY <1>0, <1>s, <1>k DEF vars, Committing
<1>2. ASSUME NEW t \in Thread, Register(t) PROVE NetInv'
  <2> DEFINE r == Current(t)
  <2>1. /\ r.id \notin IdsOf(subs) /\ r.id \notin IdsOf(pendingSubs) /\ r.id \notin controls
        /\ r.id \notin IdsOf(net) /\ job[t].pc = "register"
    BY <1>0, <1>2 DEF Register, InHand, Holding, Unsent, At, Current, Msg
  <2>2. /\ controls \subseteq controls'
        /\ pendingSubs' = pendingSubs \cup
               {p \in {[id |-> r.id, meid |-> r.meid]} : r.type = "SubReq"}
        /\ Goto(t, "transmit")
        /\ UNCHANGED <<subs, pendingDels, granted, net>>
    BY <1>2, <2>1 DEF Register, IdsOf
  <2>3. \A id \in Nat : Committing(id)' => Committing(id)
    BY <1>0, <2>1, <2>2 DEF Goto, Committing, Thread, Rest, Rmr, Job
  <2> QED
    BY <1>0, <2>1, <2>2, <2>3 DEF IdsOf, Messages
<1>3. ASSUME NEW t \in Thread, Transmit(t) PROVE NetInv'
  <2> DEFINE r == Current(t)
  <2>1. /\ r.id = job[t].id /\ Unsent(r.id)
        /\ r.type = "CtlReq" => r.id \in controls
        /\ r.type = "SubReq" => [id |-> r.id, meid |-> r.meid] \in pendingSubs
    BY <1>0, <1>3 DEF Transmit, InHand, Holding, At, Current, Msg
  <2>2. UNCHANGED <<tables, granted>> /\ (net' = net \/ net' = net \cup {r})
    BY <1>3 DEF Transmit
  <2>3. \A id \in Nat : Committing(id)' => Committing(id)
    BY <1>0, <1>3
    DEF Transmit, Advance, At, Goto, Committing, Thread, Rest, Rmr, Job
  <2>4. r \in Messages /\ r.type \in {"CtlReq", "SubReq"}
    <3>1. job[t].todo \in Seq(Todo) /\ job[t].todo # <<>> /\ job[t].id \in Nat
      BY <1>0, <1>3 DEF Transmit, InHand, Holding, At, Job
    <3>2. job[t].todo[1] \in Todo
      BY <3>1
    <3> QED
      BY <3>1, <3>2 DEF Current, Msg, Todo, Messages, Requests
  <2> QED
    BY <1>0, <2>1, <2>2, <2>3, <2>4 DEF IdsOf, tables, Unsent, Messages
<1>4. ASSUME NEW t \in Thread, Undo(t) PROVE NetInv'
  <2> DEFINE r == Current(t)
  <2>1. r.id \notin IdsOf(net) /\ job[t].pc = "undo"
    BY <1>0, <1>4 DEF Undo, InHand, Holding, Unsent, At, Current, Msg
  <2>2. /\ controls' = controls \ {id \in {r.id} : r.type = "CtlReq"}
        /\ pendingSubs' = {p \in pendingSubs : ~(r.type = "SubReq" /\ p.id = r.id)}
        /\ Advance(t)
        /\ UNCHANGED <<subs, pendingDels, granted, net>>
    BY <1>4 DEF Undo
  <2>3. \A id \in Nat : Committing(id)' => Committing(id)
    BY <1>0, <2>2 DEF Advance, Committing, Thread, Rest, Rmr, Job
  <2> QED
    BY <1>0, <2>1, <2>2, <2>3 DEF IdsOf, Messages
<1>5. ASSUME DeleteSubscription PROVE NetInv'
  <2> PICK s \in job[Rest].left : SendDelete(s, TRUE)
    BY <1>5 DEF DeleteSubscription
  <2> DEFINE r == Msg("DelReq", s.id, job[Rest].meid)
  <2>1. s \in subs /\ UNCHANGED <<controls, pendingSubs, subs, granted>>
    BY <1>0, <1>5 DEF DeleteSubscription, At, LeftInv
  <2>2. \/ UNCHANGED <<pendingDels, net>>
        \/ s.id \notin pendingDels /\ pendingDels' = pendingDels \cup {s.id} /\ net' = net \cup {r}
    BY DEF SendDelete
  <2>3. \A id \in Nat : Committing(id)' => Committing(id)
    BY <1>0, <1>5 DEF DeleteSubscription, At, Committing, Thread, Rest, Rmr, Job
  <2>4. r.type = "DelReq" /\ r.id = s.id
    BY DEF Msg
  <2> QED
    BY <1>0, <2>1, <2>2, <2>3, <2>4 DEF IdsOf, Messages
<1>6. ASSUME CommitSubscription PROVE NetInv'
  <2> DEFINE m == job[Rmr].m
             new == [subid |-> Subid(m.id), id |-> m.id, meid |-> m.meid]
  <2>1. /\ [id |-> m.id, meid |-> m.meid] \in pendingSubs /\ Committing(m.id)
        /\ \A s \in subs' : s.id \in IdsOf(subs) \/ s.id = m.id
        /\ pendingSubs' = {p \in pendingSubs : p.id # m.id}
        /\ UNCHANGED <<controls, pendingDels, granted, net>>
    BY <1>0, <1>6 DEF CommitSubscription, CommitInv, At, Committing, IdsOf
  <2>2. \A id \in Nat : ~ Committing(id)'
    BY <1>0, <1>6 DEF CommitSubscription, Committing, Thread, Idle
  <2>3. m.id \in IdsOf(pendingSubs)
    BY <2>1 DEF IdsOf
  <2>4. IdsOf(subs)' \cup IdsOf(pendingSubs)' \subseteq IdsOf(subs) \cup IdsOf(pendingSubs)
    BY <2>1, <2>3 DEF IdsOf
  <2>5. \A r \in net : r.type = "SubReq" =>
          [id |-> r.id, meid |-> r.meid] \in pendingSubs /\ r.id # m.id
    BY <1>0, <2>1
  <2>6. \A r \in net : r.type = "SubReq" =>
          [id |-> r.id, meid |-> r.meid] \in pendingSubs' /\ r.id \in IdsOf(pendingSubs)'
    BY <2>1, <2>5 DEF IdsOf
  <2> QED
    BY <1>0, <2>1, <2>2, <2>4, <2>6 DEF Messages, IdsOf
<1>7. ASSUME CommitDelete PROVE NetInv'
  <2> DEFINE m == job[Rmr].m
  <2>1. /\ \A r \in net : r.type = "DelReq" => r.id # m.id
        /\ \A s \in subs' : s \in subs /\ s.id # m.id
        /\ pendingDels' = pendingDels \ {m.id}
        /\ m.id \in pendingDels
        /\ UNCHANGED <<controls, pendingSubs, granted, net>>
    BY <1>0, <1>7 DEF CommitDelete, CommitInv, At, TableInv
  <2>2. \A id \in Nat : ~ Committing(id)'
    BY <1>0, <1>7 DEF CommitDelete, Committing, Thread, Idle
  <2>3. m.id \in IdsOf(subs) /\ m.id \notin IdsOf(pendingSubs)
    BY <1>0, <2>1 DEF TableInv, DeleteIsForSubscription, IdsOf
  <2> QED
    BY <1>0, <2>1, <2>2, <2>3 DEF IdsOf, Messages
<1>8. ASSUME NEW m \in net, ReceiveSubResponse(m) PROVE NetInv'
  <2>1. net' \in SUBSET net /\ UNCHANGED <<tables, granted>> /\ m.type = "SubResp" /\ m \in net
    BY <1>8 DEF ReceiveSubResponse, Take
  <2>2. \A r \in net' : r.type = "SubReq" => ~ Committing(r.id)'
    <3> SUFFICES ASSUME NEW r \in net', r.type = "SubReq" PROVE ~ Committing(r.id)'
      OBVIOUS
    <3>1. r.id # m.id /\ ~ Committing(r.id)
      BY <1>0, <2>1
    <3>2. Committing(r.id)' => Committing(r.id) \/ r.id = m.id
      BY <1>0, <1>8
      DEF ReceiveSubResponse, Take, At, Committing, Thread, Job, Messages
    <3> QED
      BY <3>1, <3>2
  <2> QED
    BY <1>k, <2>1, <2>2
<1>9. ASSUME NEW m \in net, ReceiveDelResponse(m) PROVE NetInv'
  <2>1. net' \in SUBSET net /\ UNCHANGED <<tables, granted>> /\ m.type = "DelResp" /\ m \in net
    BY <1>9 DEF ReceiveDelResponse, Take
  <2>2. m.id \in pendingDels => m.id \notin IdsOf(pendingSubs)
    BY <1>0 DEF TableInv, DeleteIsForSubscription, IdsOf
  <2>3. \A r \in net' : r.type = "SubReq" => ~ Committing(r.id)'
    <3> SUFFICES ASSUME NEW r \in net', r.type = "SubReq" PROVE ~ Committing(r.id)'
      OBVIOUS
    <3>1. r.id \in IdsOf(pendingSubs) /\ ~ Committing(r.id)
      BY <1>0, <2>1 DEF IdsOf
    <3>2. Committing(r.id)' => Committing(r.id) \/ (r.id = m.id /\ m.id \in pendingDels)
      BY <1>0, <1>9
      DEF ReceiveDelResponse, Take, At, Committing, Thread, Job, Messages
    <3> QED
      BY <2>2, <3>1, <3>2
  <2> QED
    BY <1>k, <2>1, <2>3
<1>10. ASSUME NEW m \in net, ReceiveOther(m) \/ ReceiveIndication(m) PROVE NetInv'
  <2>1. net' \in SUBSET net /\ UNCHANGED <<tables, granted>>
    BY <1>10 DEF ReceiveOther, ReceiveControlReply,
      ReceiveSubFailure, ReceiveDelFailure, Dismiss, ReceiveIndication, Take
  <2>2. \A id \in Nat : Committing(id)' => Committing(id)
    BY <1>0, <1>10
    DEF ReceiveOther, ReceiveControlReply,
      ReceiveSubFailure, ReceiveDelFailure, Dismiss, ReceiveIndication, Goto, Committing, Thread, Job
  <2> QED
    BY <1>0, <1>k, <2>1, <2>2 DEF Messages
<1>11. ASSUME NEW m \in net, RicSubscribe(m) PROVE NetInv'
  <2> DEFINE new == [subid |-> Subid(m.id), id |-> m.id, meid |-> m.meid]
  <2>1. /\ m \in net /\ m.type = "SubReq" /\ UNCHANGED <<tables, job>>
        /\ \/ granted' = granted \cup {new} /\ net' = (net \ {m}) \cup {[m EXCEPT !.type = "SubResp"]}
           \/ granted' = granted /\ net' = (net \ {m}) \cup {[m EXCEPT !.type = "SubFail"]}
    BY <1>11 DEF RicSubscribe, Answer
  <2>2. [id |-> m.id, meid |-> m.meid] \in pendingSubs
    BY <1>0, <2>1
  <2>3. \A p \in pendingSubs : p.id = m.id => p.meid = m.meid
    BY <1>0, <2>2 DEF TableInv
  <2> QED
    BY <1>0, <2>1, <2>2, <2>3 DEF tables, IdsOf, Messages, Committing
<1>12. ASSUME NEW m \in net, RicDelete(m) PROVE NetInv'
  <2>1. /\ m \in net /\ m.type = "DelReq" /\ UNCHANGED <<tables, job>>
        /\ \/ granted' = {g \in granted : g.id # m.id} /\ net' = (net \ {m}) \cup {[m EXCEPT !.type = "DelResp"]}
           \/ granted' = granted /\ net' = (net \ {m}) \cup {[m EXCEPT !.type = "DelFail"]}
    BY <1>12 DEF RicDelete, Answer
  <2>2. m.id \in pendingDels /\ m.id \notin IdsOf(pendingSubs)
    BY <1>0, <2>1 DEF TableInv, DeleteIsForSubscription, IdsOf
  <2> QED
    BY <1>0, <2>1, <2>2 DEF tables, IdsOf, Messages, Committing
<1>13. ASSUME NEW m \in net, RicControl(m) PROVE NetInv'
  <2>1. /\ m \in net /\ m.type = "CtlReq" /\ UNCHANGED <<tables, granted, job>>
        /\ net' = (net \ {m}) \cup {[m EXCEPT !.type = "CtlReply"]}
    BY <1>13 DEF RicControl, Answer
  <2> QED
    BY <1>0, <2>1 DEF tables, IdsOf, Messages, Committing
<1>14. ASSUME RicIndicate PROVE NetInv'
  <2> PICK g \in granted : net' = net \cup {Msg("Ind", g.id, g.meid)}
    BY <1>14 DEF RicIndicate
  <2>1. UNCHANGED <<tables, granted, job>>
    BY <1>14 DEF RicIndicate
  <2> QED
    BY <1>0, <2>1 DEF tables, IdsOf, Msg, Messages, Committing
<1> QED
  BY <1>s, <1>1, <1>2, <1>3, <1>4, <1>5, <1>6, <1>7, <1>8, <1>9, <1>10, <1>11,
     <1>12, <1>13, <1>14
  DEF Next, RestStep, RmrStep, ThreadStep, Receive, Ric, Thread, HandleKpm

\* Commits: between matching a reply and committing it nothing takes its
\* request away.
LEMMA CommitStep == IInv /\ [Next]_vars => CommitInv'
<1> SUFFICES ASSUME IInv, [Next]_vars PROVE CommitInv'
  OBVIOUS
<1>0. /\ job \in [Thread -> Job] /\ net \in SUBSET Messages /\ subs \in SUBSET Sub
      /\ granted \in SUBSET Sub /\ pendingSubs \in SUBSET [id : Nat, meid : NodeB]
      /\ MutexInv /\ TableInv /\ LeftInv /\ NetInv /\ CommitInv /\ \A t \in Thread : InHand(t)
  BY DEF TypeOK, IInv, IdInv, Messages
<1> DEFINE m == job[Rmr].m
\* What the thread is committing goes on being in the tables, and no request
\* for it appears.
<1>k. ASSUME job'[Rmr].pc = "commit" => job'[Rmr] = job[Rmr],
             job[Rmr].pc = "commit" =>
               /\ \A p \in pendingSubs \ pendingSubs' : p.id # m.id
               /\ \A g \in granted \ granted' : ~ (m.type = "SubResp" /\ g.id = m.id)
               /\ pendingDels \subseteq pendingDels'
               /\ \A r \in net' \ net : r.type = "DelReq" => r.id # m.id
      PROVE  CommitInv'
  <2> SUFFICES ASSUME job'[Rmr].pc = "commit" PROVE CommitInv'
    BY DEF CommitInv
  <2> QED
    BY <1>0, <1>k DEF CommitInv
\* The other thread works, or no thread, and the tables lose nothing.
<1>n. ASSUME granted \subseteq granted',
             pendingSubs \subseteq pendingSubs', pendingDels \subseteq pendingDels',
             \A r \in net' \ net : r.type # "DelReq",
             job'[Rmr].pc = "commit" => job'[Rmr] = job[Rmr]
      PROVE  CommitInv'
  BY <1>k, <1>n
<1>1. ASSUME NEW n \in NodeB, PostNodeB(n) \/ ConfigureNodeB(n) \/ DeleteNodeB(n)
      PROVE  CommitInv'
  <2>1. job'[Rmr] = job[Rmr] /\ UNCHANGED <<tables, net, granted>>
    BY <1>0, <1>1 DEF PostNodeB, ConfigureNodeB, DeleteNodeB, Thread, Rest, Rmr
  <2> QED
    BY <1>n, <2>1 DEF tables
<1>2. ASSUME NEW t \in Thread, Issue(t) \/ Finish(t) PROVE CommitInv'
  <2>1. /\ job'[Rmr].pc = "commit" => job'[Rmr] = job[Rmr]
        /\ UNCHANGED <<tables, net, granted>>
    BY <1>0, <1>2 DEF Issue, Finish, Thread, Rest, Rmr, Job, Idle
  <2> QED
    BY <1>n, <2>1 DEF tables
<1>3. ASSUME LockSubscriptions \/ EraseNodeB PROVE CommitInv'
  <2>1. job'[Rmr] = job[Rmr] /\ UNCHANGED <<tables, net, granted>>
    BY <1>0, <1>3 DEF LockSubscriptions, EraseNodeB, Thread, Rest, Rmr
  <2> QED
    BY <1>n, <2>1 DEF tables
<1>4. ASSUME HandleKpm \/ CommitSubscription \/ CommitDelete PROVE CommitInv'
  <2>1. job'[Rmr].pc # "commit"
    BY <1>0, <1>4
    DEF HandleKpm, CommitSubscription, CommitDelete, Thread, Rmr, Job, Idle
  <2> QED
    BY <2>1 DEF CommitInv
<1>5. ASSUME NEW t \in Thread, Register(t) PROVE CommitInv'
  <2>1. /\ pendingSubs \subseteq pendingSubs' /\ UNCHANGED <<pendingDels, granted, net>>
        /\ Advance(t) \/ Goto(t, "transmit")
    BY <1>5 DEF Register
  <2>2. job'[Rmr].pc = "commit" => job'[Rmr] = job[Rmr]
    BY <1>0, <2>1 DEF Advance, Goto, Thread, Rest, Rmr, Job
  <2> QED
    BY <1>n, <2>1, <2>2
<1>6. ASSUME NEW t \in Thread, Transmit(t) PROVE CommitInv'
  <2>1. /\ UNCHANGED <<tables, granted>> /\ net' \in {net, net \cup {Current(t)}}
        /\ Advance(t) \/ Goto(t, "undo")
    BY <1>6 DEF Transmit
  <2>2. job'[Rmr].pc = "commit" => job'[Rmr] = job[Rmr]
    BY <1>0, <2>1 DEF Advance, Goto, Thread, Rest, Rmr, Job
  <2>3. Current(t).type # "DelReq"
    <3>1. job[t].todo \in Seq(Todo) /\ job[t].todo # <<>>
      BY <1>0, <1>6 DEF Transmit, InHand, Holding, At, Job
    <3>2. job[t].todo[1] \in Todo
      BY <3>1
    <3> QED
      BY <3>2 DEF Current, Msg, Todo
  <2> QED
    BY <1>n, <2>1, <2>2, <2>3 DEF tables
<1>7. ASSUME NEW t \in Thread, Undo(t) PROVE CommitInv'
  <2>1. /\ \A p \in pendingSubs \ pendingSubs' : p.id = job[t].id
        /\ UNCHANGED <<pendingDels, granted, net>> /\ Advance(t)
    BY <1>7 DEF Undo, Current, Msg
  <2>2. job'[Rmr].pc = "commit" => job'[Rmr] = job[Rmr]
    BY <1>0, <2>1 DEF Advance, Thread, Rest, Rmr, Job
  <2>3. job[Rmr].pc = "commit" => job[t].id # m.id
    BY <1>0, <1>7 DEF Undo, At, InHand, Holding, Unsent, Committing
  <2> QED
    BY <1>k, <2>1, <2>2, <2>3
<1>8. ASSUME DeleteSubscription PROVE CommitInv'
  <2> PICK s \in job[Rest].left : SendDelete(s, TRUE)
    BY <1>8 DEF DeleteSubscription
  <2>1. /\ s.id \in IdsOf(subs) /\ UNCHANGED <<pendingSubs, granted>> /\ job'[Rmr] = job[Rmr]
    BY <1>0, <1>8 DEF DeleteSubscription, At, LeftInv, IdsOf, Thread, Rest, Rmr
  <2>2. \/ UNCHANGED <<pendingDels, net>>
        \/ /\ s.id \notin pendingDels /\ pendingDels' = pendingDels \cup {s.id}
           /\ \A r \in net' \ net : r.id = s.id
    BY DEF SendDelete, Msg
  <2>3. job[Rmr].pc = "commit" => m.id \in pendingDels \/ m.id \notin IdsOf(subs)
    BY <1>0 DEF CommitInv, TableInv, IdsOf
  <2> QED
    BY <1>k, <2>1, <2>2, <2>3
<1>9. ASSUME NEW r \in net, ReceiveSubResponse(r) PROVE CommitInv'
  <2>1. UNCHANGED <<tables, granted>> /\ net' \in SUBSET net /\ r.type = "SubResp"
    BY <1>9 DEF ReceiveSubResponse, Take
  <2>2. CASE UNCHANGED job
    BY <1>n, <2>1, <2>2 DEF tables
  <2>3. ASSUME NEW p \in pendingSubs, p.id = r.id,
               job' = [job EXCEPT ![Rmr].pc = "commit", ![Rmr].m = [r EXCEPT !.meid = p.meid]]
        PROVE  CommitInv'
    <3>1. job'[Rmr].m.type = "SubResp" /\ job'[Rmr].m.id = p.id /\ job'[Rmr].m.meid = p.meid
      BY <1>0, <2>1, <2>3 DEF Thread, Job, Messages
    <3>2. [id |-> p.id, meid |-> p.meid] \in pendingSubs
      BY <1>0
    <3>3. [subid |-> Subid(p.id), id |-> p.id, meid |-> p.meid] \in granted
      BY <1>0, <2>1, <2>3 DEF NetInv
    <3> QED
      BY <2>1, <3>1, <3>2, <3>3 DEF CommitInv, tables
  <2> QED
    BY <1>9, <2>2, <2>3 DEF ReceiveSubResponse
<1>10. ASSUME NEW r \in net, ReceiveDelResponse(r) PROVE CommitInv'
  <2>1. UNCHANGED <<tables, granted>> /\ net' \in SUBSET net /\ r.type = "DelResp"
    BY <1>10 DEF ReceiveDelResponse, Take
  <2>2. CASE UNCHANGED job
    BY <1>n, <2>1, <2>2 DEF tables
  <2>3. ASSUME r.id \in pendingDels, job' = [job EXCEPT ![Rmr].pc = "commit", ![Rmr].m = r]
        PROVE  CommitInv'
    <3>1. job'[Rmr].m = r
      BY <1>0, <2>3 DEF Thread, Job
    <3>2. \A q \in net : q.type = "DelReq" => q.id # r.id
      BY <1>0, <2>1 DEF NetInv
    <3>3. \A q \in net' : q.type = "DelReq" => q.id # job'[Rmr].m.id
      BY <2>1, <3>1, <3>2
    <3>4. job'[Rmr].m.type = "DelResp" /\ job'[Rmr].m.id \in pendingDels'
      BY <2>1, <2>3, <3>1 DEF tables
    <3> QED
      BY <3>3, <3>4 DEF CommitInv
  <2> QED
    BY <1>10, <2>2, <2>3 DEF ReceiveDelResponse
<1>11. ASSUME NEW r \in net, ReceiveOther(r) \/ ReceiveIndication(r) PROVE CommitInv'
  <2>1. UNCHANGED <<tables, granted>> /\ net' \in SUBSET net
    BY <1>11 DEF ReceiveOther, ReceiveControlReply,
      ReceiveSubFailure, ReceiveDelFailure, Dismiss, ReceiveIndication, Take
  <2>2. job'[Rmr].pc = "commit" => job'[Rmr] = job[Rmr]
    BY <1>0, <1>11 DEF ReceiveOther, ReceiveControlReply,
      ReceiveSubFailure, ReceiveDelFailure, Dismiss, ReceiveIndication, Goto, Thread, Job
  <2> QED
    BY <1>n, <2>1, <2>2 DEF tables
<1>12. ASSUME NEW r \in net, RicSubscribe(r) \/ RicControl(r) PROVE CommitInv'
  <2>1. /\ UNCHANGED <<tables, job>> /\ granted \subseteq granted'
        /\ \A q \in net' \ net : q.type \in {"SubResp", "SubFail", "CtlReply"}
    BY <1>0, <1>12 DEF RicSubscribe, RicControl, Answer, Messages
  <2> QED
    BY <1>n, <2>1 DEF tables
<1>13. ASSUME NEW r \in net, RicDelete(r) PROVE CommitInv'
  <2>1. /\ UNCHANGED <<tables, job>> /\ \A g \in granted \ granted' : g.id = r.id
        /\ \A q \in net' \ net : q.type # "DelReq"
        /\ r.type = "DelReq"
    BY <1>0, <1>13 DEF RicDelete, Answer, Messages
  <2>2. r.id \in IdsOf(subs)
    BY <1>0, <2>1
    DEF NetInv, RegisteredBeforeAnswered, TableInv, DeleteIsForSubscription, IdsOf
  <2>3. job[Rmr].pc = "commit" /\ m.type = "SubResp" => m.id # r.id
    BY <1>0, <2>2 DEF CommitInv, TableInv, IdsOf
  <2> QED
    BY <1>k, <2>1, <2>3 DEF tables
<1>14. CASE RicIndicate
  <2>1. /\ UNCHANGED <<tables, granted, job>> /\ \A q \in net' \ net : q.type # "DelReq"
    BY <1>14 DEF RicIndicate, Msg
  <2> QED
    BY <1>n, <2>1 DEF tables
<1>15. CASE UNCHANGED vars
  BY <1>n, <1>15 DEF vars, tables
<1> QED
  BY <1>1, <1>2, <1>3, <1>4, <1>5, <1>6, <1>7, <1>8, <1>9, <1>10, <1>11, <1>12,
     <1>13, <1>14, <1>15
  DEF Next, RestStep, RmrStep, ThreadStep, Receive, Ric, Thread

\* Every step keeps every part of the invariant.
LEMMA NextInv == IInv /\ [Next]_vars => IInv'
  BY TypeStep, MutexStep, IdStep, LeftStep, TableStep, NetStep, CommitStep
  DEF IInv, IdInv

\* Hence the invariant holds of the specification.
LEMMA Invariance == Spec => []IInv
  BY InitInv, NextInv, PTL DEF Spec

-----------------------------------------------------------------------------

\* Every variable keeps its type: in particular, a reply that is committed is
\* for a NodeB, and a request to send is a request.
THEOREM TypeCorrect == Spec => []TypeOK
<1>1. IInv => TypeOK
  BY DEF IInv
<1> QED
  BY <1>1, Invariance, PTL

\* App.mutex before E2AP.mutex, both released by the operation that took them:
\* whatever the two threads do, they cannot wait for each other.
THEOREM MutexesInOrder == Spec => []LockOrder
<1>1. IInv => LockOrder
  BY DEF IInv, MutexInv, LockOrder, Thread, Rest, Rmr, Free, Busy
<1> QED
  BY <1>1, Invariance, PTL

\* However slow, repetitive or silent the RIC is, it is never asked anything
\* the tracker does not know it is asking.
THEOREM RequestsRegistered == Spec => []RegisteredBeforeAnswered
<1>1. IInv => RegisteredBeforeAnswered
  BY DEF IInv, NetInv
<1> QED
  BY <1>1, Invariance, PTL

\* A recorded subscription is one the RIC has granted for that request and that
\* NodeB, or one whose deletion is on its way.
THEOREM RecordedLive == Spec => []RecordedIsLive
<1>1. IInv => RecordedIsLive
  BY DEF IInv, TableInv
<1> QED
  BY <1>1, Invariance, PTL

\* A pending delete is for a subscription that is recorded.
THEOREM DeletesMatch == Spec => []DeleteIsForSubscription
<1>1. IInv => DeleteIsForSubscription
  BY DEF IInv, TableInv
<1> QED
  BY <1>1, Invariance, PTL

\* Refinement: each step moves one subscription, or none.
LEMMA PhaseStep == IInv /\ [Next]_vars => [S!Next]_phase
<1> SUFFICES ASSUME IInv, [Next]_vars PROVE [S!Next]_phase
  OBVIOUS
<1>0. /\ job \in [Thread -> Job] /\ net \in SUBSET Messages /\ subs \in SUBSET Sub
      /\ pendingSubs \in SUBSET [id : Nat, meid : NodeB] /\ nextId \in Nat
      /\ TableInv /\ LeftInv /\ CommitInv /\ FreshInv /\ \A t \in Thread : InHand(t)
  BY DEF TypeOK, IInv, IdInv, Messages
<1> DEFINE
      Steps == {<<"unused", "requested">>, <<"unused", "closed">>,
                <<"requested", "closed">>, <<"requested", "established">>,
                <<"established", "deleting">>, <<"deleting", "closed">>}
<1>i. Ids \subseteq Nat
  BY E2apAssumption DEF Ids
<1>k. ASSUME \A id \in Nat : Phase(id)' = Phase(id) PROVE UNCHANGED phase
  BY <1>i, <1>k DEF phase
<1>s. ASSUME NEW i \in Nat, \A id \in Nat : id # i => Phase(id)' = Phase(id),
             <<Phase(i), Phase(i)'>> \in Steps
      PROVE  [S!Next]_phase
  <2>1. CASE i \notin Ids
    BY <1>i, <1>s, <2>1 DEF phase
  <2>2. CASE i \in Ids
    <3>1. phase' = [phase EXCEPT ![i] = Phase(i)'] /\ phase[i] = Phase(i)
      BY <1>i, <1>s, <2>2 DEF phase
    <3>2. S!Request(i) \/ S!Abandon(i) \/ S!Establish(i) \/ S!Delete(i) \/ S!Remove(i)
      BY <1>s, <3>1
      DEF S!Request, S!Abandon, S!Establish, S!Delete, S!Remove, S!Move
    <3> QED
      BY <1>s, <2>2, <3>2 DEF S!Next
  <2> QED
    BY <2>1, <2>2
\* A step that registers nothing and leaves the tables alone changes no phase.
<1>u. ASSUME UNCHANGED <<nextId, pendingSubs, pendingDels, subs>>,
             \A t \in Thread : job'[t] = job[t]
               \/ (job[t].pc # "register" /\ job'[t].pc # "register")
      PROVE  UNCHANGED phase
  <2>1. \A id \in Nat : Unissued(id)' = Unissued(id)
    BY <1>u DEF Unissued
  <2>2. \A id \in Nat : Phase(id)' = Phase(id)
    BY <1>u, <2>1 DEF Phase
  <2> QED
    BY <1>k, <2>2
\* So does a change of jobs only.
<1>j. \A t \in Thread :
        /\ Advance(t) => /\ job'[t].pc = "issue"
                         /\ \A u \in Thread : u # t => job'[u] = job[u]
        /\ \A pc \in {"transmit", "undo", "kpm", "crashed"} : Goto(t, pc) =>
             /\ job'[t].pc = pc /\ \A u \in Thread : u # t => job'[u] = job[u]
  BY <1>0 DEF Goto, Advance, Job
<1>1. ASSUME NEW n \in NodeB, PostNodeB(n) \/ ConfigureNodeB(n) \/ DeleteNodeB(n)
      PROVE  UNCHANGED phase
  <2>1. UNCHANGED <<nextId, tables>>
    BY <1>1 DEF PostNodeB, ConfigureNodeB, DeleteNodeB
  <2>2. \A t \in Thread : job'[t] = job[t] \/ (job[t].pc # "register" /\ job'[t].pc # "register")
    BY <1>0, <1>1
    DEF PostNodeB, ConfigureNodeB, DeleteNodeB, At, Thread, Rest, Rmr, Job
  <2> QED
    BY <1>u, <2>1, <2>2 DEF tables
<1>2. ASSUME LockSubscriptions \/ EraseNodeB \/ HandleKpm PROVE UNCHANGED phase
  <2>1. UNCHANGED <<nextId, tables>>
    BY <1>2 DEF LockSubscriptions, EraseNodeB, HandleKpm
  <2>2. \A t \in Thread : job'[t] = job[t] \/ (job[t].pc # "register" /\ job'[t].pc # "register")
    BY <1>0, <1>2
    DEF LockSubscriptions, EraseNodeB, HandleKpm, At, Thread, Rest, Rmr, Job, Idle
  <2> QED
    BY <1>u, <2>1, <2>2 DEF tables
<1>3. ASSUME NEW t \in Thread, Finish(t) \/ Transmit(t) PROVE UNCHANGED phase
  <2>1. UNCHANGED <<nextId, tables>>
    BY <1>3 DEF Finish, Transmit
  <2>2. \A u \in Thread : job'[u] = job[u] \/ (job[u].pc # "register" /\ job'[u].pc # "register")
    BY <1>0, <1>3, <1>j DEF Finish, Transmit, At, Idle
  <2> QED
    BY <1>u, <2>1, <2>2 DEF tables
<1>4. ASSUME NEW m \in net, Receive(m) \/ Ric(m) PROVE UNCHANGED phase
  <2>1. UNCHANGED <<nextId, tables>>
    BY <1>4 DEF Receive, Ric, ReceiveSubResponse, ReceiveDelResponse, ReceiveOther, ReceiveControlReply,
      ReceiveSubFailure, ReceiveDelFailure, Dismiss,
                ReceiveIndication, RicSubscribe, RicDelete, RicControl
  <2>2. CASE UNCHANGED job
    BY <1>u, <2>1, <2>2 DEF tables
  <2>3. CASE ReceiveSubResponse(m) \/ ReceiveDelResponse(m)
    <3>1. \A u \in Thread : job'[u] = job[u] \/ (job[u].pc # "register" /\ job'[u].pc # "register")
      BY <1>0, <2>3
      DEF ReceiveSubResponse, ReceiveDelResponse, Take, At, Thread, Rmr, Job
    <3> QED
      BY <1>u, <2>1, <3>1 DEF tables
  <2>4. CASE ReceiveIndication(m)
    <3>1. \A u \in Thread : job'[u] = job[u] \/ (job[u].pc # "register" /\ job'[u].pc # "register")
      BY <1>j, <2>4 DEF ReceiveIndication, Take, At, Thread
    <3> QED
      BY <1>u, <2>1, <3>1 DEF tables
  <2> QED
    BY <1>4, <2>2, <2>3, <2>4
    DEF Receive, Ric, ReceiveOther, ReceiveControlReply,
      ReceiveSubFailure, ReceiveDelFailure, Dismiss, RicSubscribe, RicDelete, RicControl
<1>5. ASSUME RicIndicate \/ UNCHANGED vars PROVE UNCHANGED phase
  BY <1>5, <1>u DEF RicIndicate, vars, tables
<1>6. ASSUME NEW t \in Thread, Issue(t) PROVE UNCHANGED phase
  <2>1. /\ job'[t].pc = "register" /\ job'[t].id = nextId /\ nextId' = nextId + 1
        /\ job[t].pc = "issue" /\ UNCHANGED tables
        /\ \A u \in Thread : u # t => job'[u] = job[u]
    BY <1>0, <1>6 DEF Issue, Job, At
  <2>2. \A id \in Nat : Unissued(id)' = Unissued(id)
    BY <1>0, <2>1 DEF Unissued
  <2>3. \A id \in Nat : Phase(id)' = Phase(id)
    BY <2>1, <2>2 DEF Phase, tables
  <2> QED
    BY <1>k, <2>3
<1>7. ASSUME NEW t \in Thread, Register(t) PROVE [S!Next]_phase
  <2> DEFINE r == Current(t)
  <2> PICK i \in Nat : i = job[t].id
    BY <1>0 DEF Job
  <2>1. /\ job[t].pc = "register" /\ i \in 1..(nextId - 1) /\ r.id = i
        /\ Unsent(i) /\ i \notin controls /\ i \notin IdsOf(pendingSubs)
    BY <1>0, <1>7 DEF Register, InHand, Holding, At, Current, Msg
  <2>2. /\ pendingSubs' = pendingSubs \cup
               {p \in {[id |-> i, meid |-> r.meid]} : r.type = "SubReq"}
        /\ Goto(t, "transmit") /\ UNCHANGED <<nextId, subs, pendingDels>>
    BY <1>7, <2>1 DEF Register, IdsOf
  <2>3. job'[t].pc = "transmit" /\ \A u \in Thread : u # t => job'[u] = job[u]
    BY <1>j, <2>2
  <2>4. \A u \in Thread : u # t => job[u].id # i
    BY <1>0, <2>1 DEF FreshInv, Thread
  <2>5. \A id \in Nat : id # i => Unissued(id)' = Unissued(id)
    BY <1>0, <2>1, <2>2, <2>3 DEF Unissued
  <2>6. Unissued(i) /\ ~ Unissued(i)'
    BY <1>0, <2>1, <2>2, <2>3, <2>4 DEF Unissued
  <2>7. \A id \in Nat : id # i => Phase(id)' = Phase(id)
    BY <2>2, <2>5 DEF Phase
  <2>8. Phase(i) = "unused" /\ Phase(i)' \in {"requested", "closed"}
    <3>1. i \notin pendingDels /\ i \notin IdsOf(subs)
      BY <1>0, <2>1 DEF Unsent, TableInv, DeleteIsForSubscription, IdsOf
    <3> QED
      BY <2>2, <2>6, <3>1 DEF Phase, IdsOf
  <2>9. i \in Nat
    BY <1>0, <2>1
  <2> QED
    BY <1>s, <2>7, <2>8, <2>9
<1>8. ASSUME NEW t \in Thread, Undo(t) PROVE [S!Next]_phase
  <2> DEFINE r == Current(t)
  <2> PICK i \in Nat : i = job[t].id
    BY <1>0 DEF Job
  <2>1. /\ job[t].pc = "undo" /\ i \in 1..(nextId - 1) /\ r.id = i /\ Unsent(i)
        /\ r.type = "SubReq" => [id |-> i, meid |-> r.meid] \in pendingSubs
    BY <1>0, <1>8 DEF Undo, InHand, Holding, At, Current, Msg
  <2>2. /\ pendingSubs' = {p \in pendingSubs : ~(r.type = "SubReq" /\ p.id = i)}
        /\ UNCHANGED <<nextId, subs, pendingDels>>
        /\ job'[t].pc = "issue" /\ \A u \in Thread : u # t => job'[u] = job[u]
    BY <1>8, <1>j, <2>1 DEF Undo
  <2>3. \A id \in Nat : Unissued(id)' = Unissued(id)
    BY <2>1, <2>2 DEF Unissued
  <2>4. i \in Nat /\ \A id \in Nat : id # i => Phase(id)' = Phase(id)
    BY <1>0, <2>1, <2>2, <2>3 DEF Phase
  <2>5. CASE r.type # "SubReq"
    <3>1. pendingSubs' = pendingSubs
      BY <2>2, <2>5
    <3>2. \A id \in Nat : Phase(id)' = Phase(id)
      BY <2>2, <2>3, <3>1 DEF Phase
    <3> QED
      BY <1>k, <3>2
  <2>6. CASE r.type = "SubReq"
    <3>1. ~ Unissued(i)
      BY <1>0, <2>1 DEF Unissued, FreshInv, Thread
    <3>2. i \notin pendingDels /\ i \notin IdsOf(subs)
      BY <1>0, <2>1 DEF Unsent, TableInv, DeleteIsForSubscription, IdsOf
    <3>3. Phase(i) = "requested" /\ Phase(i)' = "closed"
      BY <2>1, <2>2, <2>3, <2>4, <2>6, <3>1, <3>2 DEF Phase, IdsOf
    <3> QED
      BY <1>s, <2>4, <3>3
  <2> QED
    BY <2>5, <2>6
<1>9. ASSUME DeleteSubscription PROVE [S!Next]_phase
  <2> PICK s \in job[Rest].left : SendDelete(s, TRUE)
    BY <1>9 DEF DeleteSubscription
  <2> DEFINE i == s.id
  <2>1. /\ s \in subs /\ UNCHANGED <<nextId, pendingSubs, subs>> 
        /\ \A t \in Thread : job[t].pc = job'[t].pc /\ job[t].id = job'[t].id
    BY <1>0, <1>9 DEF DeleteSubscription, At, LeftInv, Job, Thread
  <2>2. UNCHANGED pendingDels \/ (i \notin pendingDels /\ pendingDels' = pendingDels \cup {i})
    BY DEF SendDelete
  <2>3. \A id \in Nat : Unissued(id)' = Unissued(id)
    BY <2>1 DEF Unissued
  <2>4. i \in Nat /\ \A id \in Nat : id # i => Phase(id)' = Phase(id)
    BY <1>0, <2>1, <2>2, <2>3 DEF Phase, Sub
  <2>5. CASE UNCHANGED pendingDels
    <3>1. \A id \in Nat : Phase(id)' = Phase(id)
      BY <2>1, <2>3, <2>5 DEF Phase
    <3> QED
      BY <1>k, <3>1
  <2>6. CASE i \notin pendingDels /\ pendingDels' = pendingDels \cup {i}
    <3>1. i \in IdsOf(subs) /\ i \notin IdsOf(pendingSubs)
      BY <1>0, <2>1 DEF TableInv, IdsOf
    <3>2. ~ Unissued(i)
      BY <1>0, <2>4, <3>1 DEF Unissued, FreshInv, InHand, Holding, Unsent
    <3>3. Phase(i) = "established" /\ Phase(i)' = "deleting"
      BY <2>1, <2>3, <2>4, <2>6, <3>1, <3>2 DEF Phase, IdsOf
    <3> QED
      BY <1>s, <2>4, <3>3
  <2> QED
    BY <2>2, <2>5, <2>6
<1>10. ASSUME CommitSubscription PROVE [S!Next]_phase
  <2> DEFINE m == job[Rmr].m
  <2> PICK i \in Nat : i = m.id
    BY <1>0 DEF Thread, Job
  <2> DEFINE new == [subid |-> Subid(i), id |-> i, meid |-> m.meid]
  <2>1. /\ [id |-> i, meid |-> m.meid] \in pendingSubs
        /\ subs' = {s \in subs : s.subid # Subid(i)} \cup {new}
        /\ pendingSubs' = {p \in pendingSubs : p.id # i}
        /\ UNCHANGED <<nextId, pendingDels>>
    BY <1>0, <1>10 DEF CommitSubscription, CommitInv, At
  <2>2. \A t \in Thread : job'[t] = job[t] \/ (job[t].pc # "register" /\ job'[t].pc # "register")
    BY <1>0, <1>10 DEF CommitSubscription, At, Thread, Rest, Rmr, Idle
  <2>3. \A id \in Nat : Unissued(id)' = Unissued(id)
    BY <2>1, <2>2 DEF Unissued
  <2>4. i \in Nat /\ i \in IdsOf(pendingSubs) /\ i \notin IdsOf(subs) /\ i \notin pendingDels
    BY <1>0, <2>1 DEF TableInv, DeleteIsForSubscription, IdsOf
  <2>5. \A id \in Nat : id # i => ((\E s \in subs' : s.id = id) <=> (\E s \in subs : s.id = id))
    BY <1>0, <2>1, <2>4 DEF TableInv, Subid, Sub
  <2>6. \A id \in Nat : id # i => Phase(id)' = Phase(id)
    BY <2>1, <2>3, <2>5 DEF Phase
  <2>7. ~ Unissued(i)
    BY <1>0, <2>4 DEF Unissued, FreshInv, InHand, Holding
  <2>8. Phase(i) = "requested" /\ Phase(i)' = "established"
    <3>1. new \in subs' /\ new.id = i /\ \A p \in pendingSubs' : p.id # i
      BY <2>1
    <3>2. Phase(i)' = "established"
      BY <2>1, <2>3, <2>4, <2>7, <3>1 DEF Phase
    <3> QED
      BY <2>4, <2>7, <3>2 DEF Phase, IdsOf
  <2> QED
    BY <1>s, <2>4, <2>6, <2>8
<1>11. ASSUME CommitDelete PROVE [S!Next]_phase
  <2> DEFINE m == job[Rmr].m
  <2> PICK i \in Nat : i = m.id
    BY <1>0 DEF Thread, Job
  <2>1. /\ i \in pendingDels
        /\ subs' = {s \in subs : s.subid # Subid(i)}
        /\ pendingDels' = pendingDels \ {i}
        /\ UNCHANGED <<nextId, pendingSubs>>
    BY <1>0, <1>11 DEF CommitDelete, CommitInv, At
  <2>2. \A t \in Thread : job'[t] = job[t] \/ (job[t].pc # "register" /\ job'[t].pc # "register")
    BY <1>0, <1>11 DEF CommitDelete, At, Thread, Rest, Rmr, Idle
  <2>3. \A id \in Nat : Unissued(id)' = Unissued(id)
    BY <2>1, <2>2 DEF Unissued
  <2>4. i \in Nat /\ i \in IdsOf(subs) /\ i \notin IdsOf(pendingSubs)
    BY <1>0, <2>1 DEF TableInv, DeleteIsForSubscription, IdsOf, Sub
  <2>5. subs' = {s \in subs : s.id # i}
    BY <1>0, <2>1, <2>4 DEF TableInv, Subid, Sub
  <2>6. \A id \in Nat : id # i => Phase(id)' = Phase(id)
    BY <2>1, <2>3, <2>5 DEF Phase
  <2>7. ~ Unissued(i)
    BY <1>0, <2>4 DEF Unissued, FreshInv, InHand, Holding, Unsent
  <2>8. Phase(i) = "deleting" /\ Phase(i)' = "closed"
    BY <2>1, <2>3, <2>4, <2>5, <2>7 DEF Phase, IdsOf
  <2> QED
    BY <1>s, <2>4, <2>6, <2>8
<1> QED
  BY <1>1, <1>2, <1>3, <1>4, <1>5, <1>6, <1>7, <1>8, <1>9, <1>10, <1>11
  DEF Next, RestStep, RmrStep, ThreadStep, Thread

\* Each subscription lives the life that Subscriptions describes, and no other.
THEOREM SubscriptionsImplemented == Spec => ImplementsSubscriptions
<1>1. Init => S!Init
  BY E2apAssumption DEF Init, S!Init, phase, Phase, Unissued, Ids
<1> QED
  BY <1>1, Invariance, PhaseStep, PTL DEF Spec, ImplementsSubscriptions, S!Spec

=============================================================================
