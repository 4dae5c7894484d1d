----------------------- MODULE MessagePipelineProofs -----------------------
(***************************************************************************)
(* Proofs about MessagePipeline, for any sets of messages, handlers and    *)
(* workers and any bounds.                                                 *)
(***************************************************************************)
EXTENDS MessagePipeline, TLAPS

Committed(h) == pc[h] \in {"close", "enqueue"}

\* A task that is not idle has a row; the type invariant alone does not say so.
BusyRow == \A h \in Handlers : ~Idle(h) => row[h] \in Row

\* The row ids of a message are those of its deliveries so far, and no two
\* tasks build the same row.
OwnRow ==
    /\ \A h \in Handlers : ~Idle(h) => row[h][2] <= deliveries[Key(h)]
    /\ \A h, g \in Handlers : ~Idle(h) /\ ~Idle(g) /\ row[h] = row[g] => h = g

\* A task that waits for its COMMIT holds its key alone: neither another such
\* task nor the table has a row of the message.
KeyHeld ==
    /\ \A h \in Handlers : pc[h] = "commit" => \A r \in rows : r[1] # Key(h)
    /\ \A h, g \in Handlers :
          pc[h] = "commit" /\ pc[g] = "commit" /\ Key(h) = Key(g) => h = g

\* Between its commit and its publish a row is in the table and not in the
\* queue.
Unpublished == \A h \in Handlers : Committed(h) => row[h] \in rows \ published

IInv == /\ TypeOK /\ BusyRow
        /\ OwnRow /\ KeyHeld /\ Unpublished
        /\ UniqueRows /\ EnqueuedIsDurable

\* What a delay() that reaches the broker does, whether it returns or raises.
Publishes(h) ==
    /\ pc[h] = "enqueue" /\ Publish(row[h]) /\ Finish(h)
    /\ UNCHANGED <<listener, deliveries, stops, dbVars, workerVars>>

\* What a delay() that does not reach it does.
PublishesNothing(h) ==
    Finish(h) /\ UNCHANGED <<listener, deliveries, stops, dbVars, brokerVars, workerVars>>

-----------------------------------------------------------------------------
\* A publish, failed or not, reaches the broker or it does not.
LEMMA PublishCases ==
    /\ \A h \in Handlers : Enqueue(h) => Publishes(h)
    /\ \A h \in Handlers : EnqueueFails(h) => Publishes(h) \/ PublishesNothing(h)
  BY DEF Enqueue, EnqueueFails, Publishes, PublishesNothing

\* The table and the queue are empty and no task is busy at first.
LEMMA InitIInv == Init => IInv
  BY PipelineAssumption DEF Init, IInv, TypeOK, UniqueRows, EnqueuedIsDurable,
     BusyRow, OwnRow, KeyHeld, Unpublished, Idle, Committed, Awaiting

\* Type correctness, with the row of every busy task.
LEMMA TypeStep == TypeOK /\ BusyRow /\ [Next]_vars => TypeOK' /\ BusyRow'
<1> SUFFICES ASSUME TypeOK, BusyRow, [Next]_vars PROVE TypeOK' /\ BusyRow'
  OBVIOUS
<1> USE PipelineAssumption
    DEF TypeOK, BusyRow, Idle, Awaiting, taskVars, dbVars, brokerVars, workerVars, Goto,
        Finish, Fault
<1>1. ASSUME NEW h \in Handlers, InsertRow(h) PROVE TypeOK' /\ BusyRow'
  BY <1>1 DEF InsertRow
<1>2. ASSUME NEW h \in Handlers, CommitRow(h) PROVE TypeOK' /\ BusyRow'
  BY <1>2 DEF CommitRow
<1>3. ASSUME NEW h \in Handlers, CloseSession(h) PROVE TypeOK' /\ BusyRow'
  BY <1>3 DEF CloseSession
<1>4. ASSUME NEW h \in Handlers, Enqueue(h) PROVE TypeOK' /\ BusyRow'
  BY <1>4 DEF Enqueue, Publish
<1>5. ASSUME NEW h \in Handlers, DatabaseFails(h) PROVE TypeOK' /\ BusyRow'
  BY <1>5 DEF DatabaseFails
<1>6. ASSUME NEW h \in Handlers, EnqueueFails(h) PROVE TypeOK' /\ BusyRow'
  BY <1>6 DEF EnqueueFails, Publish
<1>7. ASSUME NEW h \in Handlers, Cancel(h) PROVE TypeOK' /\ BusyRow'
  BY <1>7 DEF Cancel
<1>8. ASSUME NEW h \in Handlers, NEW m \in Messages, Deliver(h, m) PROVE TypeOK' /\ BusyRow'
  <2>1. deliveries[m] + 1 \in 1..MaxDeliveries
    BY <1>8 DEF Deliver
  <2>2. <<m, deliveries[m] + 1>> \in Row
    BY <2>1 DEF Row
  <2> QED
    BY <1>8, <2>1, <2>2 DEF Deliver
<1>9. ASSUME NEW m \in Messages, DeliverUnknown(m)
      PROVE  TypeOK' /\ BusyRow'
  BY <1>9 DEF DeliverUnknown, vars
<1>10. CASE Stop
  BY <1>10 DEF Stop
<1>11. CASE StopDone
  BY <1>11 DEF StopDone
<1>12. CASE Crash
  <2>1. rows' \subseteq Row
    BY <1>12 DEF Crash
  <2> QED
    BY <1>12, <2>1 DEF Crash
<1>13. CASE Restart
  BY <1>13 DEF Restart
<1>14. ASSUME NEW w \in Workers, NEW r \in ready, Fetch(w, r) PROVE TypeOK' /\ BusyRow'
  BY <1>14 DEF Fetch
<1>15. ASSUME NEW w \in Workers, FilterMessage(w) PROVE TypeOK' /\ BusyRow'
  BY <1>15 DEF FilterMessage
<1>16. ASSUME NEW w \in Workers, WorkerLost(w) PROVE TypeOK' /\ BusyRow'
  BY <1>16 DEF WorkerLost
<1>17. ASSUME NEW r \in unacked, Redeliver(r) PROVE TypeOK' /\ BusyRow'
  BY <1>17 DEF Redeliver
<1>18. CASE EvictQueue
  BY <1>18 DEF EvictQueue
<1>19. CASE Rest \/ UNCHANGED vars
  BY <1>19 DEF Rest, vars
<1>20. ASSUME NEW h \in Handlers, Connect(h) PROVE TypeOK' /\ BusyRow'
  BY <1>20 DEF Connect
<1>21. ASSUME NEW h \in Handlers, PoolTimeout(h) PROVE TypeOK' /\ BusyRow'
  <2>1. Key(h) \in Messages
    BY <1>21 DEF PoolTimeout, Row, Key
  <2> QED
    BY <1>21, <2>1 DEF PoolTimeout
<1> QED
  BY <1>1, <1>2, <1>3, <1>4, <1>5, <1>6, <1>7, <1>8, <1>9, <1>10, <1>11, <1>12,
     <1>13, <1>14, <1>15, <1>16, <1>17, <1>18, <1>19, <1>20, <1>21
     DEF Next, HandlerStep, HandlerFault, WorkerStep

\* No step takes a row out of the table.
LEMMA RowsGrow == [Next]_vars => rows \subseteq rows'
<1> SUFFICES ASSUME [Next]_vars PROVE rows \subseteq rows'
  OBVIOUS
<1> QED
  BY DEF Next, vars, HandlerStep, HandlerFault, WorkerStep, Deliver, DeliverUnknown,
     Connect, PoolTimeout, InsertRow, CommitRow, DatabaseFails, CloseSession, Enqueue, EnqueueFails, Stop,
     Cancel, StopDone, Crash, Restart, Fetch, FilterMessage, WorkerLost, Redeliver,
     EvictQueue, Rest, dbVars

\* A step that leaves the tasks, the tables and the deliveries alone keeps
\* everything that is said of them.
LEMMA TaskFrame ==
    ASSUME IInv, UNCHANGED <<deliveries, pc, row, rows, published>>
    PROVE  OwnRow' /\ KeyHeld' /\ Unpublished' /\ UniqueRows'
  BY DEF IInv, OwnRow, KeyHeld, Unpublished, UniqueRows, Idle, Key, Committed

\* The same for a task that gives up, whether or not its COMMIT got through:
\* the row of a task at its commit is the first of its message.
LEMMA GiveUp ==
    ASSUME IInv, NEW h \in Handlers, Finish(h), UNCHANGED <<deliveries, published>>,
           \/ rows' = rows
           \/ pc[h] = "commit" /\ rows' = rows \cup {row[h]}
    PROVE  OwnRow' /\ KeyHeld' /\ Unpublished' /\ UniqueRows'
<1> USE DEF Finish, Idle, Committed, Key
<1>1. /\ \A g \in Handlers : pc'[g] # "idle" => g # h /\ pc'[g] = pc[g] /\ row'[g] = row[g]
      /\ pc'[h] = "idle"
  BY DEF IInv, TypeOK
<1>2. OwnRow'
  BY <1>1 DEF IInv, OwnRow
<1>3. KeyHeld'
  BY <1>1 DEF IInv, KeyHeld
<1>4. Unpublished'
  BY <1>1 DEF IInv, Unpublished
<1>5. UniqueRows'
  BY DEF IInv, UniqueRows, KeyHeld
<1> QED
  BY <1>2, <1>3, <1>4, <1>5

\* What the tasks know and the uniqueness of the rows, over every step.
LEMMA TaskStep == IInv /\ [Next]_vars => OwnRow' /\ KeyHeld' /\ Unpublished' /\ UniqueRows'
<1> SUFFICES ASSUME IInv, [Next]_vars
             PROVE  OwnRow' /\ KeyHeld' /\ Unpublished' /\ UniqueRows'
  OBVIOUS
<1> DEFINE Goal == OwnRow' /\ KeyHeld' /\ Unpublished' /\ UniqueRows'
<1>0. /\ pc \in [Handlers -> Awaiting \cup {"idle", "enqueue"}]
      /\ row \in [Handlers -> Row \cup {NoRow}]
      /\ deliveries \in [Messages -> 0..MaxDeliveries]
  BY DEF IInv, TypeOK
<1>1. ASSUME NEW h \in Handlers, InsertRow(h) PROVE Goal
  <2>1. CASE RowsOf(Key(h)) = {} /\ Goto(h, "commit")
    <3>1. /\ pc' = [pc EXCEPT ![h] = "commit"]
          /\ UNCHANGED <<row, rows, published, deliveries>>
      BY <1>1, <2>1 DEF InsertRow, Goto, dbVars, brokerVars
    <3>2. OwnRow' /\ Unpublished' /\ UniqueRows'
      BY <1>0, <1>1, <3>1 DEF InsertRow, IInv, OwnRow, Unpublished, UniqueRows, Idle, Committed, Key
    <3>3. KeyHeld'
      BY <1>0, <1>1, <2>1, <3>1 DEF InsertRow, IInv, KeyHeld, KeyLocked, RowsOf, Key
    <3> QED
      BY <3>2, <3>3
  <2>2. CASE Finish(h)
    BY <1>1, <2>2, GiveUp DEF InsertRow, dbVars, brokerVars
  <2> QED
    BY <1>1, <2>1, <2>2 DEF InsertRow
<1>2. ASSUME NEW h \in Handlers, CommitRow(h) PROVE Goal
  <2>1. /\ pc[h] = "commit"
        /\ pc' = [pc EXCEPT ![h] = "close"] /\ rows' = rows \cup {row[h]}
        /\ UNCHANGED <<row, published, deliveries>>
    BY <1>2 DEF CommitRow, Goto, brokerVars
  <2>2. row[h] \notin published
    BY <2>1 DEF IInv, KeyHeld, EnqueuedIsDurable, Key
  <2>3. OwnRow' /\ Unpublished'
    BY <1>0, <2>1, <2>2 DEF IInv, OwnRow, Unpublished, Idle, Committed, Key
  <2>4. KeyHeld'
    BY <1>0, <2>1 DEF IInv, KeyHeld, Key
  <2>5. UniqueRows'
    BY <2>1 DEF IInv, UniqueRows, KeyHeld, Key
  <2> QED
    BY <2>3, <2>4, <2>5
<1>3. ASSUME NEW h \in Handlers, CloseSession(h) PROVE Goal
  BY <1>0, <1>3 DEF CloseSession, Goto, dbVars, brokerVars,
     IInv, OwnRow, KeyHeld, Unpublished, UniqueRows, Idle, Committed, Key
<1>4. ASSUME NEW h \in Handlers, Publishes(h) PROVE Goal
  <2>1. /\ pc[h] = "enqueue" /\ published' = published \cup {row[h]}
        /\ pc' = [pc EXCEPT ![h] = "idle"] /\ row' = [row EXCEPT ![h] = NoRow]
        /\ UNCHANGED <<rows, deliveries>>
    BY <1>4 DEF Publishes, Publish, Finish, dbVars
  <2>2. OwnRow' /\ KeyHeld' /\ UniqueRows'
    BY <1>0, <2>1 DEF IInv, OwnRow, KeyHeld, UniqueRows, Idle, Key
  <2>3. Unpublished'
    BY <1>0, <2>1 DEF IInv, OwnRow, Unpublished, Idle, Committed
  <2> QED
    BY <2>2, <2>3
<1>5. ASSUME NEW h \in Handlers, DatabaseFails(h) PROVE Goal
  BY <1>5, GiveUp DEF DatabaseFails, brokerVars
<1>6. ASSUME NEW h \in Handlers, Enqueue(h) \/ EnqueueFails(h) PROVE Goal
  <2>1. CASE PublishesNothing(h)
    BY <2>1, GiveUp DEF PublishesNothing, dbVars, brokerVars
  <2> QED
    BY <1>4, <1>6, <2>1, PublishCases
<1>7. ASSUME NEW h \in Handlers, Cancel(h) PROVE Goal
  BY <1>7, GiveUp DEF Cancel, brokerVars
<1>8. ASSUME NEW h \in Handlers, NEW m \in Messages, Deliver(h, m) PROVE Goal
  <2>1. /\ pc[h] = "idle" /\ pc' = [pc EXCEPT ![h] = "checkout"]
        /\ row' = [row EXCEPT ![h] = <<m, deliveries[m] + 1>>]
        /\ deliveries' = [deliveries EXCEPT ![m] = @ + 1]
        /\ UNCHANGED <<rows, published>>
    BY <1>8 DEF Deliver, Idle, dbVars, brokerVars
  <2>2. \A g \in Handlers : ~Idle(g) => g # h /\ row[g] # <<m, deliveries[m] + 1>>
    <3> SUFFICES ASSUME NEW g \in Handlers, ~Idle(g), row[g] = <<m, deliveries[m] + 1>>
                 PROVE  FALSE
      BY <2>1 DEF Idle
    <3> QED
      BY <1>0 DEF IInv, OwnRow, Key
  <2>3. \A g \in Handlers : ~Idle(g) => Key(g) \in Messages /\ row[g][2] \in Nat
    BY DEF IInv, BusyRow, Row, Key
  <2>4. OwnRow'
    BY <1>0, <2>1, <2>2, <2>3 DEF IInv, OwnRow, Idle, Key
  <2>5. KeyHeld' /\ Unpublished' /\ UniqueRows'
    BY <1>0, <2>1 DEF IInv, KeyHeld, Unpublished, UniqueRows, Committed, Key
  <2> QED
    BY <2>4, <2>5
<1>9. ASSUME NEW m \in Messages, DeliverUnknown(m) PROVE Goal
  BY <1>9, TaskFrame DEF DeliverUnknown, vars
<1>10. CASE Crash
  <2>1. PICK S \in SUBSET {h \in Handlers : pc[h] = "commit"} : rows' = rows \cup {row[h] : h \in S}
    BY <1>10 DEF Crash
  <2>2. \A h \in Handlers : pc'[h] = "idle"
    BY <1>10 DEF Crash
  <2>3. UniqueRows'
    BY <2>1 DEF IInv, UniqueRows, KeyHeld, Key
  <2> QED
    BY <2>2, <2>3 DEF OwnRow, KeyHeld, Unpublished, Idle, Committed
<1>11. ASSUME NEW w \in Workers, WorkerStep(w) \/ WorkerLost(w) PROVE Goal
  BY <1>11, TaskFrame DEF WorkerStep, Fetch, FilterMessage, WorkerLost, taskVars, dbVars
<1>12. CASE Stop \/ StopDone \/ Restart \/ EvictQueue \/ Rest \/ UNCHANGED vars
  BY <1>12, TaskFrame DEF Stop, StopDone, Restart, EvictQueue, Rest, vars, taskVars,
     dbVars, brokerVars
<1>13. ASSUME NEW r \in unacked, Redeliver(r) PROVE Goal
  BY <1>13, TaskFrame DEF Redeliver, taskVars, dbVars
<1>14. ASSUME NEW h \in Handlers, Connect(h) PROVE Goal
  BY <1>0, <1>14 DEF Connect, Goto, dbVars, brokerVars,
     IInv, OwnRow, KeyHeld, Unpublished, UniqueRows, Idle, Committed, Key
<1>15. ASSUME NEW h \in Handlers, PoolTimeout(h) PROVE Goal
  BY <1>15, GiveUp DEF PoolTimeout, brokerVars
<1> QED
  BY <1>1, <1>2, <1>3, <1>4, <1>5, <1>6, <1>7, <1>8, <1>9, <1>10, <1>11, <1>12, <1>13,
     <1>14, <1>15
     DEF Next, HandlerStep, HandlerFault

\* The broker and the workers only ever hold rows that were published, and a
\* publish follows the commit of its row.
LEMMA DurableStep == IInv /\ [Next]_vars => EnqueuedIsDurable'
<1> SUFFICES ASSUME IInv, [Next]_vars PROVE EnqueuedIsDurable'
  OBVIOUS
<1>1. EnqueuedIsDurable /\ rows \subseteq rows' /\ worker \in [Workers -> Row \cup {NoRow}]
  BY RowsGrow DEF IInv, TypeOK
<1>2. ASSUME NEW h \in Handlers, Publishes(h) PROVE EnqueuedIsDurable'
  BY <1>1, <1>2 DEF Publishes, Publish, EnqueuedIsDurable, IInv, Unpublished, Committed, workerVars
<1>3. ASSUME NEW w \in Workers, NEW r \in ready, Fetch(w, r) PROVE EnqueuedIsDurable'
  BY <1>1, <1>3 DEF Fetch, EnqueuedIsDurable
<1>4. ASSUME NEW w \in Workers, FilterMessage(w) PROVE EnqueuedIsDurable'
  BY <1>1, <1>4 DEF FilterMessage, EnqueuedIsDurable
<1>5. ASSUME NEW w \in Workers, WorkerLost(w) PROVE EnqueuedIsDurable'
  BY <1>1, <1>5 DEF WorkerLost, EnqueuedIsDurable
<1>6. ASSUME NEW r \in unacked, Redeliver(r) PROVE EnqueuedIsDurable'
  BY <1>1, <1>6 DEF Redeliver, EnqueuedIsDurable, workerVars
<1>7. CASE EvictQueue
  BY <1>1, <1>7 DEF EvictQueue, EnqueuedIsDurable, workerVars
<1>8. CASE UNCHANGED <<brokerVars, workerVars>>
  BY <1>1, <1>8 DEF EnqueuedIsDurable, brokerVars, workerVars
<1>9. ASSUME NEW h \in Handlers, Enqueue(h) \/ EnqueueFails(h) PROVE EnqueuedIsDurable'
  BY <1>2, <1>8, <1>9, PublishCases DEF PublishesNothing
<1> QED
  BY <1>3, <1>4, <1>5, <1>6, <1>7, <1>8, <1>9
     DEF Next, vars, HandlerStep, HandlerFault, WorkerStep, Deliver, DeliverUnknown,
     Connect, PoolTimeout, InsertRow, CommitRow, DatabaseFails, CloseSession,
     Stop, Cancel, StopDone, Crash, Restart, Rest, brokerVars, workerVars

\* IInv is inductive.
LEMMA IInvStep == IInv /\ [Next]_vars => IInv'
  BY TypeStep, TaskStep, DurableStep DEF IInv

\* IInv holds in every reachable state.
LEMMA Invariance == Spec => []IInv
  BY InitIInv, IInvStep, PTL DEF Spec

-----------------------------------------------------------------------------
\* Every variable of the pipeline keeps its type, for any sets and bounds.
THEOREM TypeCorrect == Spec => []TypeOK
  BY Invariance, PTL DEF IInv

\* However many deliveries of a message race, its table has one row of it.
THEOREM NoDuplicateRow == Spec => []UniqueRows
  BY Invariance, PTL DEF IInv

\* Nothing is in the queue, in a worker or was lost by Redis whose row was not
\* committed before: the invariant of ADR 0006.
THEOREM CommitBeforePublish == Spec => []EnqueuedIsDurable
  BY Invariance, PTL DEF IInv

-----------------------------------------------------------------------------
(* Nothing is lost without a reason *)

\* As long as nothing failed and nobody stopped it, the listener is up: no task
\* is cancelled.
UpUntilStopped == faults = 0 /\ stops = 0 => listener = "up"

NoLoss == UpUntilStopped /\ OrphanNeedsFault /\ LossNeedsReason

LEMMA InitNoLoss == Init => NoLoss
  BY PipelineAssumption DEF Init, NoLoss, UpUntilStopped, OrphanNeedsFault, LossNeedsReason

\* A step that leaves no fault and no stop behind had none before, and is none
\* of the faulty ones.
LEMMA QuietStep ==
    ASSUME IInv, UpUntilStopped, [Next]_vars, faults' = 0, stops' = 0
    PROVE  /\ faults = 0 /\ stops = 0 /\ listener = "up" /\ listener' = "up"
           /\ \/ \E h \in Handlers : HandlerStep(h) \/ \E m \in Messages : Deliver(h, m)
              \/ UNCHANGED <<deliveries, pc, row, rows, published, refused>>
<1>1. faults \in Nat /\ stops \in Nat /\ faults + 1 # 0 /\ stops + 1 # 0
  BY PipelineAssumption DEF IInv, TypeOK
<1>2. faults' = faults \/ faults' = faults + 1
  BY DEF Next, vars, HandlerStep, HandlerFault, WorkerStep, Deliver, DeliverUnknown,
     Connect, PoolTimeout, InsertRow, CommitRow, DatabaseFails, CloseSession, Enqueue,
     EnqueueFails, Stop, Cancel, StopDone, Crash, Restart, Fetch, FilterMessage, WorkerLost,
     Redeliver, EvictQueue, Rest, Fault
<1>3. stops' = stops \/ stops' = stops + 1
  BY DEF Next, vars, HandlerStep, HandlerFault, WorkerStep, Deliver, DeliverUnknown,
     Connect, PoolTimeout, InsertRow, CommitRow, DatabaseFails, CloseSession, Enqueue,
     EnqueueFails, Stop, Cancel, StopDone, Crash, Restart, Fetch, FilterMessage, WorkerLost,
     Redeliver, EvictQueue, Rest
<1>4. faults = 0 /\ stops = 0 /\ listener = "up"
  BY <1>1, <1>2, <1>3 DEF UpUntilStopped
<1>5. ~Fault /\ ~Stop /\ ~StopDone /\ ~Restart /\ \A h \in Handlers : ~Cancel(h)
  BY <1>1, <1>4 DEF Fault, Stop, StopDone, Restart, Cancel
<1>6. \/ \E h \in Handlers : HandlerStep(h) \/ \E m \in Messages : Deliver(h, m)
      \/ UNCHANGED <<listener, deliveries, pc, row, rows, published, refused>>
  BY <1>5 DEF Next, vars, HandlerFault, WorkerStep, DeliverUnknown, DatabaseFails,
     EnqueueFails, Crash, Fetch, FilterMessage, WorkerLost, Redeliver, EvictQueue, Rest,
     taskVars, dbVars
<1>7. listener' = listener
  BY <1>6 DEF HandlerStep, Deliver, Connect, PoolTimeout, InsertRow, CommitRow,
     CloseSession, Enqueue
<1> QED
  BY <1>4, <1>6, <1>7

\* Without a fault or a stop, a step of a task loses nothing: it gives up only
\* after its pool timed out, or in a conflict with a row that another task
\* publishes or has published.
LEMMA TaskLosesNothing ==
    ASSUME IInv, IInv', OrphanNeedsFault, LossNeedsReason, faults = 0, stops = 0,
           NEW h \in Handlers, HandlerStep(h) \/ \E m \in Messages : Deliver(h, m)
    PROVE  OrphanNeedsFault' /\ LossNeedsReason'
<1> DEFINE Orphan == \A r \in rows \ published :
                        \E g \in Handlers : pc[g] \in {"close", "enqueue"} /\ row[g] = r
           Known(m) == \/ \E r \in published : r[1] = m
                       \/ \E g \in Handlers : ~Idle(g) /\ Key(g) = m
<1>1. Orphan /\ \A m \in Routed \ refused : deliveries[m] > 0 => Known(m)
  BY DEF OrphanNeedsFault, LossNeedsReason
<1>2. SUFFICES Orphan' /\ \A m \in Routed \ refused' : deliveries'[m] > 0 => Known(m)'
  BY DEF OrphanNeedsFault, LossNeedsReason
<1>3. /\ pc \in [Handlers -> Awaiting \cup {"idle", "enqueue"}]
      /\ row \in [Handlers -> Row \cup {NoRow}]
      /\ deliveries \in [Messages -> 0..MaxDeliveries] /\ Routed \subseteq Messages
  BY PipelineAssumption DEF IInv, TypeOK
<1>4. ASSUME NEW stage, stage # "idle", Goto(h, stage), pc[h] # "idle",
             UNCHANGED <<deliveries, published, refused>>,
             \/ rows' = rows /\ pc[h] \notin {"close", "enqueue"}
             \/ rows' = rows \cup {row[h]} /\ stage = "close"
             \/ rows' = rows /\ stage = "enqueue"
      PROVE  Orphan' /\ \A m \in Routed \ refused' : deliveries'[m] > 0 => Known(m)'
  <2>1. /\ \A g \in Handlers : row'[g] = row[g] /\ pc'[g] = IF g = h THEN stage ELSE pc[g]
        /\ \A g \in Handlers : Idle(g)' <=> Idle(g)
    BY <1>3, <1>4 DEF Goto, Idle
  <2>2. Orphan'
    BY <1>1, <1>4, <2>1
  <2>3. \A m : Known(m) => Known(m)'
    BY <1>4, <2>1 DEF Key
  <2> QED
    BY <1>1, <1>4, <2>2, <2>3
<1>5. CASE Connect(h)
  BY <1>4, <1>5 DEF Connect, brokerVars, dbVars
<1>6. CASE CommitRow(h)
  BY <1>4, <1>6 DEF CommitRow, brokerVars
<1>7. CASE CloseSession(h)
  BY <1>4, <1>7 DEF CloseSession, brokerVars, dbVars
<1>8. CASE Enqueue(h)
  <2>1. /\ pc[h] = "enqueue" /\ published' = published \cup {row[h]} /\ Finish(h)
        /\ UNCHANGED <<rows, refused, deliveries>>
    BY <1>8 DEF Enqueue, Publish, dbVars
  <2>2. \A g \in Handlers \ {h} : pc'[g] = pc[g] /\ row'[g] = row[g]
    BY <1>3, <2>1 DEF Finish
  <2>3. Orphan'
    BY <1>1, <2>1, <2>2
  <2>4. \A m : Known(m) => Known(m)'
    BY <2>1, <2>2 DEF Key, Idle
  <2> QED
    BY <1>1, <2>1, <2>3, <2>4
<1>9. ASSUME Finish(h), pc[h] \in {"checkout", "insert"}, refused \subseteq refused',
             Key(h) \in refused' \/ RowsOf(Key(h)) # {},
             UNCHANGED <<rows, published, deliveries>>
      PROVE  Orphan' /\ \A m \in Routed \ refused' : deliveries'[m] > 0 => Known(m)'
  <2>1. \A g \in Handlers \ {h} : pc'[g] = pc[g] /\ row'[g] = row[g]
    BY <1>3, <1>9 DEF Finish
  <2>2. Orphan'
    BY <1>1, <1>9, <2>1
  <2>3. \A m \in Routed \ {Key(h)} : Known(m) => Known(m)'
    BY <1>9, <2>1 DEF Key, Idle
  <2>4. ASSUME NEW m, m = Key(h), RowsOf(m) # {} PROVE Known(m)'
    <3> SUFFICES ASSUME NEW r \in rows, r[1] = m, r \notin published
                 PROVE  Known(m)'
      BY <1>9, <2>4 DEF RowsOf
    <3>1. PICK g \in Handlers : pc[g] \in {"close", "enqueue"} /\ row[g] = r
      BY <1>1
    <3>2. g # h /\ ~Idle(g)' /\ Key(g)' = m
      BY <1>9, <2>1, <3>1 DEF Key, Idle
    <3> QED
      BY <3>2
  <2> QED
    <3> SUFFICES ASSUME NEW m \in Routed \ refused', deliveries'[m] > 0 PROVE Known(m)'
      BY <2>2
    <3>1. CASE m = Key(h)
      BY <1>9, <2>4, <3>1
    <3>2. CASE m # Key(h)
      BY <1>1, <1>9, <2>3, <3>2
    <3> QED
      BY <3>1, <3>2
<1>10. CASE PoolTimeout(h)
  BY <1>9, <1>10 DEF PoolTimeout, brokerVars
<1>11. CASE InsertRow(h)
  BY <1>4, <1>9, <1>11 DEF InsertRow, brokerVars, dbVars
<1>12. ASSUME NEW m \in Messages, Deliver(h, m)
       PROVE  Orphan' /\ \A k \in Routed \ refused' : deliveries'[k] > 0 => Known(k)'
  <2>1. /\ pc[h] = "idle" /\ pc' = [pc EXCEPT ![h] = "checkout"]
        /\ row' = [row EXCEPT ![h] = <<m, deliveries[m] + 1>>]
        /\ deliveries' = [deliveries EXCEPT ![m] = @ + 1]
        /\ UNCHANGED <<rows, published, refused>>
    BY <1>12 DEF Deliver, Idle, dbVars, brokerVars
  <2>2. /\ \A g \in Handlers \ {h} : pc'[g] = pc[g] /\ row'[g] = row[g]
        /\ pc'[h] = "checkout" /\ row'[h][1] = m
        /\ \A k \in Messages \ {m} : deliveries'[k] = deliveries[k]
    BY <1>3, <2>1
  <2>3. Orphan'
    BY <1>1, <2>1, <2>2
  <2>4. Known(m)' /\ \A k : Known(k) => Known(k)'
    BY <2>1, <2>2 DEF Key, Idle
  <2> QED
    BY <1>1, <1>3, <2>1, <2>2, <2>3, <2>4
<1> QED
  BY <1>5, <1>6, <1>7, <1>8, <1>10, <1>11, <1>12 DEF HandlerStep

LEMMA NoLossStep == IInv /\ IInv' /\ NoLoss /\ [Next]_vars => NoLoss'
<1> SUFFICES ASSUME IInv, IInv', NoLoss, [Next]_vars, faults' = 0, stops' = 0
             PROVE  NoLoss'
  BY DEF NoLoss, UpUntilStopped, OrphanNeedsFault, LossNeedsReason
<1>1. UpUntilStopped'
  BY QuietStep DEF NoLoss, UpUntilStopped
<1>2. OrphanNeedsFault' /\ LossNeedsReason'
  <2>1. CASE UNCHANGED <<deliveries, pc, row, rows, published, refused>>
    BY <2>1, QuietStep DEF NoLoss, OrphanNeedsFault, LossNeedsReason, Idle, Key
  <2>2. ASSUME NEW h \in Handlers, HandlerStep(h) \/ \E m \in Messages : Deliver(h, m)
        PROVE  OrphanNeedsFault' /\ LossNeedsReason'
    BY <2>2, QuietStep, TaskLosesNothing DEF NoLoss
  <2> QED
    BY <2>1, <2>2, QuietStep DEF NoLoss
<1> QED
  BY <1>1, <1>2 DEF NoLoss

\* NoLoss holds in every reachable state.
LEMMA NoLossInvariance == Spec => []NoLoss
  BY InitNoLoss, NoLossStep, Invariance, PTL DEF Spec

\* Without a fault or a stop every committed row that was not published is still
\* with the task that committed it.
THEOREM NoSilentOrphan == Spec => []OrphanNeedsFault
  BY NoLossInvariance, PTL DEF NoLoss

\* Without a fault or a stop a delivered message of a known chat is with a task
\* or was published, unless the pool's timeout refused one of its deliveries.
THEOREM NoSilentLoss == Spec => []LossNeedsReason
  BY NoLossInvariance, PTL DEF NoLoss

\* What the broker accepted it still has, or a worker ran it, or Redis evicted
\* it: whichever workers are lost and however often a task is redelivered.
THEOREM AcceptedSurvives == Spec => []TaskSurvivesWorker
<1>1. Init => TaskSurvivesWorker
  BY DEF Init, TaskSurvivesWorker
<1>2. TaskSurvivesWorker /\ [Next]_vars => TaskSurvivesWorker'
  <2> SUFFICES ASSUME TaskSurvivesWorker, [Next]_vars PROVE TaskSurvivesWorker'
    OBVIOUS
  <2> USE DEF TaskSurvivesWorker
  <2>1. ASSUME NEW h \in Handlers, Enqueue(h) \/ EnqueueFails(h) PROVE TaskSurvivesWorker'
    BY <2>1 DEF Enqueue, EnqueueFails, Publish, brokerVars, workerVars
  <2>2. ASSUME NEW w \in Workers, WorkerStep(w) PROVE TaskSurvivesWorker'
    BY <2>2 DEF WorkerStep, Fetch, FilterMessage
  <2>3. ASSUME NEW w \in Workers, WorkerLost(w) PROVE TaskSurvivesWorker'
    BY <2>3 DEF WorkerLost
  <2>4. ASSUME NEW r \in unacked, Redeliver(r) PROVE TaskSurvivesWorker'
    BY <2>4 DEF Redeliver, workerVars
  <2>5. CASE EvictQueue
    BY <2>5 DEF EvictQueue, workerVars
  <2>6. CASE UNCHANGED <<brokerVars, workerVars>>
    BY <2>6 DEF brokerVars, workerVars
  <2> QED
    BY <2>1, <2>2, <2>3, <2>4, <2>5, <2>6
       DEF Next, vars, HandlerStep, HandlerFault, Deliver, DeliverUnknown, Connect,
           PoolTimeout, InsertRow, CommitRow, DatabaseFails, CloseSession, Stop, Cancel,
           StopDone, Crash, Restart, Rest, brokerVars, workerVars
<1> QED
  BY <1>1, <1>2, PTL DEF Spec

-----------------------------------------------------------------------------
(* Refinement of MessageLedger *)

Stored    == {r[1] : r \in rows}
Announced == {r[1] : r \in published}

\* A commit of rows whose messages have none yet is a Store of the ledger.
LEMMA StoreStep ==
    ASSUME IInv, NEW S \in SUBSET {h \in Handlers : pc[h] = "commit"},
           rows' = rows \cup {row[h] : h \in S}, published' = published
    PROVE  Ledger!Next
<1> DEFINE T == {Key(h) : h \in S}
<1>1. T \subseteq Messages
  BY DEF IInv, BusyRow, Idle, Row, Key
<1>2. T \cap Stored = {}
  BY DEF IInv, KeyHeld, Stored, Key
<1>3. Stored' = Stored \cup T
  BY DEF Stored, Key
<1> HIDE DEF T
<1> QED
  BY <1>1, <1>2, <1>3 DEF Ledger!Next, Ledger!Store, Stored, Announced

\* A publish that reaches the broker is the first and only Announce of its
\* message: its row is the only one of the message, and it was not published
\* before.
LEMMA AnnounceStep ==
    ASSUME IInv, NEW h \in Handlers, Publishes(h)
    PROVE  Ledger!Next
<1>1. /\ row[h] \in rows \ published /\ published' = published \cup {row[h]} /\ rows' = rows
  BY DEF IInv, Unpublished, Committed, Publishes, Publish, dbVars
<1>2. \A r \in published : r[1] # Key(h)
  BY <1>1 DEF IInv, UniqueRows, EnqueuedIsDurable, Key
<1>3. Key(h) \in Messages
  BY DEF IInv, BusyRow, Idle, Row, Key, Publishes
<1>4. Key(h) \in Stored \ Announced /\ Announced' = Announced \cup {Key(h)} /\ Stored' = Stored
  BY <1>1, <1>2 DEF Stored, Announced, Key
<1> QED
  BY <1>3, <1>4 DEF Ledger!Next, Ledger!Announce, Stored, Announced

\* Every step of the pipeline is a step of the ledger or leaves it unchanged.
LEMMA LedgerStep == IInv /\ [Next]_vars => [Ledger!Next]_<<Stored, Announced>>
<1> SUFFICES ASSUME IInv, [Next]_vars
             PROVE  Ledger!Next \/ UNCHANGED <<Stored, Announced>>
  OBVIOUS
<1>1. ASSUME NEW h \in Handlers, Enqueue(h) \/ EnqueueFails(h)
      PROVE  Ledger!Next \/ UNCHANGED <<Stored, Announced>>
  BY <1>1, AnnounceStep, PublishCases DEF PublishesNothing, dbVars, brokerVars, Stored, Announced
<1>2. ASSUME NEW h \in Handlers, pc[h] = "commit", rows' = rows \cup {row[h]},
             published' = published
      PROVE  Ledger!Next
  <2>1. {h} \in SUBSET {g \in Handlers : pc[g] = "commit"} /\ {row[h]} = {row[g] : g \in {h}}
    BY <1>2
  <2> QED
    BY <1>2, <2>1, StoreStep
<1>3. ASSUME NEW h \in Handlers, CommitRow(h) \/ DatabaseFails(h) \/ Cancel(h)
      PROVE  Ledger!Next \/ UNCHANGED <<Stored, Announced>>
  BY <1>2, <1>3 DEF CommitRow, DatabaseFails, Cancel, brokerVars, Stored, Announced
<1>4. CASE Crash
  BY <1>4, StoreStep DEF Crash, brokerVars
<1>5. CASE UNCHANGED <<rows, published>>
  BY <1>5 DEF Stored, Announced
<1> QED
  BY <1>1, <1>3, <1>4, <1>5
     DEF Next, vars, HandlerStep, HandlerFault, WorkerStep, Deliver, DeliverUnknown,
     Connect, PoolTimeout, InsertRow, CloseSession, Stop, StopDone, Restart, Fetch, FilterMessage,
     WorkerLost, Redeliver, EvictQueue, Rest, dbVars, brokerVars

\* The pipeline implements the ledger of ADR 0006: a message is recorded once,
\* announced under one row id, and only in this order.
THEOREM LedgerRefinement == Spec => ImplementsLedger
<1>1. Init => Ledger!Init
  BY DEF Init, Ledger!Init
<1>2. IInv /\ [Next]_vars => [Ledger!Next]_<<{r[1] : r \in rows}, {r[1] : r \in published}>>
  BY LedgerStep DEF Stored, Announced
<1> QED
  BY <1>1, <1>2, Invariance, PTL DEF Spec, ImplementsLedger, Ledger!Spec
=============================================================================
