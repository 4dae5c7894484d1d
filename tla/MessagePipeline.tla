-------------------------- MODULE MessagePipeline --------------------------
(***************************************************************************)
(* Ingestion of one message: Telethon starts one task per NewMessage       *)
(* update (listener/main.py _handler); the task runs handle_message        *)
(* (listener/processing.py), which inserts a raw_messages row, commits,    *)
(* closes the database session and then publishes the row id to Celery.    *)
(* The tasks of one event loop interleave at their awaits only: the wait   *)
(* for a connection of the engine's pool, the insert, the COMMIT and the   *)
(* close of the session.  The publish is synchronous.                      *)
(*                                                                         *)
(* Messages are natural keys (source_id, telegram_message_id).  Telegram   *)
(* may deliver the same message again; each delivery builds a row with an  *)
(* id of its own, so a row is a pair <<message, number of the delivery>>.  *)
(***************************************************************************)
EXTENDS Naturals, FiniteSets

CONSTANTS Messages,       \* every message Telegram may deliver
          Routed,         \* those whose chat_id is a key of source_by_chat_id
          Handlers,       \* tasks that may run handle_message at one time
          Workers,        \* slots of the Celery worker
          PoolSize,       \* connections of the engine (shared/db/session.py)
          WorkerQueues,   \* the queues the worker consumes (WORKER_QUEUES, which
                          \* entrypoint.sh defaults to default, llm and enrich)
          MaxDeliveries,  \* bound: deliveries of one message
          Repeated,       \* bound: the messages delivered more than once
          MaxFaults,      \* bound: crashes, failed calls and lost tasks
          MaxStops        \* bound: graceful stops of the listener

ASSUME PipelineAssumption ==
    /\ Repeated \subseteq Routed /\ Routed \subseteq Messages
    /\ PoolSize \in Nat \ {0}
    /\ MaxDeliveries \in Nat /\ MaxFaults \in Nat /\ MaxStops \in Nat

VARIABLES listener,    \* "up", "stopping" (client.disconnect() called) or "down"
          deliveries,  \* how often Telegram delivered each message
          pc, row,     \* the stage of each handler task, and the row it builds
          rows,        \* committed rows of raw_messages (all of them 'pending')
          published,   \* row ids ever accepted by the broker
          ready,       \* row ids waiting in the queue of the filter task
          unacked,     \* row ids handed to a worker and not acknowledged
          worker,      \* the row id each worker slot runs, or NoRow
          attempted,   \* row ids whose task ran to its end
          evicted,     \* row ids the broker lost
          refused,     \* history: messages whose task got no connection in time
          faults, stops

vars == <<listener, deliveries, pc, row, rows, published, ready, unacked,
          worker, attempted, evicted, refused, faults, stops>>

taskVars   == <<pc, row>>
dbVars     == <<rows, refused>>
brokerVars == <<published, ready, unacked, evicted>>
workerVars == <<worker, attempted>>

Row   == Messages \X (1..MaxDeliveries)
NoRow == <<>>

\* task_routes of celery_app.py sends worker.tasks.filter_keywords.* here.
FilterQueue == "filter"

Idle(h) == pc[h] = "idle"

\* Stages of handle_message at which the task is suspended in an await.
Awaiting == {"checkout", "insert", "commit", "close"}

\* A task takes its connection with the first statement and gives it back in
\* __aexit__, also while its INSERT waits for the key of another task.
Connected == {h \in Handlers : pc[h] \in {"insert", "commit", "close"}}

Key(h)    == row[h][1]
RowsOf(m) == {r \in rows : r[1] = m}

\* Mutant: without the unique constraint on the natural key nothing waits.
NothingLocked(m) == FALSE

\* The unique constraint on the natural key makes a second INSERT wait for
\* the transaction that holds the key.
KeyLocked(m) == \E h \in Handlers : pc[h] = "commit" /\ Key(h) = m

Init ==
    /\ listener = "up"
    /\ deliveries = [m \in Messages |-> 0]
    /\ pc = [h \in Handlers |-> "idle"]
    /\ row = [h \in Handlers |-> NoRow]
    /\ rows = {} /\ published = {} /\ ready = {} /\ unacked = {}
    /\ worker = [w \in Workers |-> NoRow]
    /\ attempted = {} /\ evicted = {} /\ refused = {}
    /\ faults = 0 /\ stops = 0

Goto(h, stage) == pc' = [pc EXCEPT ![h] = stage] /\ UNCHANGED row
Finish(h) == pc' = [pc EXCEPT ![h] = "idle"] /\ row' = [row EXCEPT ![h] = NoRow]
Fault     == faults < MaxFaults /\ faults' = faults + 1

-----------------------------------------------------------------------------
(* handle_message *)

\* Which of the idle slots a new task gets makes no difference.
FirstIdle == CHOOSE h \in Handlers : Idle(h)

\* A message of a chat that is a key of the map: the row is built without an
\* await and added to a new session.
Deliver(h, m) ==
    /\ listener = "up" /\ Idle(h) /\ h = FirstIdle
    /\ m \in Routed /\ deliveries[m] < MaxDeliveries
    /\ m \in Repeated \/ deliveries[m] = 0
    /\ deliveries' = [deliveries EXCEPT ![m] = @ + 1]
    /\ pc' = [pc EXCEPT ![h] = "checkout"]
    /\ row' = [row EXCEPT ![h] = <<m, deliveries[m] + 1>>]
    /\ UNCHANGED <<listener, faults, stops, dbVars, brokerVars, workerVars>>

\* source_by_chat_id.get() finds nothing: logged and dropped.
DeliverUnknown(m) ==
    /\ listener = "up" /\ m \in Messages \ Routed
    /\ UNCHANGED vars

\* Mutant: a task that finds the pool empty gives up without a word.
GiveUpAtOnce(h) ==
    /\ pc[h] = "checkout"
    /\ IF Cardinality(Connected) < PoolSize THEN Goto(h, "insert") ELSE Finish(h)
    /\ UNCHANGED <<listener, deliveries, faults, stops, dbVars, brokerVars, workerVars>>

Connect(h) ==
    /\ pc[h] = "checkout" /\ Cardinality(Connected) < PoolSize
    /\ Goto(h, "insert")
    /\ UNCHANGED <<listener, deliveries, faults, stops, dbVars, brokerVars, workerVars>>

\* No connection comes back within the pool's timeout: the TimeoutError is
\* logged and swallowed like any other, and the message is dropped.
PoolTimeout(h) ==
    /\ pc[h] = "checkout" /\ Cardinality(Connected) >= PoolSize
    /\ refused' = refused \cup {Key(h)}
    /\ Finish(h)
    /\ UNCHANGED <<listener, deliveries, faults, stops, rows, brokerVars, workerVars>>

\* Mutant: after a conflict the task tries its insert again.
RetryConflict(h) ==
    /\ pc[h] = "insert"
    /\ ~KeyLocked(Key(h))
    /\ Goto(h, IF RowsOf(Key(h)) = {} THEN "commit" ELSE "insert")
    /\ UNCHANGED <<listener, deliveries, faults, stops, dbVars, brokerVars, workerVars>>

\* The flush of s.commit(): the INSERT takes the key, or finds it taken by a
\* committed row; then the IntegrityError is logged and swallowed.
InsertRow(h) ==
    /\ pc[h] = "insert"
    /\ ~KeyLocked(Key(h))
    /\ \/ RowsOf(Key(h)) = {} /\ Goto(h, "commit")
       \/ RowsOf(Key(h)) # {} /\ Finish(h)
    /\ UNCHANGED <<listener, deliveries, faults, stops, dbVars, brokerVars, workerVars>>

\* Mutant: publish inside the session's block, before the commit.
PublishFirst(h) ==
    /\ pc[h] = "commit"
    /\ published' = published \cup {row[h]}
    /\ ready' = ready \cup {row[h]}
    /\ Goto(h, "commit")
    /\ UNCHANGED <<listener, deliveries, faults, stops, unacked, evicted, dbVars, workerVars>>

\* Mutant: the task returns right after the commit.
CommitAndReturn(h) ==
    /\ pc[h] = "commit"
    /\ rows' = rows \cup {row[h]}
    /\ Finish(h)
    /\ UNCHANGED <<refused, listener, deliveries, faults, stops, brokerVars, workerVars>>

CommitRow(h) ==
    /\ pc[h] = "commit"
    /\ rows' = rows \cup {row[h]}
    /\ Goto(h, "close")
    /\ UNCHANGED <<refused, listener, deliveries, faults, stops, brokerVars, workerVars>>

\* The database raises in the checkout, the flush or the COMMIT: logged and swallowed.
\* After a connection lost during COMMIT the row may be there all the same.
DatabaseFails(h) ==
    /\ pc[h] \in {"checkout", "insert", "commit"}
    /\ Fault
    /\ \/ rows' = rows
       \/ pc[h] = "commit" /\ rows' = rows \cup {row[h]}
    /\ Finish(h)
    /\ UNCHANGED <<refused, listener, deliveries, stops, brokerVars, workerVars>>

\* __aexit__ of the session returns; msg.id stays readable (expire_on_commit
\* is False).
CloseSession(h) ==
    /\ pc[h] = "close"
    /\ Goto(h, "enqueue")
    /\ UNCHANGED <<listener, deliveries, faults, stops, dbVars, brokerVars, workerVars>>

\* The task message of row r is in Redis.  A transport that sends it again
\* after a lost reply puts the same row id there twice, which the set hides.
Publish(r) ==
    /\ published' = published \cup {r}
    /\ ready' = ready \cup {r}
    /\ UNCHANGED <<unacked, evicted>>

\* filter_message.delay(str(msg.id)), after the session's block.
Enqueue(h) ==
    /\ pc[h] = "enqueue"
    /\ Publish(row[h])
    /\ Finish(h)
    /\ UNCHANGED <<listener, deliveries, faults, stops, dbVars, workerVars>>

\* Mutant: the row is deleted again when it cannot be published.
DeleteUnpublished(h) ==
    /\ pc[h] = "enqueue"
    /\ Fault
    /\ rows' = rows \ {row[h]}
    /\ Finish(h)
    /\ UNCHANGED <<refused, listener, deliveries, stops, brokerVars, workerVars>>

\* delay() raises (Redis down, or the reply to the push lost): logged, the row
\* stays 'pending', and the task is in Redis already or never will be.
EnqueueFails(h) ==
    /\ pc[h] = "enqueue"
    /\ Fault
    /\ Publish(row[h]) \/ UNCHANGED brokerVars
    /\ Finish(h)
    /\ UNCHANGED <<listener, deliveries, stops, dbVars, workerVars>>

-----------------------------------------------------------------------------
(* The listener process around the handlers *)

\* SIGTERM: client.disconnect(); no update is dispatched any more.
Stop ==
    /\ listener = "up" /\ stops < MaxStops
    /\ listener' = "stopping" /\ stops' = stops + 1
    /\ UNCHANGED <<deliveries, taskVars, faults, dbVars, brokerVars, workerVars>>

\* The stopping client, or asyncio.run() at its end, cancels a task at its
\* await.  CancelledError is no Exception: nothing in handle_message catches
\* it.  A cancelled COMMIT may have reached the server.
Cancel(h) ==
    /\ listener = "stopping" /\ pc[h] \in Awaiting
    /\ \/ rows' = rows
       \/ pc[h] = "commit" /\ rows' = rows \cup {row[h]}
    /\ Finish(h)
    /\ UNCHANGED <<refused, listener, deliveries, faults, stops, brokerVars, workerVars>>

StopDone ==
    /\ listener = "stopping"
    /\ \A h \in Handlers : Idle(h)
    /\ listener' = "down"
    /\ UNCHANGED <<deliveries, taskVars, faults, stops, dbVars, brokerVars, workerVars>>

\* SIGKILL or a fatal error.  Transactions roll back, but a COMMIT on its way
\* may have been carried out.
Crash ==
    /\ listener # "down" /\ Fault
    /\ \E S \in SUBSET {h \in Handlers : pc[h] = "commit"} :
          rows' = rows \cup {row[h] : h \in S}
    /\ pc' = [h \in Handlers |-> "idle"] /\ row' = [h \in Handlers |-> NoRow]
    /\ listener' = "down"
    /\ UNCHANGED <<refused, deliveries, stops, brokerVars, workerVars>>

\* restart: unless-stopped, or the next deploy.  Nothing is caught up.
Restart ==
    /\ listener = "down"
    /\ listener' = "up"
    /\ UNCHANGED <<deliveries, taskVars, faults, stops, dbVars, brokerVars, workerVars>>

-----------------------------------------------------------------------------
(* The broker and the worker *)

Fetch(w, r) ==
    /\ FilterQueue \in WorkerQueues
    /\ worker[w] = NoRow /\ r \in ready
    /\ ready' = ready \ {r} /\ unacked' = unacked \cup {r}
    /\ worker' = [worker EXCEPT ![w] = r]
    /\ UNCHANGED <<listener, deliveries, taskVars, published, attempted, evicted,
                   faults, stops, dbVars>>

\* Mutant: a slot without a task reports one.
FilterNothing(w) ==
    /\ attempted' = attempted \cup {worker[w]}
    /\ unacked' = unacked \ {worker[w]}
    /\ worker' = [worker EXCEPT ![w] = NoRow]
    /\ UNCHANGED <<listener, deliveries, taskVars, published, ready, evicted,
                   faults, stops, dbVars>>

\* filter_message raises NotImplementedError; with task_acks_late a task that
\* failed is acknowledged like one that succeeded.
FilterMessage(w) ==
    /\ worker[w] # NoRow
    /\ attempted' = attempted \cup {worker[w]}
    /\ unacked' = unacked \ {worker[w]}
    /\ worker' = [worker EXCEPT ![w] = NoRow]
    /\ UNCHANGED <<listener, deliveries, taskVars, published, ready, evicted,
                   faults, stops, dbVars>>

\* Mutant: without task_acks_late a lost task was acknowledged already.
DroppedWithWorker(w) ==
    /\ worker[w] # NoRow /\ Fault
    /\ unacked' = unacked \ {worker[w]}
    /\ worker' = [worker EXCEPT ![w] = NoRow]
    /\ UNCHANGED <<listener, deliveries, taskVars, published, ready, attempted,
                   evicted, stops, dbVars>>

\* A pool process is killed: task_reject_on_worker_lost puts its task back.
\* When the whole worker dies the task stays unacknowledged.
WorkerLost(w) ==
    /\ worker[w] # NoRow /\ Fault
    /\ \/ /\ ready' = ready \cup (unacked \cap {worker[w]})
          /\ unacked' = unacked \ {worker[w]}
       \/ UNCHANGED <<ready, unacked>>
    /\ worker' = [worker EXCEPT ![w] = NoRow]
    /\ UNCHANGED <<listener, deliveries, taskVars, published, attempted, evicted,
                   stops, dbVars>>

\* The visibility timeout of the Redis transport: an unacknowledged task goes
\* back to the queue, even while a slow worker still runs it (a fault here).
Redeliver(r) ==
    /\ r \in unacked
    /\ \/ (\E w \in Workers : worker[w] = r) /\ Fault
       \/ (\A w \in Workers : worker[w] # r) /\ UNCHANGED faults
    /\ ready' = ready \cup {r} /\ unacked' = unacked \ {r}
    /\ UNCHANGED <<listener, deliveries, taskVars, published, evicted, stops,
                   dbVars, workerVars>>

\* Redis runs with allkeys-lru: the list that is the queue can be evicted.
EvictQueue ==
    /\ ready # {} /\ Fault
    /\ evicted' = evicted \cup ready
    /\ ready' = {}
    /\ UNCHANGED <<listener, deliveries, taskVars, published, unacked, stops,
                   dbVars, workerVars>>

\* Telegram is silent and all work is done: the one state in which the system
\* may rest (so that TLC's deadlock check finds every other one).
Rest ==
    /\ listener = "up" /\ unacked = {}
    /\ \A h \in Handlers : Idle(h)
    /\ \A w \in Workers : worker[w] = NoRow
    /\ ready = {} \/ FilterQueue \notin WorkerQueues
    /\ UNCHANGED vars
-----------------------------------------------------------------------------
HandlerStep(h) ==
    \/ Connect(h) \/ PoolTimeout(h)
    \/ InsertRow(h) \/ CommitRow(h) \/ CloseSession(h) \/ Enqueue(h)
HandlerFault(h) == DatabaseFails(h) \/ EnqueueFails(h) \/ Cancel(h)
WorkerStep(w) == FilterMessage(w) \/ \E r \in ready : Fetch(w, r)

Next ==
    \/ \E h \in Handlers : HandlerStep(h) \/ HandlerFault(h)
    \/ \E h \in Handlers, m \in Messages : Deliver(h, m)
    \/ \E m \in Messages : DeliverUnknown(m)
    \/ Stop \/ StopDone \/ Crash \/ Restart
    \/ \E w \in Workers : WorkerStep(w) \/ WorkerLost(w)
    \/ \E r \in unacked : Redeliver(r)
    \/ EvictQueue
    \/ Rest

Spec == Init /\ [][Next]_vars

\* An event loop runs every task that can run, the supervisor restarts the
\* listener, and a worker slot keeps consuming its queues.
Fairness ==
    /\ \A h \in Handlers : WF_vars(HandlerStep(h))
    /\ WF_vars(StopDone) /\ WF_vars(Restart)
    /\ \A w \in Workers : WF_vars(WorkerStep(w))
    /\ WF_vars(\E r \in unacked : Redeliver(r))

FairSpec == Spec /\ Fairness

-----------------------------------------------------------------------------
(* Properties *)

TypeOK ==
    /\ listener \in {"up", "stopping", "down"}
    /\ deliveries \in [Messages -> 0..MaxDeliveries]
    /\ pc \in [Handlers -> Awaiting \cup {"idle", "enqueue"}]
    /\ row \in [Handlers -> Row \cup {NoRow}]
    /\ rows \subseteq Row
    /\ published \subseteq Row /\ ready \subseteq Row /\ unacked \subseteq Row
    /\ worker \in [Workers -> Row \cup {NoRow}]
    /\ attempted \subseteq Row /\ evicted \subseteq Row
    /\ refused \subseteq Messages
    /\ faults \in 0..MaxFaults /\ stops \in 0..MaxStops

\* Deliveries of the same message that race through their inserts leave one
\* row (uq_raw_messages_source_id_telegram_message_id).
UniqueRows == \A r, q \in rows : r[1] = q[1] => r = q

\* What the runbook calls the invariant of ADR 0006: nothing is in Redis, or
\* in a worker, whose row was not committed before.
EnqueuedIsDurable ==
    /\ published \subseteq rows
    /\ ready \cup unacked \cup attempted \cup evicted \subseteq published
    /\ \A w \in Workers : worker[w] # NoRow => worker[w] \in published

\* Without a fault or a stop, a row that was not published is still in the
\* hands of the task that committed it: the two writes of handle_message are
\* never separated silently.
OrphanNeedsFault ==
    faults = 0 /\ stops = 0 =>
        \A r \in rows \ published :
            \E h \in Handlers : pc[h] \in {"close", "enqueue"} /\ row[h] = r

\* A message of a known chat that was delivered is in the hands of a task or on
\* its way to the filter; only a fault, a stop or a pool that stayed empty can
\* lose it, and a second delivery that ends in a conflict never does.
LossNeedsReason ==
    faults = 0 /\ stops = 0 =>
        \A m \in Routed \ refused : deliveries[m] > 0 =>
            \/ \E r \in published : r[1] = m
            \/ \E h \in Handlers : ~Idle(h) /\ Key(h) = m

\* A task the broker accepted is waiting, unacknowledged or done, whatever
\* happens to the workers; only an eviction by Redis itself loses it.
TaskSurvivesWorker ==
    published \subseteq ready \cup unacked \cup attempted \cup evicted

\* handle_message implements the ledger: one row per message, announced under
\* its own id after it was committed, over redeliveries, stops and crashes.
Ledger == INSTANCE MessageLedger WITH
              stored    <- {r[1] : r \in rows},
              announced <- {r[1] : r \in published}
ImplementsLedger == Ledger!Spec

\* A handler never hangs: the insert that waits for a key is released when
\* the transaction holding it ends, whichever way that is.
HandlersDrain == \A h \in Handlers : ~Idle(h) ~> Idle(h)

\* filter_keywords.py: the task "consumes a raw_messages.id from the filter
\* queue"; every one the broker accepted is run by a worker or lost by Redis.
\* It takes a WorkerQueues with "filter", which no file of the repository sets.
PublishedIsFiltered == \A r \in Row : r \in published ~> r \in attempted \cup evicted

\* BR-084: after a graceful stop and with no fault at all, every message of a
\* known chat that the listener received is in raw_messages.
GracefulStopLosesNothing ==
    faults = 0 =>
        \A m \in Routed : deliveries[m] > 0 =>
            \/ RowsOf(m) # {}
            \/ \E h \in Handlers : ~Idle(h) /\ Key(h) = m
=============================================================================
