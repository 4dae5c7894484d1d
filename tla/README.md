# Formal model of the Telegram lead aggregator

TLA+ modules, TLC configurations and TLAPS proofs for the parts of this
repository that run today: the ingestion of Telegram messages, the Telethon
session, the listener process, the registry of sources, the seed loader, the
database migrations and the deploy script. Paths are relative to the repository.

## 1. Inventory

| Part | State | Operations | Hard behaviour |
| --- | --- | --- | --- |
| `backend/src/listener/processing.py` (handler) | one asyncio task per update, `raw_messages` | insert, commit, close, publish | two writes without a transaction; duplicate deliveries; cancellation at an await |
| `backend/src/worker` (Celery on Redis) | queues, unacknowledged tasks | fetch, run, acknowledge, redeliver | late acks, lost workers, eviction, an unconsumed queue |
| `backend/src/shared/telegram/session_manager.py` | client, writer task, session file, alive marker | `connect`, `disconnect`, the 30 s writer loop, `session_alive` | non-atomic file write, silent death of the writer, stale marker |
| `backend/src/shared/telegram/bootstrap.py` | the same session file | interactive login, write | another process writes the file |
| `backend/src/listener/main.py` (`run`) | event loop, signal handlers, stop event | connect, reconcile, serve, stop | SIGTERM at any time, timeouts against docker's grace period |
| `_reconcile_sources`, `handle_telegram_exception` | `telegram_sources`, `source_by_chat_id` | resolve, deactivate, skip | stale snapshot, renamed chats, flood waits, unique index |
| `backend/src/shared/telegram/errors.py` (retry) | attempt counter | `retry_telethon`, `with_telethon_retries` | boundaries, generator semantics |
| `backend/src/shared/db/seed.py` | `telegram_sources`, `keyword_triggers` | `seed_sources`, `seed_triggers` | overlapping runs, partial failure, lock order |
| `infra/scripts/deploy.sh`, `infra/compose` | containers, schema, last-good tag | pull, migrate, roll out, smoke test, roll back | every command may fail, the script may be killed, dependencies between services |
| `backend/migrations` | the tables, the stamped revision, table locks | `upgrade head`, `downgrade -1`, `downgrade base` | commands at the same time without a lock of their own; running programs; a row between a check and the DDL; a death in the middle |
| API, bot, LLM client, scoring, classification and enrichment tasks, prompt registry | none yet | stubs | - |
| `rotate-session.sh`, `backup-db.sh`, observability, frontend | none of interest | I/O | - |

How they meet: the listener process owns a session manager and starts handler
tasks. They share `telegram_sources` (through a map built once at start) with the
seed loader, which rewrites the table behind the listener's back. Handlers and
workers share the broker and `raw_messages`. The session file is shared by the
manager and the bootstrap CLI; the alive marker by the manager and the
healthcheck. The deploy script starts and stops all of it and runs the
migrations, which meet the handlers, the reconciliation and the seed in the locks
of the tables.

What makes each part correct, in a sentence:

* ingestion: one row per message, announced only after it was committed (how many
  copies of the announcement reach the broker is not counted);
* session: what is on disk never goes back to older data of its login, it is torn
  only after a fault, the marker never lies. A re-login beside a listener that is up
  is the exception: it is undone;
* listener: it ends when it is deaf, and an orderly stop saves the session;
* registry: a route says what the table says, a `chat_id` is never rewritten,
  one bad source does not stop the others, unless its chat is another row's or
  Telegram answers for it what the dispatcher re-raises;
* seed: idempotent, all or nothing, and two runs never block each other for good;
* migrations: the tables are those of the stamped revision, a command is applied
  as a whole or not at all, and an upgrade disturbs nobody;
* deploy: the code of an image never runs on an older schema, only versions that
  served are recorded, success is uniform, and a rollback that completes has put the
  previous image everywhere.

## 2. Modules

| Module | Models | Properties |
| --- | --- | --- |
| `MessageLedger` | what ADR 0006 promises: `stored`, `announced` | abstract specification |
| `MessagePipeline` | `handle_message`, the stop of the loop, broker and worker | safety, liveness, `ImplementsLedger` |
| `MessagePipelineProofs` | | seven theorems, the refinement among them |
| `SessionManager` | the manager, the file, the bootstrap CLI | safety, `OnlyReloginIsUndone`, `WriterPersists` |
| `SessionManagerProofs` | | six theorems |
| `Listener` | `run()` over `SM == INSTANCE SessionManager`, docker stop | `OrderlyStopSaves`, `DeafListenerEnds` |
| `ListenerProofs` | | two theorems: what the manager promises holds in the process, and the stop |
| `SourceRegistry` | reconciliation, error dispatcher, seed runs, renames | `RouteSound`, `ResolvedIsServed`, `ChatIdWriteOnce`, `ComesUpUnlessBlocked` |
| `SourceRegistryProofs` | | three theorems |
| `Attribution` | `SourceRegistry` with the lookup of the handlers | `ResolvedIsHeard` |
| `AttributionProofs` | extends `SourceRegistryProofs` | one theorem |
| `Migrations` | Alembic commands and the users of the tables, as transactions over table locks | atomic, serialized, no lost constraint, harmless upgrades, termination |
| `MigrationsProofs` | | five theorems |
| `Seed` | the loader, statement by statement | idempotence, atomicity, no deadlock |
| `SeedProofs` | | four theorems |
| `Deploy` | `deploy.sh`, the compose dependencies and both overrides | schema order, rollback, termination |
| `DeployProofs` | | five theorems |
| `MC*` | values of the constants for TLC | |

A definition whose comment starts with "Mutant:" is not part of a
specification. It is the form the next definition would have with a plausible
bug, kept to show that the properties notice it. Two modules state their type
invariant themselves and their runs check it; of the others the proof modules state
it (`TypeOK`), as the part of the inductive invariant on which the rest relies.

### MessagePipeline

A handler's `pc` is the await at which the task is suspended: `checkout` (the wait for
one of the `PoolSize` connections of the engine), `insert` (the flush inside
`commit()`), `commit`, `close` (`__aexit__` of the session), and `enqueue`, the
synchronous `delay()`. An insert waits while another transaction holds the natural key
(`KeyLocked`) and ends the task when a committed row has it. A task that waits for a key
keeps its connection, so a burst of deliveries can empty the pool; `PoolTimeout` is the
exception a task gets that finds none in time, and `refused` remembers its message.
`DatabaseFails` and `EnqueueFails` are the two `except Exception` clauses; `Cancel` is a
`CancelledError`, which neither of them catches. A COMMIT that is interrupted may or may
not have been carried out, and a `delay()` that raises may or may not have put its task
into Redis (`EnqueueFails`). `published` is the set of the rows whose task reached the
broker: a copy of a task that is there already does not show. A row is identified by its
message and the number of the delivery that built it, so two rows of one message can be
told apart. The worker side models `task_acks_late`, `task_reject_on_worker_lost` and
the visibility timeout; `FilterQueue` is the route of `celery_app.py`, `WorkerQueues`
the `WORKER_QUEUES` of `entrypoint.sh`. Its default, which no file of the repository
overrides, has no `filter`; `Pipeline_run` takes it with `filter`, because only then
does anything happen on the worker side, and what can happen under the default is a part
of that. `Pipeline_queues` takes the default. The task itself is a stub that raises, so
its end is all that is modelled.

### SessionManager and Listener

`stage` is the position in `connect()` or `disconnect()`. A file write is two
steps, truncate and fill, because a SIGKILL can come in between; other coroutines
of the process cannot, so nothing else of the process happens while
`stage \in Writing`. `saved` is a history variable: the last session written
completely. `boot` is the CLI in its own container. Nothing
asks whether a listener is up when it runs, and the documented order is just that one:
run the CLI, or copy a new file in, and then `restart backend-listener` (the docstring of
`bootstrap.py`, `docker-compose.yml:92-106`, `docs/runbook/telethon-ban.md:64-83`). The
old process then still holds its own session, and its next periodic save, or the final
save of the restart, puts that over the new one. `overtaken` remembers that the CLI wrote
since the process read the file; `OnlyReloginIsUndone` says that this is the one way in
which a session on disk goes back, and that even then no older data of the same login
comes back. Without the disjunct of `overtaken` TLC shows the re-login that is undone.

`Listener` instantiates `SessionManager` and adds `phase`, the position in
`run()`. Each step of it that uses the manager is a conjunction with an action
of the manager. That makes the composition a behaviour of `SM!Spec` by its shape, which
says nothing about `main.py` and is no property of its own: it is the lemma
(`StepUsesManager`) by which what is proved of the manager holds in the listener. Time
is counted in seconds from the SIGTERM, and only while `run()` waits for Telethon.

### SourceRegistry

`snapshot` and `seen` are what the one SELECT returned; `chat`, `active` and
`exists` is the table, which seed runs change meanwhile. `entity` is Telegram's
mapping of usernames, which also moves. `reply` is what `get_entity` returned or
raised: the entity, a dead name, a private chat (`Private`), an exception that is none
of those the dispatcher knows (`Odd`, `Unknown`), or a flood wait. A chat is named by its
`get_entity().id`. Two things keep the listener from serving for as long as they last,
because every start meets them again: a username that leads to the chat of another row
(`NameConflict`; the UPDATE is outside the `try`), and an answer the dispatcher re-raises
(`UnknownError`, `Reraise`; `errors.py:193-197`). Errors that come and go are `GoDown`.

`Attribution` adds the lookup of the handlers, and no variable: a handler looks
`event.chat_id` up in the map. `EventChatId` is Telethon's second notation of a peer: the
marked id, which for a channel or group is another number than the bare id of the
entity. (Telethon's `NewMessage(chats=...)` accepts bare ids and lets the events
pass; the dictionary does not.) The CHECK on `source_type` admits channels, groups and
supergroups only; for those the lookup never hits. Only a source whose username leads to
a user, against its declared type, is heard.

### Migrations

A transaction is a list of statements, and a statement is a table, a lock mode, the
shapes of the table it works on and the shape it leaves. `Program` is the list of a
command, from the revision it finds when it starts. `Execute` waits for the locks of others
(`Blockers`), `Raise` rolls the whole command back, `Commit` publishes it;
`DeadlockDetected` is PostgreSQL's detector, `Crash` a lost connection. The revision in
`alembic_version` is treated as the shape of that table: Alembic updates it with a
`WHERE` and raises when no row matches, which serializes commands as well as a lock would.
`seed`, `handler` and `reconcile` are transactions of the other programs.

### Seed

A source row carries the run that inserted it, so duplicates are visible. SELECT,
INSERT/UPDATE and each upsert are steps; locks are held until the end of the
transaction. Executions may overlap; `overlapped` remembers that two did, and
`OneRowPerName` and `RerunInsertsNothing` are about executions one after the other.

### Deploy

`step` is the position in the script. `up -d` first runs the `migrate` service
(`UpMigrate`), on which every backend service depends, then recreates the four
services in any order, except that the bot waits for a healthy api. `ErrTrap` is
`rollback()`; `die` does not go through it. `outcome` tells the two apart, and
says `"stuck"` of a rollback that did not get to its end (its `|| true` hides
this).

`env` is the override the script runs under, and does not change:

* `"dev"` mounts `backend/src` of the checkout over `/app/src` of the four services, and
  binds the api's port on the host. `running` is the tag of a container's image, `code`
  what its process has loaded; they differ when the checkout is not the image's commit,
  which the workflow moves before it starts the script (`MoveCheckout`). `migrate` has no
  mount and uses its image. `mixed` remembers that a run deployed an image over the
  source of another version.
* `"prod"`, as the workflow runs it: no mount, no port on the host and no `HEALTH_URL`.
  The smoke test never passes there, so no tag is ever recorded and no rollback has
  anything to go back to.
* `"prodUrl"` is prod with a `HEALTH_URL` in the environment of the script, which
  `deploy.sh` reads and no file sets.

So what is promised of the code that runs is promised with the mount named as its
exception: `SchemaNotBehindCode` exempts a service whose mounted code is not its image's,
and `RollbackRestores` promises dev the previous image, not the previous version. The
echo that records the tag truncates the file first: a failed or killed write leaves the
old tag, the new one, or an empty file.

## 3. Runs

Passing runs:

| Run | Bounds | Shows |
| --- | --- | --- |
| `Pipeline_run` | 3 messages (1 of an unknown chat, 1 delivered twice), 3 handlers, 2 connections, 2 worker slots, 2 faults, 1 stop | unique rows, commit before publish, orphans and losses need a reason, tasks survive workers, refinement of the ledger, handlers end |
| `Session_manager` | 2 logins, 2 versions, 2 kills, 2 I/O errors | honest marker, torn file needs a fault, only a re-login beside the process is undone, the writer persists unless it died, `disconnect()` saves before it closes |
| `Listener_run` | 2 logins, 2 versions, hangup up to 12 s, timeout 8 s, grace 10 s, 1 kill, 1 I/O error | an orderly stop saves, a deaf listener ends |
| `Registry_reconcile` | 2 named sources, 1 anonymous, 4 chats (1 private, 1 with an error of its own), 2 faults, 2 moves of a username | sound routes, every resolved source routed, write-once ids, the listener comes up unless two rows lead to one chat or an answer is re-raised |
| `Seed_runs` | 2 sources, 2 triggers, 3 executions in any overlap | idempotence, all or nothing, no deadlock |
| `Migrations_run` | 3 transactions of any of 6 kinds, at once or in sequence, from any revision, 1 lost connection | tables and stamp agree, no NULL gets past the downgrade, upgrades disturb no writer, commands serialize and end |
| `Deploy_script` | 3 versions (2 schemas, 1 that never gets healthy), 3 services, dev over any checkout, prod, prod with a URL, 2 faults | schema order, good tags, uniform success, good deploys succeed, rollback to the previous image, termination |

The bounds are the smallest that contain the cases the properties are about: one handler
at the commit, one that waits for its key and one, with another message, that finds no
connection (two connections stand for the engine's fifteen); three transactions, so that
two commands meet a writer; two faults, so that a fault can hit the recovery from
another; a hangup on either side of the timeout and of the grace period; two moves of a
username, so that one can come back; three executions of the loader, so that one can
fail between two others; three versions, so that there is one to come from, one to go to
and a broken one; three services, because the listener is rolled out exactly as the
worker is. Symmetry reduction is not used: most of these runs check liveness.

Runs that end in a counterexample. Each compares the code with a sentence of its
documentation, and each is a disagreement:

| Run | Disagreement |
| --- | --- |
| `Pipeline_gracefulstop` | a graceful stop drops a message whose insert it cancels (BR-084) |
| `Pipeline_queues` | the worker's default queues lack `filter`, so that a published task is never run |
| `Listener_slowhangup` | the 8 s timeout does not bound the stop |
| `Registry_marked` | the map is keyed with bare ids and asked with marked ones: a message of a resolved channel is dropped as unknown |
| `Deploy_smoke` | `die` does not trigger the rollback |

Other disagreements the modelling met, which have no run of their own:

* a re-login by the documented procedure is undone: the listener that was up saves its
  own session over the new file (`OnlyReloginIsUndone` exempts it by name);
* two rows that lead to one chat crash every start with an `IntegrityError` at
  `main.py:115`; the comment on `main.py:82-85` wants only that "one dead seed cannot
  crash the whole listener", and this one is not dead (`StoreConflicts`;
  `ComesUpUnlessBlocked` exempts it by name);
* so does one source for which Telegram answers with an exception the dispatcher does
  not know (`Reraise`, exempted in the same way);
* in dev a failed migration, or a rollback, leaves containers with the code of the
  checkout: newer than the schema, and not the previous version that `deploy.sh:19`
  promises (the `Mounted` cases of `SchemaNotBehindCode` and `RollbackRestores`). The
  checkout is that of the head of the branch and may be newer than the image;
* a kill or a full disk at `deploy.sh:179` can leave `last-good-tag` empty, and the next
  run without a tag to go back to (`SmokePasses`, `ScriptKilled`);
* one `OSError` of `write_bytes` ends the periodic save for good
  (`WriterPersists` exempts a dead writer);
* a SIGTERM before `run()` has registered its handlers ends the process at once,
  without a save (`SigTermUnhandled`);
* a FloodWait in the reconciliation skips the source until the next restart,
  where the design says "retry" (`FloodSlept`);
* `disconnect()` re-raises what ended the writer task, and then neither saves nor
  closes nor removes the marker, although its docstring says that it does all three
  (`DisconnectRaises`; `DisconnectSaves` names this as the one way around);
* `infra/README.md`, `deploy.sh` and `docker-compose.yml` promise a
  `pg_advisory_lock` in `env.py`; there is none. Two deploys that meet are safe all
  the same, but the second upgrade fails with an error (`Raise`;
  `UpgradeFailsOnlyIfOvertaken` says that nothing else makes it fail);
* the downgrade of 0002 promises to raise "rather than crash midway with a NOT NULL
  violation"; a seed that commits after the count makes it crash midway. The
  transaction keeps this harmless (`Tighten`, `NullsOnlyWhereAllowed`);
* overlapping first runs of the seed loader insert duplicates, and later runs
  fail on them (`SelectAmbiguous`);
* the prod override binds no host port for the api, which the smoke test asks, and no
  file sets `HEALTH_URL`: every deploy of prod ends in `die`;
* a rollback over a migration fails, because `migrate` runs first with an image
  that does not know the revision, and `|| true` hides it (`UndoMigrate`);
* `--skip-migrations` does not skip them: `up -d` runs `migrate` as a dependency
  (`UpMigrate`);
* `with_telethon_retries` raises `RuntimeError` after its first delay: a
  generator-based context manager cannot run its block again.

## 4. Fairness

Only the system's own steps are fair, never the environment (Telegram, the
operator, faults).

* `MessagePipeline`: each handler task (an event loop runs what can run), the end
  of a stop and the restart (`restart: unless-stopped`), each worker slot, and the
  visibility timeout.
* `SessionManager`: the periodic save and the steps of `disconnect()` after its
  first. `Listener`: the steps of `run()` and the end of a write. Telethon's hang-up
  after a SIGTERM is not assumed to end; the `client.disconnect()` in `finally`, once the
  link is down or was lost, is.
* `Migrations`: every transaction goes on when no lock holds it, and the deadlock
  detector aborts one of a cycle.
* `SourceRegistry`: the reconciliation loop and the restart. `Seed`: a statement
  that is not blocked is carried out. `Deploy`: the script goes on.

Weak fairness is enough everywhere: an enabled step of these stays enabled until
it is taken or becomes pointless.

## 5. Proofs

Every safety property of a passing run is a theorem, for all values of the
constants that satisfy the `ASSUME` of its module: the sets may be of any size, the
bounds any natural numbers, and the special values differ from each other. No other
assumption is made. The invariants of a run are seldom inductive; what each module
adds to them, and why:

`MessagePipelineProofs`. That an insert finds no row says nothing about the
transactions that are open. So: a task at `commit` is alone with its key and no row
has that key (`KeyHeld`); a task between commit and publish owns a committed and
unpublished row (`Unpublished`); a busy task's row is a delivery it alone took, so
no later delivery can produce the same row (`BusyRow`, `OwnRow`). The refinement
(`LedgerRefinement`) maps `InsertRow` to a stutter, the commits (also those a crash
leaves behind) to `Store`, and a publish (`Enqueue`, and an `EnqueueFails` that reached
the broker) to `Announce`. `NoSilentOrphan` and
`NoSilentLoss` need that the loop is up as long as there was no fault and no stop
(`UpUntilStopped`); each step of a task then either keeps what it knows of its
message or leaves it in the table or in `refused` (`TaskLosesNothing`).

`SessionManagerProofs`. The invariant says in which stages a client is held, in which
a marker can exist, that a complete file is the last one saved, and that what the CLI is
about to write is a login newer than any saved or held (`BootFresh`). The actions that
complete a write carry the argument (`SavedIsLater`, `SaveInv`, `BootWrittenInv`). For
`TornNeedsFault` and `DisconnectSaves`, `EndInv` adds that a client is closed over the
file just saved unless it was overtaken, and that only an I/O error ends the writer.

`ListenerProofs`. Each action of `Listener` is one of the manager's or leaves it alone
(`StepUsesManager`), so the five safety properties proved of the manager hold in the
listener (`ListenerKeepsSession`). For `OrderlyStopSaves` the invariant ties the place in
`run()` to the stage of the manager (`StageByPhase`) and follows the session from the
SIGTERM on: it is in the client until the final save, and in the file after it
(`KeptSinceStop`), or the CLI has written a later one. A stop that ends before `Grace`
then ends in `Exit`, whose stage lies behind the save.

`SourceRegistryProofs`. Nobody but the reconciliation writes `chat_id`, so a row that
it has still to do is as it was in the SELECT, however long ago that was
(`StillAsRead`); with the unique index (`UniqueChats`), an entry of the map can
neither be overwritten nor contradict the table.

`AttributionProofs`. `OnlyChannelsUnheard` says how far the disagreement of
`Registry_marked` goes: once the listener serves, the events of a resolved source find it
(`Heard`), except those of channels and groups, none of which ever finds a source
(`ChannelsUnheard`).

`MigrationsProofs`. What a transaction has done and has still to do leads from the
revision it found to the one it wants (`OnPlan`); what it altered it holds
exclusively (`Locked`), so the committed shape of these tables is still the one it
found (`HeldUnchanged`), and its commit yields a revision. `SeedHolds` and `NullsGone`
do the same for the NULLs. `CommandsSerialize` follows because the last statement of
every revision alters `alembic_version`. A second invariant, `Order`, is about who waits
for whom: an upgrade takes `telegram_sources` first and `alembic_version` last, so that
it loses a deadlock or meets an unexpected shape only when another commit came first.

`SeedProofs`. While nothing has overlapped, one execution at most is active, it sees no
name twice, and what its SELECT did not find is still not there (`OneByOne`);
overlapping or not, what an execution has passed is in what it sees (`Passed`), which
gives `AllOrNothing`. `WaitsAreOrdered` is the safety half of `RunsEnd`: what an execution
has locked lies behind its position in the files (`LocksBehind`), so it waits only for one
that is further.

`DeployProofs`. Code that was not taken from a mount is that of its container's image,
and an image runs only once its migration has run (`Loaded`); after the migration the
schema is that of the tag on its way, and what is not in `todo` runs that tag
(`Recreated`). `lastGood` is written at one place, where an api that serves has the code
of the tag (`FreshApi`, `SmokeTestsTag`); and without a fault a good image is turned away
only by a newer schema (`TurnedAway`), which is `GoodDeploySucceeds`.

Only model-checked: the liveness properties `HandlersDrain`, `WriterPersists`,
`DeafListenerEnds`, `ComesUpUnlessBlocked`, `RunsEnd`, `CommandsEnd` and `DeployEnds`,
because fairness and ENABLED are out of the prover's reach; and the five disagreements
of section 3, which are counterexamples.

## 6. Abstractions, and what is not modelled

* Contents of messages, names, media: a message is its natural key.
* Encryption is a bijection between sessions and complete files.
* Durations, except for the stop of the listener.
* PostgreSQL: committed state, table, row and key locks, READ COMMITTED visibility.
  Who waits for a lock does not queue: any of those that wait may get it.
* A revision is a shape of its tables; columns, CHECK constraints and indexes other
  than that of `chat_id` are left out, and `lead_analysis` and `sender_profiles`
  are one table, as no program uses them. The CREATE of `alembic_version` itself is
  part of that of the first table.
* The retry helpers of `shared/telegram/errors.py` have no caller, so no behaviour of
  the system depends on them; they have no module.
* Not modelled, for lack of behaviour: the API, the bot, LLM and scoring stubs,
  the prompt registry, observability, the frontend, the session rotation stub and
  the backup script. `Deploy` sees migrations only as an upgrade to the head of an
  image.

## 7. Plan

Done: the modules above, in the order ingestion, session, listener, registry,
seed, deploy, migrations, attribution, and the proofs of their safety properties.

Next:

1. State `CommandsSerialize` and `VersionMatchesSchema` together as a refinement: an
   abstract history in which a command moves the revision in one step, implemented
   by `Migrations`.
2. The same for `Deploy`: a deploy as one step to a tag or back, which also gives the
   abstract specification of a deploy that is missing.
3. The safety halves of the other liveness properties, as `WaitsAreOrdered` is
   of `RunsEnd`: who may wait for whom in `MessagePipeline`
   (keys and connections) and in `Migrations` beside a downgrade.

Left to model: the re-enqueue procedure of `docs/runbook/redis-down.md` (by hand: no
code in the repository does it).
