--------------------------- MODULE SourceRegistry ---------------------------
(***************************************************************************)
(* The table telegram_sources and the map source_by_chat_id: what          *)
(* _reconcile_sources (listener/main.py), the dispatcher of Telethon's     *)
(* errors (shared/telegram/errors.py) and the seed loader                  *)
(* (shared/db/seed.py) do to them, while Telegram renames chats.           *)
(*                                                                         *)
(* A source is identified with the username of its row; the Anonymous ones *)
(* have none.  The snapshot is read once, each get_entity() and each write *)
(* is an await of its own, and other processes act in between.  A chat is  *)
(* named by its get_entity().id; Attribution adds how its events name it.  *)
(***************************************************************************)
EXTENDS Naturals

CONSTANTS Sources,    \* rows that may be in the table
          Anonymous,  \* those without a username (and without a chat_id)
          Yaml,       \* those seeds/sources.yaml lists, all of them active
          Chats,      \* chats of Telegram
          Private,    \* chats our account is not let into
          Odd,        \* chats get_entity() raises an error for, at every call,
                      \* that the dispatcher does not know
          MaxFaults,  \* bound: flood waits, errors, crashes and stops
          MaxMoves,   \* bound: usernames that move from a chat to another row's
          NoChat, NoSource, Dead, Refused, Flood, Unknown

ASSUME RegistryAssumption ==
    /\ Anonymous \subseteq Sources /\ Yaml \subseteq Sources \ Anonymous
    /\ Private \subseteq Chats /\ Odd \subseteq Chats
    /\ MaxFaults \in Nat /\ MaxMoves \in Nat
    /\ {NoChat, Dead, Refused, Flood, Unknown} \cap Chats = {} /\ NoSource \notin Sources
    /\ NoChat \notin {Dead, Refused, Flood, Unknown}
    /\ Dead \notin {Refused, Flood, Unknown} /\ Refused \notin {Flood, Unknown}
    /\ Flood # Unknown

VARIABLES exists, active, \* rows of the table, and those with is_active
          chat,           \* the chat_id column, NoChat for NULL
          entity,         \* Telegram: the chat a username leads to
          run,            \* "down", "reconciling" or "serving"
          seen, snapshot, \* the rows SELECTed, and their chat_id then
          todo,           \* those of them the loop has not come to
          cur, reply,     \* the source being resolved and Telegram's reply
          routes,         \* source_by_chat_id
          faults, moves

vars == <<exists, active, chat, entity, run, seen, snapshot, todo, cur, reply,
          routes, faults, moves>>

tableVars == <<exists, active, chat>>
loopVars  == <<seen, snapshot, todo, cur, reply, routes>>
envVars   == <<entity, moves>>

NoChats  == [i \in Sources |-> NoChat]
NoRoutes == [c \in Chats |-> NoSource]
Fault == faults < MaxFaults /\ faults' = faults + 1

\* No two usernames lead to the same chat.
Entities == {e \in [Sources -> Chats \cup {NoChat}] :
               /\ \A i \in Anonymous : e[i] = NoChat
               /\ \A i, j \in Sources : e[i] = e[j] /\ e[i] # NoChat => i = j}

Init ==
    /\ exists = Anonymous /\ active = Anonymous /\ chat = NoChats
    /\ entity \in Entities
    /\ run = "down" /\ seen = {} /\ snapshot = NoChats /\ todo = {}
    /\ cur = NoSource /\ reply = NoChat /\ routes = NoRoutes
    /\ faults = 0 /\ moves = 0

-----------------------------------------------------------------------------
(* _reconcile_sources *)

\* The SELECT of the active rows.
Snapshot ==
    /\ run = "down"
    /\ run' = "reconciling"
    /\ seen' = exists \cap active /\ todo' = exists \cap active
    /\ snapshot' = chat
    /\ routes' = NoRoutes /\ cur' = NoSource /\ reply' = NoChat
    /\ UNCHANGED <<tableVars, envVars, faults>>

AtRow(i) == run = "reconciling" /\ cur = NoSource /\ i \in todo

\* The row had a chat_id: no call.
Known(i) ==
    /\ AtRow(i) /\ snapshot[i] # NoChat
    /\ routes' = [routes EXCEPT ![snapshot[i]] = i]
    /\ todo' = todo \ {i}
    /\ UNCHANGED <<tableVars, envVars, run, seen, snapshot, cur, reply, faults>>

\* Neither chat_id nor username: logged and skipped.
SkipAnonymous(i) ==
    /\ AtRow(i) /\ snapshot[i] = NoChat /\ i \in Anonymous
    /\ todo' = todo \ {i}
    /\ UNCHANGED <<tableVars, envVars, run, seen, snapshot, cur, reply, routes, faults>>

\* What Telegram answers to get_entity(username): the entity, ValueError for a
\* name that leads nowhere, ChannelPrivateError or ChatAdminRequiredError, or an
\* exception that is none of these.
Answer(i) == CASE entity[i] = NoChat     -> Dead
               [] entity[i] \in Private -> Refused
               [] entity[i] \in Odd     -> Unknown
               [] OTHER                 -> entity[i]

\* Mutant: get_entity is called again for a row that has a chat_id.
AskAlways(i) ==
    /\ AtRow(i) /\ i \notin Anonymous
    /\ cur' = i /\ reply' = Answer(i) /\ UNCHANGED faults
    /\ UNCHANGED <<tableVars, envVars, run, seen, snapshot, todo, routes>>

\* await client.get_entity(username): the answer, or a FloodWait.
Ask(i) ==
    /\ AtRow(i) /\ snapshot[i] = NoChat /\ i \notin Anonymous
    /\ cur' = i
    /\ \/ reply' = Answer(i) /\ UNCHANGED faults
       \/ reply' = Flood /\ Fault
    /\ UNCHANGED <<tableVars, envVars, run, seen, snapshot, todo, routes>>

NextRow == cur' = NoSource /\ reply' = NoChat /\ todo' = todo \ {cur}

\* Mutant: no unique index on chat_id.
StoreChatAnyway ==
    /\ reply \in Chats
    /\ chat' = [chat EXCEPT ![cur] = reply]
    /\ routes' = [routes EXCEPT ![reply] = cur]
    /\ NextRow
    /\ UNCHANGED <<exists, active, envVars, run, seen, snapshot, faults>>

\* Mutant: the commit of the new chat_id is forgotten.
StoreRolledBack ==
    /\ reply \in Chats
    /\ routes' = [routes EXCEPT ![reply] = cur]
    /\ NextRow
    /\ UNCHANGED <<tableVars, envVars, run, seen, snapshot, faults>>

\* UPDATE ... SET chat_id, commit; then the source enters the map.
StoreChat ==
    /\ reply \in Chats
    /\ \A i \in Sources \ {cur} : chat[i] # reply
    /\ chat' = [chat EXCEPT ![cur] = reply]
    /\ routes' = [routes EXCEPT ![reply] = cur]
    /\ NextRow
    /\ UNCHANGED <<exists, active, envVars, run, seen, snapshot, faults>>

\* Another row has that chat_id (uq_telegram_sources_chat_id): nothing catches
\* the IntegrityError, and the process ends.
StoreConflicts ==
    /\ reply \in Chats
    /\ \E i \in Sources \ {cur} : chat[i] = reply
    /\ run' = "down"
    /\ cur' = NoSource /\ reply' = NoChat
    /\ UNCHANGED <<tableVars, envVars, seen, snapshot, todo, routes, faults>>

\* Mutant: the ValueError of a dead name is passed on.
DeadNameCrashes ==
    /\ reply \in {Dead, Refused}
    /\ active' = IF reply = Dead THEN active ELSE active \ {cur}
    /\ run' = IF reply = Dead THEN "down" ELSE run
    /\ NextRow
    /\ UNCHANGED <<exists, chat, envVars, seen, snapshot, routes, faults>>

\* A dead name, a private chat: this source is deactivated, the loop goes on.
Deactivate ==
    /\ reply \in {Dead, Refused}
    /\ active' = active \ {cur}
    /\ NextRow
    /\ UNCHANGED <<exists, chat, envVars, run, seen, snapshot, routes, faults>>

\* FloodWait: the dispatcher sleeps and returns, and the loop goes on with the
\* next source.
FloodSlept ==
    /\ reply = Flood
    /\ NextRow
    /\ UNCHANGED <<tableVars, envVars, run, seen, snapshot, routes, faults>>

\* "Anything else - re-raise unchanged": the exception leaves the loop and
\* run(), and the next start meets it again.
Reraise ==
    /\ reply = Unknown
    /\ run' = "down"
    /\ cur' = NoSource /\ reply' = NoChat
    /\ UNCHANGED <<tableVars, envVars, seen, snapshot, todo, routes, faults>>

Serve ==
    /\ run = "reconciling" /\ todo = {}
    /\ run' = "serving"
    /\ UNCHANGED <<tableVars, envVars, loopVars, faults>>

\* A stop, say for a deploy.
Stop ==
    /\ run = "serving"
    /\ run' = "down"
    /\ UNCHANGED <<tableVars, envVars, loopVars, faults>>

\* AuthKeyError (SystemExit), a network or database error that comes and goes,
\* anywhere in the loop, a crash.
GoDown ==
    /\ run # "down" /\ Fault
    /\ run' = "down" /\ cur' = NoSource /\ reply' = NoChat
    /\ UNCHANGED <<tableVars, envVars, seen, snapshot, todo, routes>>

-----------------------------------------------------------------------------
(* The other writers *)

\* One run of the seed loader, a single transaction: missing rows are
\* inserted, and is_active is set to what the file says.
Seed ==
    /\ Yaml \ active # {}
    /\ exists' = exists \cup Yaml /\ active' = active \cup Yaml
    /\ UNCHANGED <<chat, envVars, run, loopVars, faults>>

\* A chat gives its username up, or takes the one of another row.
NameDies(i) ==
    /\ entity[i] # NoChat
    /\ entity' = [entity EXCEPT ![i] = NoChat]
    /\ UNCHANGED <<tableVars, run, loopVars, faults, moves>>

NameMoves(i, j) ==
    /\ entity[i] # NoChat /\ entity[j] = NoChat /\ j \notin Anonymous
    /\ moves < MaxMoves /\ moves' = moves + 1
    /\ entity' = [entity EXCEPT ![i] = NoChat, ![j] = entity[i]]
    /\ UNCHANGED <<tableVars, run, loopVars, faults>>

-----------------------------------------------------------------------------
Reconcile ==
    \/ Snapshot
    \/ \E i \in todo : Known(i) \/ SkipAnonymous(i) \/ Ask(i)
    \/ StoreChat \/ StoreConflicts \/ Deactivate \/ FloodSlept \/ Reraise
    \/ Serve

Next ==
    \/ Reconcile \/ Stop \/ GoDown
    \/ Seed
    \/ \E i, j \in Sources : NameMoves(i, j)
    \/ \E i \in Sources : NameDies(i)

Spec == Init /\ [][Next]_vars

\* The event loop goes on, and docker restarts the listener.
FairSpec == Spec /\ WF_vars(Reconcile)

-----------------------------------------------------------------------------
(* Properties *)

\* A route says what the table says: the messages of a chat are stored under
\* the source whose row has its chat_id, whatever names have moved since.
RouteSound == \A c \in Chats : routes[c] # NoSource => chat[routes[c]] = c

\* Once the listener serves, every source it read that has a chat_id gets the
\* messages of that chat.
ResolvedIsServed ==
    run = "serving" =>
        \A i \in seen : chat[i] # NoChat => routes[chat[i]] = i

\* A chat_id, once written, stays: no restart and no rename moves a row (and
\* the raw_messages that point at it) to another chat.
ChatIdWriteOnce ==
    [][\A i \in Sources : chat[i] # NoChat => chat'[i] = chat[i]]_vars

\* A username leads to a chat that another row has.
NameConflict ==
    \E i, j \in Sources : i # j /\ entity[i] # NoChat /\ entity[i] = chat[j]

\* A row that is still to be resolved leads to a chat the dispatcher has no
\* answer for.
UnknownError ==
    \E i \in exists \cap active : chat[i] = NoChat /\ entity[i] \in Odd

\* Dead names, private chats, flood waits, passing errors and restarts never
\* keep the listener from serving: a single source does only if its chat is
\* another row's or if Telegram answers for it what the dispatcher re-raises.
ComesUpUnlessBlocked ==
    run = "reconciling" ~> run = "serving" \/ NameConflict \/ UnknownError
=============================================================================
