------------------------ MODULE SourceRegistryProofs ------------------------
(***************************************************************************)
(* What the reconciliation promises for any sources, chats, renames and    *)
(* faults: a chat_id is written once, the map agrees with the table, and   *)
(* a listener that serves has a route for every row it resolved.           *)
(***************************************************************************)
EXTENDS SourceRegistry, TLAPS

Replies == Chats \cup {NoChat, Dead, Refused, Flood, Unknown}

TypeOK ==
    /\ exists \subseteq Sources /\ active \subseteq Sources
    /\ chat \in [Sources -> Chats \cup {NoChat}]
    /\ entity \in [Sources -> Chats \cup {NoChat}]
    /\ run \in {"down", "reconciling", "serving"}
    /\ seen \subseteq Sources /\ todo \subseteq seen
    /\ snapshot \in [Sources -> Chats \cup {NoChat}]
    /\ cur \in Sources \cup {NoSource} /\ reply \in Replies
    /\ routes \in [Chats -> Sources \cup {NoSource}]

\* The reconciliation has a reply for exactly the row it resolves, which is
\* still to do and had no chat_id when it was read.
OneAtATime ==
    /\ cur = NoSource <=> reply = NoChat
    /\ cur # NoSource => run = "reconciling" /\ cur \in todo /\ snapshot[cur] = NoChat

\* Nobody else writes chat_id: a row that is still to do is as it was read.
StillAsRead == \A i \in todo : chat[i] = snapshot[i]

\* uq_telegram_sources_chat_id.
UniqueChats == \A i, j \in Sources : chat[i] = chat[j] /\ chat[i] # NoChat => i = j

\* A row that is done has its route, when it has a chat_id.
DoneIsRouted == \A i \in seen \ todo : chat[i] # NoChat => routes[chat[i]] = i

IInv == TypeOK /\ OneAtATime /\ StillAsRead /\ UniqueChats /\ DoneIsRouted /\ RouteSound

-----------------------------------------------------------------------------
\* The table has no chat_id at first, and the map is empty.
LEMMA InitIInv == Init => IInv
  BY RegistryAssumption
     DEF RegistryAssumption, Init, Entities, NoChats, NoRoutes, Replies, IInv, TypeOK,
         OneAtATime, StillAsRead, UniqueChats, DoneIsRouted, RouteSound

\* A step that leaves the table's chat_ids, the map and the loop alone keeps
\* what is said of them.
LEMMA Frame ==
    ASSUME IInv, TypeOK', UNCHANGED <<chat, seen, snapshot, todo, cur, reply, routes>>,
           run' = run \/ cur = NoSource
    PROVE  IInv'
  BY DEF IInv, OneAtATime, StillAsRead, UniqueChats, DoneIsRouted, RouteSound

\* A row is done when it got its chat_id into the table and into the map ...
LEMMA StoreChatStep == IInv /\ StoreChat => IInv' /\ chat[cur] = NoChat
<1> SUFFICES ASSUME IInv, StoreChat PROVE IInv' /\ chat[cur] = NoChat
  OBVIOUS
<1>1. /\ cur \in todo /\ cur \in Sources /\ snapshot[cur] = NoChat /\ chat[cur] = NoChat
      /\ reply \in Chats /\ reply # NoChat
  BY RegistryAssumption
     DEF RegistryAssumption, StoreChat, IInv, TypeOK, OneAtATime, StillAsRead
<1>2. /\ chat' = [chat EXCEPT ![cur] = reply] /\ routes' = [routes EXCEPT ![reply] = cur]
      /\ todo' = todo \ {cur} /\ cur' = NoSource /\ reply' = NoChat
      /\ UNCHANGED <<exists, active, entity, run, seen, snapshot>>
      /\ \A i \in Sources \ {cur} : chat[i] # reply
  BY DEF StoreChat, NextRow, envVars
<1>3. TypeOK'
  BY <1>1, <1>2 DEF IInv, TypeOK, Replies
<1>4. OneAtATime' /\ StillAsRead'
  BY <1>1, <1>2 DEF IInv, TypeOK, OneAtATime, StillAsRead
<1>5. UniqueChats'
  BY <1>1, <1>2 DEF IInv, TypeOK, UniqueChats
<1>6. DoneIsRouted'
  <2>1. \A i \in seen \ todo : chat'[i] = chat[i] /\ chat'[i] # reply /\ chat'[i] \in Chats \cup {NoChat}
    BY <1>1, <1>2 DEF IInv, TypeOK
  <2>2. chat'[cur] = reply /\ routes'[reply] = cur
    BY <1>1, <1>2 DEF IInv, TypeOK
  <2>3. \A i \in seen \ todo : chat'[i] # NoChat => routes'[chat'[i]] = i
    BY <1>1, <1>2, <2>1 DEF IInv, TypeOK, DoneIsRouted
  <2> QED
    BY <1>2, <2>2, <2>3 DEF DoneIsRouted
<1>7. RouteSound'
  <2>1. \A c \in Chats : routes[c] # NoSource => routes[c] # cur
    BY <1>1, RegistryAssumption DEF RegistryAssumption, IInv, RouteSound
  <2> QED
    BY <1>1, <1>2, <2>1 DEF IInv, TypeOK, RouteSound
<1> QED
  BY <1>1, <1>3, <1>4, <1>5, <1>6, <1>7 DEF IInv

\* ... when it is routed by the chat_id that it had ...
LEMMA KnownStep == ASSUME IInv, NEW i \in todo, Known(i) PROVE IInv'
<1>1. /\ i \in Sources /\ snapshot[i] \in Chats /\ chat[i] = snapshot[i]
      /\ cur = NoSource /\ run = "reconciling"
  BY DEF Known, AtRow, IInv, TypeOK, StillAsRead
<1>2. /\ routes' = [routes EXCEPT ![chat[i]] = i] /\ todo' = todo \ {i}
      /\ UNCHANGED <<exists, active, chat, entity, run, seen, snapshot, cur, reply>>
  BY <1>1 DEF Known, tableVars, envVars
<1>3. TypeOK'
  BY <1>1, <1>2 DEF IInv, TypeOK
<1>4. OneAtATime' /\ StillAsRead' /\ UniqueChats'
  BY <1>1, <1>2 DEF IInv, OneAtATime, StillAsRead, UniqueChats
<1>5. DoneIsRouted'
  BY <1>1, <1>2 DEF IInv, TypeOK, UniqueChats, DoneIsRouted
<1>6. RouteSound'
  BY <1>1, <1>2 DEF IInv, TypeOK, RouteSound
<1> QED
  BY <1>3, <1>4, <1>5, <1>6 DEF IInv

\* ... or when it is left without a chat_id.
LEMMA SkipStep ==
    ASSUME IInv, NEW i \in todo, snapshot[i] = NoChat, cur \in {NoSource, i},
           todo' = todo \ {i}, cur' = NoSource, reply' = NoChat, TypeOK',
           UNCHANGED <<chat, run, seen, snapshot, routes>>
    PROVE  IInv'
  BY DEF IInv, OneAtATime, StillAsRead, UniqueChats, DoneIsRouted, RouteSound

\* The invariant, action by action.
LEMMA IInvStep == IInv /\ [Next]_vars => IInv'
<1> SUFFICES ASSUME IInv, [Next]_vars PROVE IInv'
  OBVIOUS
<1> USE RegistryAssumption DEF RegistryAssumption
<1>0. TypeOK /\ OneAtATime
  BY DEF IInv
<1>1. CASE Snapshot
  <2>1. /\ run' = "reconciling" /\ seen' \subseteq Sources /\ todo' = seen' /\ snapshot' = chat
        /\ routes' = NoRoutes /\ cur' = NoSource /\ reply' = NoChat
        /\ UNCHANGED <<exists, active, chat, entity>>
    BY <1>0, <1>1 DEF Snapshot, TypeOK, tableVars, envVars
  <2>2. TypeOK'
    BY <1>0, <2>1 DEF TypeOK, NoRoutes, Replies
  <2> QED
    BY <2>1, <2>2 DEF IInv, OneAtATime, StillAsRead, UniqueChats, DoneIsRouted,
       RouteSound, NoRoutes
<1>2. ASSUME NEW i \in todo, Known(i) PROVE IInv'
  BY <1>2, KnownStep
<1>3. ASSUME NEW i \in todo, SkipAnonymous(i) PROVE IInv'
  <2>1. /\ todo' = todo \ {i} /\ snapshot[i] = NoChat /\ cur = NoSource
        /\ UNCHANGED <<exists, active, chat, entity, run, seen, snapshot, cur, reply, routes>>
    BY <1>3 DEF SkipAnonymous, AtRow, tableVars, envVars
  <2>2. TypeOK' /\ reply = NoChat
    BY <1>0, <2>1 DEF TypeOK, OneAtATime
  <2> QED
    BY <2>1, <2>2, SkipStep
<1>4. ASSUME NEW i \in todo, Ask(i) PROVE IInv'
  <2>1. /\ run = "reconciling" /\ snapshot[i] = NoChat /\ cur' = i
        /\ UNCHANGED <<exists, active, chat, entity, run, seen, snapshot, todo, routes>>
    BY <1>4 DEF Ask, AtRow, tableVars, envVars
  <2>2. i \in Sources /\ reply' \in Replies \ {NoChat}
    BY <1>0, <1>4 DEF Ask, Answer, TypeOK, Replies
  <2>3. TypeOK' /\ OneAtATime'
    BY <1>0, <1>4, <2>1, <2>2 DEF TypeOK, OneAtATime
  <2> QED
    BY <2>1, <2>3 DEF IInv, StillAsRead, UniqueChats, DoneIsRouted, RouteSound
<1>5. CASE StoreChat
  BY <1>5, StoreChatStep
<1>6. CASE StoreConflicts \/ Reraise \/ GoDown
  <2>1. /\ run' = "down" /\ cur' = NoSource /\ reply' = NoChat
        /\ UNCHANGED <<exists, active, chat, entity, seen, snapshot, todo, routes>>
    BY <1>6 DEF StoreConflicts, Reraise, GoDown, tableVars, envVars
  <2>2. TypeOK'
    BY <1>0, <2>1 DEF TypeOK, Replies
  <2> QED
    BY <2>1, <2>2 DEF IInv, OneAtATime, StillAsRead, UniqueChats, DoneIsRouted, RouteSound
<1>7. CASE Deactivate \/ FloodSlept
  <2>1. /\ todo' = todo \ {cur} /\ cur' = NoSource /\ reply' = NoChat
        /\ active' \subseteq active /\ reply # NoChat
        /\ UNCHANGED <<exists, chat, entity, run, seen, snapshot, routes>>
    BY <1>7 DEF Deactivate, FloodSlept, NextRow, tableVars, envVars
  <2>2. cur \in todo /\ snapshot[cur] = NoChat
    BY <1>0, <2>1 DEF OneAtATime
  <2>3. TypeOK'
    BY <1>0, <2>1 DEF TypeOK, Replies
  <2> QED
    BY <2>1, <2>2, <2>3, SkipStep
<1>8. CASE Serve \/ Stop
  <2>1. /\ run' \in {"serving", "down"} /\ cur = NoSource
        /\ UNCHANGED <<exists, active, chat, entity, seen, snapshot, todo, cur, reply, routes>>
    BY <1>0, <1>8 DEF Serve, Stop, OneAtATime, tableVars, envVars, loopVars
  <2>2. TypeOK'
    BY <1>0, <2>1 DEF TypeOK
  <2> QED
    BY <2>1, <2>2, Frame
<1>9. CASE Seed
  <2>1. TypeOK'
    BY <1>0, <1>9 DEF Seed, TypeOK, envVars, loopVars
  <2> QED
    BY <1>9, <2>1, Frame DEF Seed, loopVars
<1>10. ASSUME NEW i \in Sources, NEW j \in Sources, NameMoves(i, j) \/ NameDies(i) PROVE IInv'
  <2>1. TypeOK'
    BY <1>0, <1>10 DEF NameMoves, NameDies, TypeOK, tableVars, loopVars
  <2> QED
    BY <1>10, <2>1, Frame DEF NameMoves, NameDies, tableVars, loopVars
<1>11. CASE UNCHANGED vars
  <2>1. TypeOK'
    BY <1>0, <1>11 DEF TypeOK, vars
  <2> QED
    BY <1>11, <2>1, Frame DEF vars
<1> QED
  BY <1>1, <1>2, <1>3, <1>4, <1>5, <1>6, <1>7, <1>8, <1>9, <1>10, <1>11 DEF Next, Reconcile

LEMMA Invariance == Spec => []IInv
  BY InitIInv, IInvStep, PTL DEF Spec

\* StoreChat is the one action that writes a chat_id, and its row had none.
LEMMA WriteOnceStep ==
    IInv /\ [Next]_vars => \A i \in Sources : chat[i] # NoChat => chat'[i] = chat[i]
<1> SUFFICES ASSUME IInv, [Next]_vars, NEW i \in Sources, chat[i] # NoChat
             PROVE  chat'[i] = chat[i]
  OBVIOUS
<1>1. CASE StoreChat
  BY <1>1, StoreChatStep DEF StoreChat, IInv, TypeOK
<1>2. CASE ~StoreChat
  BY <1>2 DEF Next, Reconcile, Snapshot, Known, SkipAnonymous, Ask, StoreConflicts, Reraise, Deactivate,
     FloodSlept, Serve, Stop, GoDown, Seed, NameMoves, NameDies, vars, tableVars
<1> QED
  BY <1>1, <1>2

-----------------------------------------------------------------------------
\* The map never contradicts the table, whatever is renamed, fails or restarts:
\* a chat's messages go to the row that has its chat_id.
THEOREM RoutesAgree == Spec => []RouteSound
  BY Invariance, PTL DEF IInv

\* A listener that serves has a route for each row it read that has a chat_id.
THEOREM ServesResolved == Spec => []ResolvedIsServed
<1>1. Spec => [](run = "serving" => todo = {})
  <2>1. Init => (run = "serving" => todo = {})
    BY DEF Init
  <2>2. (run = "serving" => todo = {}) /\ [Next]_vars => (run = "serving" => todo = {})'
    BY DEF Next, Reconcile, Snapshot, Known, SkipAnonymous, Ask, StoreChat, StoreConflicts,
       Reraise, Deactivate, FloodSlept, NextRow, AtRow, Serve, Stop, GoDown, Seed, NameMoves, NameDies,
       vars, loopVars
  <2> QED
    BY <2>1, <2>2, PTL DEF Spec
<1>2. IInv /\ (run = "serving" => todo = {}) => ResolvedIsServed
  BY DEF IInv, TypeOK, DoneIsRouted, ResolvedIsServed
<1> QED
  BY <1>1, <1>2, Invariance, PTL

\* No rename, restart or fault moves a row to another chat.
THEOREM ChatIdKept == Spec => ChatIdWriteOnce
<1>1. IInv /\ [Next]_vars => [\A i \in Sources : chat[i] # NoChat => chat'[i] = chat[i]]_vars
  BY WriteOnceStep
<1> QED
  BY <1>1, Invariance, PTL DEF Spec, ChatIdWriteOnce
=============================================================================
