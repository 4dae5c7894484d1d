---------------------------- MODULE Attribution ----------------------------
(***************************************************************************)
(* Under which source a message is stored: the handlers of a listener that *)
(* serves (listener/processing.py) look the chat of an event up in the map *)
(* that _reconcile_sources made.  Looking changes nothing: the behaviours  *)
(* are those of SourceRegistry.                                            *)
(*                                                                         *)
(* The keys of the map are the chat_ids of the table, which come from      *)
(* get_entity().id.  Telethon has two notations of a peer: the id of an    *)
(* entity is bare, event.chat_id is marked with the kind of the peer.  The *)
(* two are the same number for a user and differ for a channel or a group. *)
(***************************************************************************)
EXTENDS SourceRegistry

CONSTANT Channels  \* the chats that are channels or groups

ASSUME ChannelAssumption == Channels \subseteq Chats /\ \A c \in Chats : <<c>> \notin Chats

\* The marked id of a channel is no id of an entity.
EventChatId(c) == IF c \in Channels THEN <<c>> ELSE c

\* source_by_chat_id.get(event.chat_id)
SourceOf(id) == IF id \in Chats THEN routes[id] ELSE NoSource

-----------------------------------------------------------------------------
\* The map is keyed with what events carry: once the listener serves, an event
\* of the chat of a resolved source finds its source.
ResolvedIsHeard ==
    run = "serving" =>
        \A i \in seen : chat[i] # NoChat => SourceOf(EventChatId(chat[i])) = i
=============================================================================
