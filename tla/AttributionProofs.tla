------------------------- MODULE AttributionProofs -------------------------
(***************************************************************************)
(* Whose messages a listener that serves can hear.                         *)
(***************************************************************************)
EXTENDS Attribution, SourceRegistryProofs

\* Once the listener serves, an event finds its source in the map ...
Heard == \A i \in seen : chat[i] # NoChat /\ chat[i] \notin Channels =>
             SourceOf(EventChatId(chat[i])) = i

\* ... but the event of a channel or group finds none, resolved or not.
ChannelsUnheard == \A c \in Channels : SourceOf(EventChatId(c)) = NoSource

\* The two notations of an id (listener/main.py:121, listener/processing.py) are
\* the one thing between a resolved source and its messages: exactly the
\* channels and groups go unheard, whatever else is renamed or fails.
THEOREM OnlyChannelsUnheard == Spec => [](run = "serving" => Heard /\ ChannelsUnheard)
<1>1. TypeOK /\ ResolvedIsServed => (run = "serving" => Heard /\ ChannelsUnheard)
  <2> SUFFICES ASSUME TypeOK, ResolvedIsServed, run = "serving" PROVE Heard /\ ChannelsUnheard
    OBVIOUS
  <2>1. \A i \in seen : chat[i] # NoChat => chat[i] \in Chats /\ routes[chat[i]] = i
    BY DEF TypeOK, ResolvedIsServed
  <2> QED
    BY <2>1, ChannelAssumption DEF ChannelAssumption, Heard, ChannelsUnheard, EventChatId, SourceOf
<1>2. IInv => TypeOK
  BY DEF IInv
<1> QED
  BY <1>1, <1>2, Invariance, ServesResolved, PTL
=============================================================================
