-------------------------- MODULE MCSourceRegistry --------------------------
EXTENDS Attribution

CONSTANTS s1, s2, anon, c1, c2, c3, c4

\* Two named sources and one row without a username; one chat is private
\* and one answers with an error of its own.
MCSources   == {s1, s2, anon}
MCAnonymous == {anon}
MCYaml      == {s1, s2}
MCChats     == {c1, c2, c3, c4}
MCPrivate   == {c3}
MCOdd       == {c4}

\* The rows' source_type is channel, group or supergroup; a username may still
\* lead to a user, and c1 is one.
MCChannels  == {c2, c3, c4}
=============================================================================
