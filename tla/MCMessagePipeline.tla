------------------------- MODULE MCMessagePipeline -------------------------
EXTENDS MessagePipeline

CONSTANTS m1, m2, m3, h1, h2, h3, w1, w2

\* Two messages of listened chats, one of which is delivered again, and one of
\* a chat the map does not know.  Two tasks of m1 can use up the connections
\* while a third task brings m2.
MCMessages == {m1, m2, m3}
MCRouted   == {m1, m2}
MCRepeated == {m1}
MCSingle   == {m1}
MCHandlers == {h1, h2, h3}
MCWorkers  == {w1, w2}

\* What entrypoint.sh gives the worker: no file of the repository sets
\* WORKER_QUEUES.
MCDefaultQueues == {"default", "llm", "enrich"}

\* An operator's WORKER_QUEUES that has the worker consume the filter task, so
\* that its steps happen.  Every behaviour of the default is one under this
\* value in which the worker takes nothing: what holds here holds there, but
\* for the liveness of the worker (Pipeline_queues).
MCAllQueues == MCDefaultQueues \cup {"filter"}
=============================================================================
