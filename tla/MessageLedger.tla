--------------------------- MODULE MessageLedger ---------------------------
(***************************************************************************)
(* What ingestion promises to the rest of the system (docs/adr/0006): a    *)
(* message is recorded in raw_messages at most once, it is announced to    *)
(* the filter queue only after it was recorded, and neither is ever taken  *)
(* back.  Whether a recorded message IS announced is not promised: a       *)
(* failed enqueue leaves the row behind.  How many copies of the task the  *)
(* transport leaves in the queue is not counted.                           *)
(***************************************************************************)
CONSTANT Messages      \* natural keys (source_id, telegram_message_id)

VARIABLES stored,      \* messages with a committed raw_messages row
          announced    \* messages whose row id went to the filter queue

Init == stored = {} /\ announced = {}

\* Transactions that insert the rows of S commit: one in normal operation,
\* several when a crash leaves the COMMITs it interrupts carried out.
Store(S) ==
    /\ S \subseteq Messages \ stored
    /\ stored' = stored \cup S
    /\ UNCHANGED announced

\* The id of the row of m reaches the broker for the first time.
Announce(m) ==
    /\ m \in stored \ announced
    /\ announced' = announced \cup {m}
    /\ UNCHANGED stored

Next ==
    \/ \E S \in SUBSET Messages : Store(S)
    \/ \E m \in Messages : Announce(m)

Spec == Init /\ [][Next]_<<stored, announced>>
=============================================================================
