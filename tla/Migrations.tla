----------------------------- MODULE Migrations -----------------------------
(***************************************************************************)
(* Alembic commands (migrations/env.py with the revisions 0001 and 0002)   *)
(* next to each other and to the programs that use the tables meanwhile:   *)
(* the handlers of a listener that still runs, its reconciliation and the  *)
(* seed.  A command is one PostgreSQL transaction whatever the number of   *)
(* revisions it crosses; its DDL takes table locks that it keeps to the    *)
(* end, and env.py takes no lock of its own.                               *)
(*                                                                         *)
(* A transaction is a list of statements.  A statement needs its table in  *)
(* one of the shapes "from" and, in exclusive mode, leaves it in shape     *)
(* "to".  Shape 0 is an absent table.  telegram_sources has shape 1 with   *)
(* chat_id NOT NULL and unique, and shape 2 with a nullable chat_id and a  *)
(* partial index; of the table alembic_version only the revision in its    *)
(* one row matters.  The locks wait for each other as PostgreSQL's do, but *)
(* without a queue: any of the transactions that wait may be next.         *)
(***************************************************************************)
EXTENDS Naturals, Sequences, FiniteSets

CONSTANTS Actors,     \* connections that may be open at one time
          Commands,   \* the transactions that are run over them
          MaxRuns,    \* bound: transactions
          MaxFaults   \* bound: lost connections

Upgrades   == {"upgrade"}          \* alembic upgrade head
Downgrades == {"-1", "base"}       \* alembic downgrade -1, downgrade base
Writers    == {"seed", "handler", "reconcile"}

ASSUME MigrationsAssumption ==
    /\ Commands \subseteq Upgrades \cup Downgrades \cup Writers
    /\ MaxRuns \in Nat /\ MaxFaults \in Nat

VARIABLES schema,    \* the committed shape of every table
          nulls,     \* committed rows with chat_id NULL: the runs that seeded them
          state,     \* "idle", "running", "done", "failed" or "victim"
          job,       \* what an actor runs or ran last, and the revision it found
          todo,      \* statements it has not executed yet
          draft,     \* the tables it holds exclusively, as it will leave them
          shares,    \* the tables it holds in a shared mode
          resolved,  \* the rows of nulls that it gave a chat_id
          runs,      \* transactions begun
          downgraded,  \* history: a downgrade has begun
          faults

vars == <<schema, nulls, state, job, todo, draft, shares, resolved, runs,
          downgraded, faults>>

\* "others" are lead_analysis and sender_profiles, which no program uses yet.
Tables == {"telegram_sources", "raw_messages", "keyword_triggers", "others",
           "alembic_version"}

\* A database at revision v.
AtRevision(v) ==
    [t \in Tables |-> IF t \in {"telegram_sources", "alembic_version"} THEN v
                      ELSE IF v = 0 THEN 0 ELSE 1]

\* Mutant: DDL with IF EXISTS, and a revision that is not compared.
IfExists(t, from, to) == [on |-> t, from |-> 0..2, to |-> to, mode |-> "exclusive", rows |-> "any"]

Exclusive(t, from, to) == [on |-> t, from |-> {from}, to |-> to, mode |-> "exclusive", rows |-> "any"]
Shared(t, from, rows)  == [on |-> t, from |-> from, to |-> 0, mode |-> "shared", rows |-> rows]

\* Alembic updates its row WHERE version_num is the revision it comes from,
\* and raises when that matches no row.
Stamp(from, to) == Exclusive("alembic_version", from, to)

-----------------------------------------------------------------------------
(* The revisions *)

Upgrade1 == << Exclusive("telegram_sources", 0, 1), Exclusive("raw_messages", 0, 1),
               Exclusive("keyword_triggers", 0, 1), Exclusive("others", 0, 1),
               Stamp(0, 1) >>

\* A dropped foreign key locks the table it refers to as well.
Downgrade1 == << Exclusive("others", 1, 0), Exclusive("raw_messages", 1, 1),
                 Exclusive("keyword_triggers", 1, 0),
                 Exclusive("raw_messages", 1, 0), Exclusive("telegram_sources", 1, 0),
                 Stamp(1, 0) >>

\* Mutant: 0002 also alters raw_messages, after the table it refers to.
TouchMessagesToo == << Exclusive("telegram_sources", 1, 2), Exclusive("raw_messages", 1, 1),
                       Stamp(1, 2) >>

Upgrade2 == << Exclusive("telegram_sources", 1, 2), Stamp(1, 2) >>

\* Mutant: a constraint that is NOT VALID is not checked against the rows.
NotValid == Exclusive("telegram_sources", 2, 1)

\* SET NOT NULL fails when a row is NULL.
Tighten == [on |-> "telegram_sources", from |-> {2}, to |-> 1, mode |-> "exclusive",
            rows |-> "not null"]

\* The count of 0002 comes before its DDL; a count above 0 raises.
Downgrade2 == << Shared("telegram_sources", {1, 2}, "not null"), Tighten, Stamp(2, 1) >>

\* The statements of a transaction that finds revision v: Alembic plans a
\* command from the revision it reads first.
Program(command, v) ==
    CASE command = "upgrade" -> IF v = 0 THEN Upgrade1 \o Upgrade2
                                ELSE IF v = 1 THEN Upgrade2 ELSE <<>>
      [] command = "-1"      -> IF v = 2 THEN Downgrade2 ELSE Downgrade1
      [] command = "base"    -> IF v = 2 THEN Downgrade2 \o Downgrade1
                                ELSE IF v = 1 THEN Downgrade1 ELSE <<>>
      \* seed_all, with a source that is new: it has no chat_id; then the triggers.
      [] command = "seed"    -> << Shared("telegram_sources", {2}, "insert"),
                                   Shared("keyword_triggers", {1}, "any") >>
      \* The INSERT of a message; its foreign key locks the source.
      [] command = "handler" -> << Shared("raw_messages", {1}, "any"),
                                   Shared("telegram_sources", {1, 2}, "any") >>
      \* UPDATE telegram_sources SET chat_id.
      [] command = "reconcile" -> << Shared("telegram_sources", {1, 2}, "resolve") >>

-----------------------------------------------------------------------------
NoJob == [command |-> "none", revision |-> 0, run |-> 0]

Init ==
    /\ \E v \in 0..2 : schema = AtRevision(v)
    /\ nulls = {}
    /\ state = [a \in Actors |-> "idle"]
    /\ job = [a \in Actors |-> NoJob]
    /\ todo = [a \in Actors |-> <<>>]
    /\ draft = [a \in Actors |-> <<>>]
    /\ shares = [a \in Actors |-> {}]
    /\ resolved = [a \in Actors |-> {}]
    /\ runs = 0 /\ downgraded = FALSE /\ faults = 0

\* What a statement of a sees under READ COMMITTED.
Shape(a, t) == IF t \in DOMAIN draft[a] THEN draft[a][t] ELSE schema[t]

Running(a) == state[a] = "running"

\* The transactions whose locks the next statement of a waits for.  A statement
\* on a table that is not there, or a CREATE of one that is, fails at once.
Blockers(a) ==
    IF ~Running(a) \/ todo[a] = <<>> THEN {} ELSE
    LET s == Head(todo[a])
    IN  IF (Shape(a, s.on) = 0) # (0 \in s.from) THEN {}
        ELSE {b \in Actors \ {a} : \/ s.on \in DOMAIN draft[b]
                                   \/ s.mode = "exclusive" /\ s.on \in shares[b]}

\* The transactions that wait in a cycle: each one for another, none superfluous.
Waiting     == {a \in Actors : Blockers(a) # {}}
Cyclic(S)   == S # {} /\ \A a \in S : Blockers(a) \cap S # {}
Deadlock(S) == Cyclic(S) /\ \A T \in SUBSET S : Cyclic(T) => T = S

\* Which of the free connections a transaction takes makes no difference.
Free == CHOOSE a \in Actors : ~Running(a)

\* A transaction starts; "downgrade -1" of an empty database is an error.
Begin(command) ==
    LET v == schema["alembic_version"]
        a == Free
    IN  /\ \E b \in Actors : ~Running(b)
        /\ runs < MaxRuns
        /\ runs' = runs + 1
        /\ job' = [job EXCEPT ![a] = [command |-> command, revision |-> v, run |-> runs']]
        /\ downgraded' = (downgraded \/ command \in Downgrades)
        /\ \/ /\ command = "-1" /\ v = 0
              /\ state' = [state EXCEPT ![a] = "failed"] /\ UNCHANGED todo
           \/ /\ ~(command = "-1" /\ v = 0)
              /\ state' = [state EXCEPT ![a] = "running"]
              /\ todo' = [todo EXCEPT ![a] = Program(command, v)]
        /\ UNCHANGED <<schema, nulls, draft, shares, resolved, faults>>

\* The next statement can do what it says, or must raise.
Possible(a) ==
    LET s == Head(todo[a])
    IN  /\ Shape(a, s.on) \in s.from
        /\ s.rows = "not null" => nulls = {}

\* Mutant: each statement is a transaction, as without begin_transaction().
AutoCommit(a) ==
    /\ Running(a) /\ todo[a] # <<>> /\ Blockers(a) = {} /\ Possible(a)
    /\ LET s == Head(todo[a])
       IN  /\ schema' = [schema EXCEPT ![s.on] = IF s.mode = "exclusive" THEN s.to ELSE @]
           /\ nulls' = IF s.rows = "insert" THEN nulls \cup {job[a].run} ELSE nulls
    /\ todo' = [todo EXCEPT ![a] = Tail(@)]
    /\ UNCHANGED <<state, job, draft, shares, resolved, runs, downgraded, faults>>

Execute(a) ==
    /\ Running(a) /\ todo[a] # <<>> /\ Blockers(a) = {} /\ Possible(a)
    /\ LET s == Head(todo[a])
       IN  \/ /\ s.mode = "exclusive"
              /\ draft' = [draft EXCEPT ![a] =
                    [t \in DOMAIN @ \cup {s.on} |-> IF t = s.on THEN s.to ELSE @[t]]]
              /\ UNCHANGED <<shares, resolved>>
           \/ /\ s.mode = "shared"
              /\ shares' = [shares EXCEPT ![a] = @ \cup {s.on}]
              /\ resolved' = [resolved EXCEPT ![a] = IF s.rows = "resolve" THEN nulls ELSE @]
              /\ UNCHANGED draft
    /\ todo' = [todo EXCEPT ![a] = Tail(@)]
    /\ UNCHANGED <<schema, nulls, state, job, runs, downgraded, faults>>

\* The end of a transaction frees its locks.
End(a, how) ==
    /\ state' = [state EXCEPT ![a] = how]
    /\ todo' = [todo EXCEPT ![a] = <<>>]
    /\ draft' = [draft EXCEPT ![a] = <<>>]
    /\ shares' = [shares EXCEPT ![a] = {}]
    /\ resolved' = [resolved EXCEPT ![a] = {}]
    /\ UNCHANGED <<job, runs, downgraded>>

Rollback(a, how) == End(a, how) /\ UNCHANGED <<schema, nulls>>

\* Mutant: the downgrade waits for the rows to be resolved.
WaitForRows(a) ==
    /\ Running(a) /\ todo[a] # <<>> /\ Blockers(a) = {} /\ ~Possible(a)
    /\ Head(todo[a]).rows # "not null"
    /\ Rollback(a, "failed")
    /\ UNCHANGED faults

\* A statement raises: the whole command is rolled back.
Raise(a) ==
    /\ Running(a) /\ todo[a] # <<>> /\ Blockers(a) = {} /\ ~Possible(a)
    /\ Rollback(a, "failed")
    /\ UNCHANGED faults

Commit(a) ==
    /\ Running(a) /\ todo[a] = <<>>
    /\ schema' = [t \in Tables |-> Shape(a, t)]
    /\ nulls' = (nulls \ resolved[a]) \cup {job[a].run : c \in {job[a].command} \cap {"seed"}}
    /\ End(a, "done")
    /\ UNCHANGED faults

\* PostgreSQL's deadlock detector aborts one of the transactions of a cycle.
DeadlockDetected(a) ==
    /\ a \in Waiting
    /\ \E S \in SUBSET Waiting : a \in S /\ Deadlock(S)
    /\ Rollback(a, "victim")
    /\ UNCHANGED faults

\* The process or its connection dies.
Crash(a) ==
    /\ Running(a) /\ faults < MaxFaults
    /\ faults' = faults + 1
    /\ Rollback(a, "failed")

\* No more transactions are begun.
Finished == runs = MaxRuns /\ (\A a \in Actors : ~Running(a)) /\ UNCHANGED vars

Step(a) == Execute(a) \/ Raise(a) \/ Commit(a)

Next == \/ \E command \in Commands : Begin(command)
        \/ \E a \in Actors : Step(a) \/ DeadlockDetected(a) \/ Crash(a)
        \/ Finished

Spec == Init /\ [][Next]_vars

\* Every process goes on, and the deadlock detector runs (deadlock_timeout).
Fairness == /\ \A a \in Actors : WF_vars(Step(a))
            /\ WF_vars(\E a \in Actors : DeadlockDetected(a))

FairSpec == Spec /\ Fairness

-----------------------------------------------------------------------------
(* Properties *)

\* Whatever races, fails or dies, the tables are those of the revision that
\* alembic_version names: a command is applied as a whole or not at all.
VersionMatchesSchema == \E v \in 0..2 : schema = AtRevision(v)

\* No row without a chat_id survives a downgrade to 0001, also when a seed
\* commits one between the count and the DDL of the downgrade.
NullsOnlyWhereAllowed == nulls # {} => schema["telegram_sources"] = 2

\* An upgrade is safe while the old release works: as long as no downgrade
\* has begun and no connection is lost, it makes no handler, reconciliation or
\* seed fail that began on a schema it could work with.
UpgradesDisturbNobody ==
    ~downgraded /\ faults = 0 =>
        \A a \in Actors : job[a].command \in Writers /\ state[a] \in {"failed", "victim"} =>
            job[a].revision < (IF job[a].command = "seed" THEN 2 ELSE 1)

\* Without an advisory lock two commands may plan from the same revision, but a
\* commit that changes the schema changes the revision its command planned from.
CommandsSerialize ==
    [][\A a \in Actors : Running(a) /\ state'[a] = "done" /\ schema' # schema =>
            schema["alembic_version"] = job[a].revision]_vars

\* Every command and every writer comes to an end: a lock is waited for until
\* its holder ends or the deadlock detector decides.
CommandsEnd == \A a \in Actors : Running(a) ~> ~Running(a)

\* Upgrades that race are safe but not all successful: the one thing that makes
\* an upgrade fail, or lose a deadlock, is another command that has changed the
\* revision it planned from.
UpgradeFailsOnlyIfOvertaken ==
    [][\A a \in Actors :
          /\ Running(a) /\ job[a].command \in Upgrades
          /\ state'[a] \in {"failed", "victim"} /\ faults' = faults
          => schema["alembic_version"] # job[a].revision]_vars
=============================================================================
