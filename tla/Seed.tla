-------------------------------- MODULE Seed --------------------------------
(***************************************************************************)
(* The seed loader (shared/db/seed.py) against PostgreSQL's default        *)
(* isolation level, READ COMMITTED: each run is one transaction that goes  *)
(* through the sources and then the triggers, in the order of the files.   *)
(* Sources are matched by a SELECT, triggers by ON CONFLICT.               *)
(*                                                                         *)
(* A source row is <<username, run that inserted it>>.  A statement sees   *)
(* what is committed and its own transaction's rows.  An UPDATE locks its  *)
(* row, an upsert its key, until the transaction ends.                     *)
(***************************************************************************)
EXTENDS Naturals, FiniteSets

CONSTANTS NumSources,  \* rows of sources.yaml, identified by their position
          NumTriggers, \* rows of keyword_triggers.yaml
          Runs         \* executions of the loader, which may overlap

ASSUME SeedAssumption ==
    NumSources \in Nat \ {0} /\ NumTriggers \in Nat \ {0}

VARIABLES stage, pos,   \* where each run is
          found,        \* the row its SELECT returned, or None
          inserted,     \* its uncommitted source rows
          locks,        \* what it has locked
          sources,      \* committed rows of telegram_sources
          triggers,     \* committed keys of keyword_triggers
          overlapped    \* history: two runs were active at the same time

vars == <<stage, pos, found, inserted, locks, sources, triggers, overlapped>>

Names == 1..NumSources
Keys  == 1..NumTriggers
Rows  == Names \X Runs
None  == <<>>

Active(r) == stage[r] \notin {"new", "done", "failed"}

\* Mutant: the keys are taken from a set, in another order in each process.
AnyOrder(r, i) == IF r = CHOOSE q \in Runs : TRUE THEN NumTriggers + 1 - i ELSE i

\* The order of the file.
TriggerAt(r, i) == i

Init ==
    /\ stage = [r \in Runs |-> "new"] /\ pos = [r \in Runs |-> 1]
    /\ found = [r \in Runs |-> None] /\ inserted = [r \in Runs |-> {}]
    /\ locks = [r \in Runs |-> {}]
    /\ sources = {} /\ triggers = {} /\ overlapped = FALSE

At(r, s)  == stage[r] = s
Goto(r, s) == stage' = [stage EXCEPT ![r] = s]
Free(r, x) == \A q \in Runs \ {r} : x \notin locks[q]
Lock(r, x) == Free(r, x) /\ locks' = [locks EXCEPT ![r] = @ \cup {x}]

\* The next source, or the first trigger after the last one.
NextSource(r) ==
    IF pos[r] < NumSources
    THEN Goto(r, "select") /\ pos' = [pos EXCEPT ![r] = @ + 1]
    ELSE Goto(r, "trigger") /\ pos' = [pos EXCEPT ![r] = 1]

\* An execution begins its transaction, after the others or beside them.
Begin(r) ==
    /\ At(r, "new")
    /\ Goto(r, "select")
    /\ overlapped' = (overlapped \/ \E q \in Runs : Active(q))
    /\ UNCHANGED <<pos, found, inserted, locks, sources, triggers>>

\* A transaction that ends without COMMIT leaves nothing.
Rollback(r) ==
    /\ Goto(r, "failed")
    /\ inserted' = [inserted EXCEPT ![r] = {}]
    /\ locks' = [locks EXCEPT ![r] = {}]
    /\ UNCHANGED <<pos, found, sources, triggers, overlapped>>

Visible(r) == {x \in sources \cup inserted[r] : x[1] = pos[r]}

\* SELECT id ... WHERE lower(username) = lower(:username): no row or one.
Select(r) ==
    /\ At(r, "select")
    /\ \/ Visible(r) = {} /\ found' = [found EXCEPT ![r] = None]
       \/ \E x \in Visible(r) : Visible(r) = {x} /\ found' = [found EXCEPT ![r] = x]
    /\ Goto(r, "write")
    /\ UNCHANGED <<pos, inserted, locks, sources, triggers, overlapped>>

\* scalar_one_or_none() raises MultipleResultsFound.
SelectAmbiguous(r) ==
    /\ At(r, "select")
    /\ Cardinality(Visible(r)) > 1
    /\ Rollback(r)

\* Mutant: always insert.
InsertAlways(r) ==
    /\ At(r, "write")
    /\ inserted' = [inserted EXCEPT ![r] = @ \cup {<<pos[r], r>>}]
    /\ NextSource(r)
    /\ UNCHANGED <<found, locks, sources, triggers, overlapped>>

InsertSource(r) ==
    /\ At(r, "write") /\ found[r] = None
    /\ inserted' = [inserted EXCEPT ![r] = @ \cup {<<pos[r], r>>}]
    /\ NextSource(r)
    /\ UNCHANGED <<found, locks, sources, triggers, overlapped>>

\* UPDATE ... WHERE id = :id waits for the lock of the row.
UpdateSource(r) ==
    /\ At(r, "write") /\ found[r] # None
    /\ Lock(r, <<"source", found[r]>>)
    /\ NextSource(r)
    /\ UNCHANGED <<found, inserted, sources, triggers, overlapped>>

\* INSERT ... ON CONFLICT (keyword, language) DO UPDATE waits for another
\* transaction that has inserted or updated the key.
UpsertTrigger(r) ==
    /\ At(r, "trigger")
    /\ Lock(r, <<"trigger", TriggerAt(r, pos[r])>>)
    /\ IF pos[r] < NumTriggers
       THEN pos' = [pos EXCEPT ![r] = @ + 1] /\ UNCHANGED stage
       ELSE Goto(r, "commit") /\ UNCHANGED pos
    /\ UNCHANGED <<found, inserted, sources, triggers, overlapped>>

\* Mutant: each seeder commits on its own.
CommitSourcesFirst(r) ==
    /\ At(r, "commit") \/ At(r, "trigger")
    /\ sources' = sources \cup inserted[r]
    /\ triggers' = triggers \cup {k \in Keys : <<"trigger", k>> \in locks[r]}
    /\ locks' = [locks EXCEPT ![r] = {}] /\ inserted' = [inserted EXCEPT ![r] = {}]
    /\ IF At(r, "commit") THEN Goto(r, "done") ELSE UNCHANGED stage
    /\ UNCHANGED <<pos, found, overlapped>>

\* Mutant: the table is replaced by what this run inserted.
CommitReplaces(r) ==
    /\ At(r, "commit")
    /\ sources' = inserted[r]
    /\ triggers' = triggers \cup {k \in Keys : <<"trigger", k>> \in locks[r]}
    /\ locks' = [locks EXCEPT ![r] = {}] /\ inserted' = [inserted EXCEPT ![r] = {}]
    /\ Goto(r, "done")
    /\ UNCHANGED <<pos, found, overlapped>>

\* engine.begin() ends without an exception: everything becomes visible.
Commit(r) ==
    /\ At(r, "commit")
    /\ sources' = sources \cup inserted[r]
    /\ triggers' = triggers \cup {k \in Keys : <<"trigger", k>> \in locks[r]}
    /\ locks' = [locks EXCEPT ![r] = {}] /\ inserted' = [inserted EXCEPT ![r] = {}]
    /\ Goto(r, "done")
    /\ UNCHANGED <<pos, found, overlapped>>

\* A row that lacks a required field, a database error, a kill.
Fail(r) == Active(r) /\ Rollback(r)

Step(r) == Select(r) \/ SelectAmbiguous(r) \/ InsertSource(r) \/ UpdateSource(r)
               \/ UpsertTrigger(r) \/ Commit(r)

\* Every execution is over.
Rest == (\A r \in Runs : stage[r] \in {"done", "failed"}) /\ UNCHANGED vars

Next == Rest \/ \E r \in Runs : Begin(r) \/ Step(r) \/ Fail(r)

Spec == Init /\ [][Next]_vars

\* PostgreSQL carries out what is not blocked.
FairSpec == Spec /\ \A r \in Runs : WF_vars(Step(r))

-----------------------------------------------------------------------------
(* Properties *)

\* "Re-running is safe": no username has two rows, whatever runs failed before
\* and wherever, unless two runs overlapped.
OneRowPerName == ~overlapped => \A x, y \in sources : x[1] = y[1] => x = y

\* A run that failed half-way left nothing: the sources and the dictionary of
\* triggers are there together and complete, or not at all.
AllOrNothing ==
    \/ sources = {} /\ triggers = {}
    \/ {x[1] : x \in sources} = Names /\ triggers = Keys

\* Once loaded, a re-run that meets no other inserts and removes nothing.
RerunInsertsNothing == [][sources # {} /\ ~overlapped' => sources' = sources]_vars

\* Two runs that meet wait for each other at most in one direction: both end.
RunsEnd == \A r \in Runs : Active(r) ~> ~Active(r)
=============================================================================
