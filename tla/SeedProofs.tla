----------------------------- MODULE SeedProofs -----------------------------
(***************************************************************************)
(* The seed loader for any number of sources, triggers and executions: it  *)
(* commits everything or nothing, and executions that do not overlap leave *)
(* one row per name and insert it once.                                    *)
(***************************************************************************)
EXTENDS Seed, TLAPS

TypeOK ==
    /\ stage \in [Runs -> {"new", "select", "write", "trigger", "commit", "done", "failed"}]
    /\ pos \in [Runs -> Nat]
    /\ found \in [Runs -> Rows \cup {None}]
    /\ inserted \in [Runs -> SUBSET Rows]
    /\ locks \in [Runs -> SUBSET (({"source"} \X Rows) \cup ({"trigger"} \X Keys))]
    /\ sources \subseteq Rows /\ triggers \subseteq Keys /\ overlapped \in BOOLEAN

Seeing(r)  == sources \cup inserted[r]
Unique(S)  == \A x, y \in S : x[1] = y[1] => x = y
Has(S, n)  == \E x \in S : x[1] = n

\* A run is somewhere in its file.
InFile ==
    \A r \in Runs : /\ stage[r] \in {"new", "select", "write"} => pos[r] \in Names
                    /\ stage[r] = "trigger" => pos[r] \in Keys

\* What a run has passed is there: the names in the rows it sees, the triggers
\* among its locks; and the row it found is still there.
Passed ==
    \A r \in Runs :
        /\ stage[r] \in {"select", "write"} => \A n \in Names : n < pos[r] => Has(Seeing(r), n)
        /\ stage[r] \in {"trigger", "commit"} => \A n \in Names : Has(Seeing(r), n)
        /\ stage[r] = "trigger" => \A k \in Keys : k < pos[r] => <<"trigger", k>> \in locks[r]
        /\ stage[r] = "commit" => \A k \in Keys : <<"trigger", k>> \in locks[r]
        /\ stage[r] = "write" /\ found[r] # None => found[r] \in Seeing(r) /\ found[r][1] = pos[r]
        /\ stage[r] = "new" => pos[r] = 1

\* A run that is over, or not begun, has nothing uncommitted.
NothingLeft == \A r \in Runs : ~Active(r) => inserted[r] = {}

\* As long as no two executions overlapped, one is active, it sees no name
\* twice, what it did not find is still not there, and a loaded table leaves
\* it nothing to insert.
OneByOne ==
    ~overlapped =>
        /\ \A r, q \in Runs : Active(r) /\ Active(q) => r = q
        /\ \A r \in Runs : Unique(Seeing(r))
        /\ \A r \in Runs : stage[r] = "write" /\ found[r] = None => ~Has(Seeing(r), pos[r])
        /\ sources # {} => \A r \in Runs : inserted[r] = {}

IInv == /\ TypeOK /\ InFile /\ Passed /\ NothingLeft /\ OneByOne
        /\ OneRowPerName /\ AllOrNothing

-----------------------------------------------------------------------------
\* No row is None.
LEMMA NoneIsNoRow == None \notin Rows
  BY DEF None, Rows

\* Rows are what was seen: more of them keeps every name.
LEMMA MoreRows == ASSUME NEW S, NEW T, S \subseteq T, NEW n, Has(S, n) PROVE Has(T, n)
  BY DEF Has

\* Up to a position is before it or at it.
LEMMA NatOrder == \A m, n \in Nat : m <= n => m < n \/ m = n
  OBVIOUS

\* Every name is in the table, or the table is empty.
LEMMA Loaded == AllOrNothing <=> \/ sources = {} /\ triggers = {}
                                 \/ (\A n \in Names : Has(sources, n)) /\ (\A x \in sources : x[1] \in Names)
                                    /\ triggers = Keys
  BY DEF AllOrNothing, Has

LEMMA InitIInv == Init => IInv
<1> SUFFICES ASSUME Init PROVE IInv
  OBVIOUS
<1> USE SeedAssumption DEF SeedAssumption, Init, Active
<1>1. TypeOK
  BY DEF TypeOK
<1>2. InFile /\ Passed /\ NothingLeft
  BY DEF InFile, Passed, NothingLeft, Names, Keys
<1>3. OneByOne
  BY DEF OneByOne, Unique, Seeing, Has
<1>4. OneRowPerName /\ AllOrNothing
  BY DEF OneRowPerName, AllOrNothing
<1> QED
  BY <1>1, <1>2, <1>3, <1>4 DEF IInv

\* A transaction that is rolled back takes only its own rows and locks away.
LEMMA RollbackStep ==
    ASSUME IInv, NEW r \in Runs, Active(r), Rollback(r)
    PROVE  IInv'
<1> USE DEF IInv, Rollback, Goto
<1>1. TypeOK'
  BY DEF TypeOK
<1>2. /\ \A q \in Runs : stage'[q] = IF q = r THEN "failed" ELSE stage[q]
      /\ \A q \in Runs : inserted'[q] = IF q = r THEN {} ELSE inserted[q]
      /\ \A q \in Runs : locks'[q] = IF q = r THEN {} ELSE locks[q]
      /\ UNCHANGED <<pos, found, sources, triggers, overlapped>>
  BY DEF TypeOK
<1> HIDE DEF Rollback
<1>3. InFile' /\ Passed' /\ NothingLeft'
  BY <1>2 DEF InFile, Passed, NothingLeft, Active, Seeing, Has
<1>4. OneByOne'
  BY <1>2 DEF OneByOne, Active, Seeing, Has, Unique
<1>5. OneRowPerName' /\ AllOrNothing'
  BY <1>2 DEF OneRowPerName, AllOrNothing
<1> QED
  BY <1>1, <1>3, <1>4, <1>5

\* The step of NextSource, for a run whose current name is in what it sees.
LEMMA NextSourceStep ==
    ASSUME IInv, NEW r \in Runs, stage[r] = "write", NextSource(r),
           NEW row, inserted' \in [Runs -> SUBSET Rows],
           \A q \in Runs : inserted'[q] = IF q = r THEN inserted[r] \cup row ELSE inserted[q],
           Has(sources \cup inserted'[r], pos[r]), locks' \in [Runs -> SUBSET (({"source"} \X Rows) \cup ({"trigger"} \X Keys))],
           \A q \in Runs : locks[q] \subseteq locks'[q],
           UNCHANGED <<found, sources, triggers, overlapped>>
    PROVE  TypeOK' /\ InFile' /\ Passed' /\ NothingLeft' /\ OneRowPerName' /\ AllOrNothing'
<1> USE SeedAssumption DEF SeedAssumption, IInv
<1>1. pos[r] \in Names /\ Names \subseteq Nat /\ Keys \subseteq Nat
  BY DEF InFile, Names, Keys
<1>2. /\ \/ stage'[r] = "select" /\ pos[r] < NumSources /\ pos'[r] = pos[r] + 1
         \/ stage'[r] = "trigger" /\ pos[r] >= NumSources /\ pos'[r] = 1
      /\ \A q \in Runs \ {r} : stage'[q] = stage[q] /\ pos'[q] = pos[q]
      /\ stage' \in [Runs -> {"new", "select", "write", "trigger", "commit", "done", "failed"}]
      /\ pos' \in [Runs -> Nat]
  BY <1>1 DEF NextSource, Goto, TypeOK, Names
<1>3. TypeOK'
  BY <1>2 DEF TypeOK
<1>4. InFile'
  BY <1>1, <1>2 DEF InFile, Names, Keys
<1>5. \A n \in Names : n <= pos[r] => Has(Seeing(r)', n)
  <2>1. Seeing(r) \subseteq Seeing(r)' /\ Has(Seeing(r)', pos[r])
    BY DEF Seeing
  <2>2. \A n \in Names : n < pos[r] => Has(Seeing(r), n)
    BY DEF Passed
  <2>3. \A n \in Names : n <= pos[r] => n < pos[r] \/ n = pos[r]
    BY <1>1, NatOrder
  <2> QED
    BY <2>1, <2>2, <2>3, MoreRows
<1>6. Passed'
  <2>1. ASSUME NEW q \in Runs, q # r PROVE Seeing(q)' = Seeing(q)
    BY <2>1 DEF Seeing
  <2>2. \A n \in Names : n < pos'[r] /\ stage'[r] = "select" => n <= pos[r]
    <3> SUFFICES ASSUME NEW n \in Names, n < pos'[r], stage'[r] = "select" PROVE n <= pos[r]
      OBVIOUS
    <3>1. pos'[r] = pos[r] + 1 /\ n \in Nat /\ pos[r] \in Nat
      BY <1>1, <1>2
    <3> QED
      BY <3>1
  <2>3. \A n \in Names : stage'[r] = "trigger" => n <= pos[r]
    BY <1>1, <1>2 DEF Names
  <2>4. \A k \in Keys : ~(k < 1)
    BY DEF Keys
  <2> QED
    BY <1>2, <1>5, <2>1, <2>2, <2>3, <2>4 DEF Passed
<1>7. NothingLeft'
  BY <1>2 DEF NothingLeft, Active
<1>8. OneRowPerName' /\ AllOrNothing'
  BY DEF OneRowPerName, AllOrNothing
<1> QED
  BY <1>3, <1>4, <1>6, <1>7, <1>8

\* An INSERT of a name that the run did not find.
LEMMA InsertStep == ASSUME IInv, NEW r \in Runs, InsertSource(r) PROVE IInv'
<1> DEFINE new == <<pos[r], r>>
<1>1. /\ stage[r] = "write" /\ found[r] = None /\ NextSource(r)
      /\ inserted' = [inserted EXCEPT ![r] = @ \cup {new}]
      /\ UNCHANGED <<found, locks, sources, triggers, overlapped>>
  BY DEF InsertSource, At
<1>2. pos[r] \in Names /\ new \in Rows /\ new[1] = pos[r]
  BY <1>1 DEF IInv, InFile, Rows
<1> HIDE DEF new
<1>3. /\ \A q \in Runs : inserted'[q] = IF q = r THEN inserted[r] \cup {new} ELSE inserted[q]
      /\ inserted' \in [Runs -> SUBSET Rows]
  BY <1>1, <1>2 DEF IInv, TypeOK
<1>4. TypeOK' /\ InFile' /\ Passed' /\ NothingLeft' /\ OneRowPerName' /\ AllOrNothing'
  <2>1. Has(sources \cup inserted'[r], pos[r])
    BY <1>2, <1>3 DEF Has
  <2>2. locks' \in [Runs -> SUBSET (({"source"} \X Rows) \cup ({"trigger"} \X Keys))]
    BY <1>1 DEF IInv, TypeOK
  <2> QED
    BY <1>1, <1>3, <2>1, <2>2, NextSourceStep
<1>5. OneByOne'
  <2> SUFFICES ASSUME ~overlapped PROVE OneByOne'
    BY <1>1 DEF OneByOne
  <2>1. \A q \in Runs : stage'[q] = IF q = r THEN stage'[r] ELSE stage[q]
    BY <1>1 DEF NextSource, Goto, IInv, TypeOK
  <2>2. stage'[r] \in {"select", "trigger"} /\ \A q \in Runs \ {r} : pos'[q] = pos[q]
    BY <1>1 DEF NextSource, Goto, IInv, TypeOK
  <2>3. ~Has(Seeing(r), pos[r]) /\ Unique(Seeing(r)) /\ \A q \in Runs : Active(q) => q = r
    BY <1>1 DEF IInv, OneByOne, Active
  <2>4. sources = {}
    BY <1>2, <2>3, Loaded DEF IInv, Seeing, Has
  <2>5. \A q \in Runs : Active(q)' => q = r
    BY <2>1, <2>3 DEF Active
  <2>6. Unique(Seeing(r)')
    BY <1>1, <1>2, <1>3, <2>3 DEF Unique, Seeing, Has
  <2>7. \A q \in Runs \ {r} : Seeing(q)' = {}
    BY <1>1, <1>3, <2>3, <2>4 DEF IInv, NothingLeft, Seeing
  <2>8. \A q \in Runs : Unique(Seeing(q)')
    BY <2>6, <2>7 DEF Unique
  <2>9. \A q \in Runs : stage'[q] # "write"
    BY <2>1, <2>2, <2>5 DEF Active
  <2> QED
    BY <1>1, <2>4, <2>5, <2>8, <2>9 DEF OneByOne
<1> QED
  BY <1>4, <1>5 DEF IInv

\* An UPDATE of the row that the run found.
LEMMA UpdateStep == ASSUME IInv, NEW r \in Runs, UpdateSource(r) PROVE IInv'
<1>1. /\ stage[r] = "write" /\ found[r] # None /\ NextSource(r)
      /\ locks' = [locks EXCEPT ![r] = @ \cup {<<"source", found[r]>>}]
      /\ UNCHANGED <<found, inserted, sources, triggers, overlapped>>
  BY DEF UpdateSource, At, Lock
<1>2. found[r] \in Rows
  BY <1>1 DEF IInv, TypeOK
<1>3. TypeOK' /\ InFile' /\ Passed' /\ NothingLeft' /\ OneRowPerName' /\ AllOrNothing'
  <2>1. Has(sources \cup inserted'[r], pos[r])
    BY <1>1 DEF IInv, Passed, Seeing, Has
  <2>2. /\ locks' \in [Runs -> SUBSET (({"source"} \X Rows) \cup ({"trigger"} \X Keys))]
        /\ \A q \in Runs : locks[q] \subseteq locks'[q]
    BY <1>1, <1>2 DEF IInv, TypeOK
  <2>3. /\ inserted' \in [Runs -> SUBSET Rows]
        /\ \A q \in Runs : inserted'[q] = IF q = r THEN inserted[r] \cup {} ELSE inserted[q]
    BY <1>1 DEF IInv, TypeOK
  <2> QED
    BY <1>1, <2>1, <2>2, <2>3, NextSourceStep
<1>4. OneByOne'
  <2>1. \A q \in Runs : stage'[q] = IF q = r THEN stage'[r] ELSE stage[q]
    BY <1>1 DEF NextSource, Goto, IInv, TypeOK
  <2>2. stage'[r] \in {"select", "trigger"} /\ \A q \in Runs \ {r} : pos'[q] = pos[q]
    BY <1>1 DEF NextSource, Goto, IInv, TypeOK
  <2> QED
    BY <1>1, <2>1, <2>2 DEF IInv, OneByOne, Active, Seeing
<1> QED
  BY <1>3, <1>4 DEF IInv

\* A SELECT that finds nothing or one row.
LEMMA SelectStep == ASSUME IInv, NEW r \in Runs, Select(r) PROVE IInv'
<1>1. /\ stage[r] = "select" /\ stage' = [stage EXCEPT ![r] = "write"]
      /\ UNCHANGED <<pos, inserted, locks, sources, triggers, overlapped>>
  BY DEF Select, At, Goto
<1>2. /\ \A q \in Runs : stage'[q] = IF q = r THEN "write" ELSE stage[q]
      /\ \A q \in Runs \ {r} : found'[q] = found[q]
      /\ found' \in [Runs -> Rows \cup {None}]
      /\ \/ found'[r] = None /\ Visible(r) = {}
         \/ found'[r] \in Visible(r)
  BY <1>1 DEF Select, IInv, TypeOK, Visible
<1>3. /\ found'[r] # None => found'[r] \in Seeing(r) /\ found'[r][1] = pos[r]
      /\ found'[r] = None => ~Has(Seeing(r), pos[r])
  BY <1>2, NoneIsNoRow DEF Visible, Seeing, Has, IInv, TypeOK
<1>4. TypeOK'
  BY <1>1, <1>2 DEF IInv, TypeOK
<1>5. InFile' /\ NothingLeft'
  BY <1>1, <1>2 DEF IInv, InFile, NothingLeft, Active
<1>7. Passed'
  <2>1. \A q \in Runs : Seeing(q)' = Seeing(q)
    BY <1>1 DEF Seeing
  <2>2. \A n \in Names : n < pos'[r] => Has(Seeing(r)', n)
    BY <1>1, <2>1 DEF IInv, Passed
  <2>3. found'[r] # None => found'[r] \in Seeing(r)' /\ found'[r][1] = pos'[r]
    BY <1>1, <1>3, <2>1
  <2> QED
    BY <1>1, <1>2, <2>1, <2>2, <2>3 DEF IInv, Passed
<1>6. OneByOne' /\ OneRowPerName' /\ AllOrNothing'
  BY <1>1, <1>2, <1>3 DEF IInv, OneByOne, OneRowPerName, AllOrNothing, Active, Seeing
<1> QED
  BY <1>4, <1>5, <1>6, <1>7 DEF IInv

\* An upsert locks the key of the run's position.
LEMMA UpsertStep == ASSUME IInv, NEW r \in Runs, UpsertTrigger(r) PROVE IInv'
<1> USE SeedAssumption DEF SeedAssumption
<1>1. /\ stage[r] = "trigger"
      /\ locks' = [locks EXCEPT ![r] = @ \cup {<<"trigger", pos[r]>>}]
      /\ UNCHANGED <<found, inserted, sources, triggers, overlapped>>
      /\ \/ pos[r] < NumTriggers /\ pos' = [pos EXCEPT ![r] = @ + 1] /\ UNCHANGED stage
         \/ pos[r] >= NumTriggers /\ stage' = [stage EXCEPT ![r] = "commit"] /\ UNCHANGED pos
  BY DEF UpsertTrigger, At, Lock, TriggerAt, Goto, IInv, TypeOK
<1>2. pos[r] \in Keys /\ Keys \subseteq Nat
  BY <1>1 DEF IInv, InFile, Keys
<1>3. TypeOK'
  BY <1>1, <1>2 DEF IInv, TypeOK
<1>4. InFile'
  BY <1>1, <1>2 DEF IInv, TypeOK, InFile, Keys
<1>5. \A q \in Runs : locks'[q] = IF q = r THEN locks[r] \cup {<<"trigger", pos[r]>>} ELSE locks[q]
  BY <1>1 DEF IInv, TypeOK
<1>6. \A k \in Keys : k <= pos[r] => <<"trigger", k>> \in locks'[r]
  <2>1. \A k \in Keys : k <= pos[r] => k < pos[r] \/ k = pos[r]
    BY <1>2, NatOrder
  <2>2. \A k \in Keys : k < pos[r] => <<"trigger", k>> \in locks[r]
    BY <1>1 DEF IInv, Passed
  <2> QED
    BY <1>5, <2>1, <2>2
<1>7. Passed'
  <2>1. \A q \in Runs : Seeing(q)' = Seeing(q)
    BY <1>1 DEF Seeing
  <2>2. \A q \in Runs \ {r} : stage'[q] = stage[q] /\ pos'[q] = pos[q] /\ locks'[q] = locks[q]
    BY <1>1, <1>5 DEF IInv, TypeOK
  <2>3. \/ stage'[r] = "trigger" /\ \A k \in Keys : k < pos'[r] => k <= pos[r]
        \/ stage'[r] = "commit" /\ \A k \in Keys : k <= pos[r]
    BY <1>1, <1>2 DEF IInv, TypeOK, Keys
  <2> QED
    BY <1>1, <1>6, <2>1, <2>2, <2>3 DEF IInv, Passed
<1>8. NothingLeft' /\ OneByOne' /\ OneRowPerName' /\ AllOrNothing'
  BY <1>1 DEF IInv, TypeOK, NothingLeft, OneByOne, OneRowPerName, AllOrNothing, Active, Seeing
<1> QED
  BY <1>3, <1>4, <1>7, <1>8 DEF IInv

\* A COMMIT makes the run's rows and keys, which are all of them, visible.
LEMMA CommitStep == ASSUME IInv, NEW r \in Runs, Commit(r) PROVE IInv'
<1>1. /\ stage[r] = "commit" /\ sources' = Seeing(r)
      /\ stage' = [stage EXCEPT ![r] = "done"]
      /\ locks' = [locks EXCEPT ![r] = {}] /\ inserted' = [inserted EXCEPT ![r] = {}]
      /\ UNCHANGED <<pos, found, overlapped>>
  BY DEF Commit, At, Goto, Seeing
<1>2. triggers' = Keys
  BY <1>1 DEF Commit, IInv, TypeOK, Passed
<1>3. /\ \A q \in Runs : stage'[q] = IF q = r THEN "done" ELSE stage[q]
      /\ \A q \in Runs : inserted'[q] = IF q = r THEN {} ELSE inserted[q]
      /\ \A q \in Runs : locks'[q] = IF q = r THEN {} ELSE locks[q]
      /\ Seeing(r) \subseteq Rows
  BY <1>1 DEF IInv, TypeOK, Seeing
<1>4. TypeOK'
  BY <1>1, <1>2, <1>3 DEF IInv, TypeOK
<1>5. InFile' /\ NothingLeft'
  BY <1>1, <1>3 DEF IInv, InFile, NothingLeft, Active
<1>6. Passed'
  <2>1. \A q \in Runs \ {r} : Seeing(q) \subseteq Seeing(q)'
    BY <1>1, <1>3 DEF Seeing
  <2>2. \A q \in Runs \ {r}, n \in Names : Has(Seeing(q), n) => Has(Seeing(q)', n)
    BY <2>1 DEF Has
  <2> QED
    BY <1>1, <1>3, <2>1, <2>2 DEF IInv, Passed
<1>7. AllOrNothing'
  <2>1. \A n \in Names : Has(sources', n)
    BY <1>1 DEF IInv, Passed
  <2>2. \A x \in sources' : x[1] \in Names
    BY <1>1, <1>3 DEF Rows
  <2> QED
    BY <1>2, <2>1, <2>2 DEF AllOrNothing, Has
<1>8. OneByOne' /\ OneRowPerName'
  <2> SUFFICES ASSUME ~overlapped PROVE OneByOne' /\ OneRowPerName'
    BY <1>1 DEF OneByOne, OneRowPerName
  <2>1. \A q \in Runs : Active(q) => q = r
    BY <1>1 DEF IInv, OneByOne, Active
  <2>2. \A q \in Runs : ~Active(q)' /\ inserted'[q] = {}
    BY <1>3, <2>1 DEF IInv, NothingLeft, Active
  <2>3. \A q \in Runs : Seeing(q)' = Seeing(r)
    BY <1>1, <2>2 DEF Seeing
  <2>4. Unique(Seeing(r))
    BY DEF IInv, OneByOne
  <2> QED
    BY <1>1, <2>2, <2>3, <2>4 DEF OneByOne, OneRowPerName, Active, Unique
<1> QED
  BY <1>4, <1>5, <1>6, <1>7, <1>8 DEF IInv

\* The first step of a run, which notes whether it met another.
LEMMA BeginStep == ASSUME IInv, NEW r \in Runs, Begin(r) PROVE IInv'
<1>1. /\ stage[r] = "new" /\ stage' = [stage EXCEPT ![r] = "select"]
      /\ overlapped' = (overlapped \/ \E q \in Runs : Active(q))
      /\ UNCHANGED <<pos, found, inserted, locks, sources, triggers>>
  BY DEF Begin, At, Goto
<1>2. \A q \in Runs : stage'[q] = IF q = r THEN "select" ELSE stage[q]
  BY <1>1 DEF IInv, TypeOK
<1>3. TypeOK' /\ InFile' /\ NothingLeft'
  BY <1>1, <1>2 DEF IInv, TypeOK, InFile, NothingLeft, Active
<1>4. Passed'
  <2>1. \A q \in Runs : Seeing(q)' = Seeing(q)
    BY <1>1 DEF Seeing
  <2>2. pos[r] = 1 /\ \A n \in Names : ~(n < 1)
    BY <1>1 DEF IInv, Passed, Names
  <2> QED
    BY <1>1, <1>2, <2>1, <2>2 DEF IInv, Passed
<1>5. OneByOne'
  <2> SUFFICES ASSUME ~overlapped' PROVE OneByOne'
    BY DEF OneByOne
  <2>1. ~overlapped /\ \A q \in Runs : ~Active(q)
    BY <1>1
  <2>2. \A q \in Runs : (Active(q)' => q = r) /\ Seeing(q)' = Seeing(q) /\ stage'[q] # "write"
    BY <1>1, <1>2, <2>1 DEF Active, Seeing
  <2> QED
    BY <1>1, <2>1, <2>2 DEF IInv, OneByOne
<1>6. OneRowPerName' /\ AllOrNothing'
  BY <1>1 DEF IInv, OneRowPerName, AllOrNothing
<1> QED
  BY <1>3, <1>4, <1>5, <1>6 DEF IInv

LEMMA IInvStep == IInv /\ [Next]_vars => IInv'
<1> SUFFICES ASSUME IInv, [Next]_vars PROVE IInv'
  OBVIOUS
<1>1. ASSUME NEW r \in Runs, Begin(r) PROVE IInv'
  BY <1>1, BeginStep
<1>2. ASSUME NEW r \in Runs, SelectAmbiguous(r) \/ Fail(r) PROVE IInv'
  BY <1>2, RollbackStep DEF SelectAmbiguous, Fail, Active, At
<1>3. ASSUME NEW r \in Runs,
             Select(r) \/ InsertSource(r) \/ UpdateSource(r) \/ UpsertTrigger(r) \/ Commit(r)
      PROVE  IInv'
  BY <1>3, SelectStep, InsertStep, UpdateStep, UpsertStep, CommitStep
<1>4. CASE UNCHANGED vars
  BY <1>4 DEF vars, IInv, TypeOK, InFile, Passed, NothingLeft, OneByOne, OneRowPerName,
     AllOrNothing, Active, Seeing
<1> QED
  BY <1>1, <1>2, <1>3, <1>4 DEF Next, Step, Rest

LEMMA Invariance == Spec => []IInv
  BY InitIInv, IInvStep, PTL DEF Spec

-----------------------------------------------------------------------------
\* However many executions failed before, and wherever: without an overlap no
\* username has two rows.
THEOREM NoDuplicateName == Spec => []OneRowPerName
  BY Invariance, PTL DEF IInv

\* What is committed is the whole of both files, also when executions overlap.
THEOREM CompleteOrEmpty == Spec => []AllOrNothing
  BY Invariance, PTL DEF IInv

\* A loaded table is left as it is by every execution that meets no other.
THEOREM RerunIsIdempotent == Spec => RerunInsertsNothing
<1>1. IInv /\ [Next]_vars => [sources # {} /\ ~overlapped' => sources' = sources]_vars
  <2> SUFFICES ASSUME IInv, [Next]_vars, sources # {}, ~overlapped' PROVE sources' = sources
    OBVIOUS
  <2>1. ASSUME NEW r \in Runs, Commit(r) PROVE sources' = sources
    BY <2>1 DEF Commit, IInv, OneByOne
  <2>2. ASSUME NEW r \in Runs, ~Commit(r), Begin(r) \/ Step(r) \/ Fail(r) PROVE sources' = sources
    BY <2>2 DEF Begin, Step, Fail, Select, SelectAmbiguous, Rollback, InsertSource,
       UpdateSource, UpsertTrigger
  <2> QED
    BY <2>1, <2>2 DEF Next, Rest, vars
<1> QED
  BY <1>1, Invariance, PTL DEF Spec, RerunInsertsNothing

-----------------------------------------------------------------------------
(* Executions that overlap wait in one direction *)

\* How far an execution has come in the two files.
Ahead(r) ==
    IF stage[r] \in {"select", "write"} THEN pos[r]
    ELSE IF stage[r] = "trigger" THEN NumSources + pos[r]
    ELSE NumSources + NumTriggers + 1

\* The next statement of r needs what q has locked.
WaitsFor(r, q) ==
    /\ q # r
    /\ \/ stage[r] = "write" /\ found[r] # None /\ <<"source", found[r]>> \in locks[q]
       \/ stage[r] = "trigger" /\ <<"trigger", TriggerAt(r, pos[r])>> \in locks[q]

WaitsForward == \A r, q \in Runs : WaitsFor(r, q) => Ahead(r) < Ahead(q)

\* What an execution has locked lies behind it, and a finished one has nothing.
LocksBehind ==
    \A q \in Runs :
        /\ \A y \in Rows : <<"source", y>> \in locks[q] => y[1] < Ahead(q)
        /\ \A k \in Keys : <<"trigger", k>> \in locks[q] => NumSources + k < Ahead(q)
        /\ ~Active(q) => locks[q] = {}

LEMMA InitLocks == Init => LocksBehind
  BY DEF Init, LocksBehind

\* What r alone changes; its locks grow, if at all, by one that it passes.
LEMMA LocksGrow ==
    ASSUME LocksBehind, NEW r \in Runs, Ahead(r)' \in Nat, Ahead(r) \in Nat,
           Ahead(r) <= Ahead(r)', Active(r)',
           \A q \in Runs \ {r} : stage'[q] = stage[q] /\ pos'[q] = pos[q] /\ locks'[q] = locks[q],
           \A y \in Rows : <<"source", y>> \in locks'[r] =>
               <<"source", y>> \in locks[r] \/ y[1] < Ahead(r)',
           \A k \in Keys : <<"trigger", k>> \in locks'[r] =>
               <<"trigger", k>> \in locks[r] \/ NumSources + k < Ahead(r)'
    PROVE  LocksBehind'
<1>1. \A q \in Runs \ {r} : Ahead(q)' = Ahead(q) /\ (Active(q)' <=> Active(q))
  BY DEF Ahead, Active
<1>2. \A y \in Rows : y[1] \in Nat
  BY DEF Rows, Names
<1>3. \A k \in Keys : NumSources + k \in Nat
  BY SeedAssumption DEF SeedAssumption, Keys
<1>4. \A y \in Rows : <<"source", y>> \in locks'[r] => y[1] < Ahead(r)'
  BY <1>2 DEF LocksBehind
<1>5. \A k \in Keys : <<"trigger", k>> \in locks'[r] => NumSources + k < Ahead(r)'
  BY <1>3 DEF LocksBehind
<1> QED
  BY <1>1, <1>4, <1>5 DEF LocksBehind

LEMMA LocksStep == IInv /\ IInv' /\ LocksBehind /\ [Next]_vars => LocksBehind'
<1> SUFFICES ASSUME IInv, IInv', LocksBehind, [Next]_vars PROVE LocksBehind'
  OBVIOUS
<1>1. /\ NumSources \in Nat /\ NumTriggers \in Nat
      /\ \A r \in Runs : pos[r] \in Nat /\ Ahead(r) \in Nat /\ Ahead(r)' \in Nat
  BY SeedAssumption DEF SeedAssumption, IInv, TypeOK, Ahead
<1>2. \A r \in Runs : /\ stage[r] \in {"new", "select", "write"} => pos[r] \in 1..NumSources
                      /\ stage[r] = "trigger" => pos[r] \in 1..NumTriggers
  BY DEF IInv, InFile, Names, Keys
<1>3. ASSUME NEW r \in Runs, Begin(r) PROVE LocksBehind'
  <2>1. /\ stage' = [stage EXCEPT ![r] = "select"] /\ UNCHANGED <<pos, locks>> /\ locks[r] = {}
    BY <1>3 DEF Begin, At, Goto, LocksBehind, Active
  <2>2. \A q \in Runs \ {r} : stage'[q] = stage[q] /\ Ahead(q)' = Ahead(q)
    BY <2>1 DEF IInv, TypeOK, Ahead
  <2>3. stage'[r] = "select"
    BY <2>1 DEF IInv, TypeOK
  <2> QED
    BY <2>1, <2>2, <2>3 DEF LocksBehind, Active
<1>4. ASSUME NEW r \in Runs, Select(r) PROVE LocksBehind'
  <2>1. /\ stage[r] = "select" /\ stage' = [stage EXCEPT ![r] = "write"] /\ UNCHANGED <<pos, locks>>
    BY <1>4 DEF Select, At, Goto
  <2>2. \A q \in Runs : Ahead(q)' = Ahead(q) /\ (Active(q)' <=> Active(q))
    BY <2>1 DEF IInv, TypeOK, Ahead, Active
  <2> QED
    BY <2>1, <2>2 DEF LocksBehind
<1>5. ASSUME NEW r \in Runs, Rollback(r) \/ Commit(r) PROVE LocksBehind'
  <2>1. /\ stage' \in {[stage EXCEPT ![r] = "failed"], [stage EXCEPT ![r] = "done"]}
        /\ pos' = pos /\ locks' = [locks EXCEPT ![r] = {}]
    BY <1>5 DEF Rollback, Commit, Goto
  <2>2. \A q \in Runs \ {r} : stage'[q] = stage[q] /\ Ahead(q)' = Ahead(q) /\ locks'[q] = locks[q]
    BY <2>1 DEF IInv, TypeOK, Ahead
  <2>3. locks'[r] = {}
    BY <2>1 DEF IInv, TypeOK
  <2> QED
    BY <2>2, <2>3 DEF LocksBehind, Active
<1>6. ASSUME NEW r \in Runs, At(r, "write"), NextSource(r)
      PROVE  /\ Ahead(r)' > pos[r] /\ Ahead(r) = pos[r] /\ Active(r)'
             /\ \A q \in Runs \ {r} : stage'[q] = stage[q] /\ pos'[q] = pos[q]
  <2>1. \/ stage'[r] = "select" /\ pos'[r] = pos[r] + 1
        \/ stage'[r] = "trigger" /\ pos'[r] = 1
    BY <1>6 DEF NextSource, Goto, IInv, TypeOK
  <2>2. pos[r] \in 1..NumSources /\ Ahead(r) = pos[r] /\ Active(r)'
    BY <1>2, <1>6, <2>1 DEF At, Ahead, Active
  <2>3. Ahead(r)' > pos[r]
    BY <1>1, <2>1, <2>2 DEF Ahead
  <2> QED
    BY <1>6, <2>2, <2>3 DEF NextSource, Goto, IInv, TypeOK
<1>7. ASSUME NEW r \in Runs, InsertSource(r) PROVE LocksBehind'
  <2>1. At(r, "write") /\ NextSource(r) /\ locks' = locks
    BY <1>7 DEF InsertSource
  <2> QED
    BY <1>1, <1>6, <2>1, LocksGrow
<1>8. ASSUME NEW r \in Runs, UpdateSource(r) PROVE LocksBehind'
  <2>1. /\ At(r, "write") /\ NextSource(r) /\ found[r] # None
        /\ locks' = [locks EXCEPT ![r] = @ \cup {<<"source", found[r]>>}]
    BY <1>8 DEF UpdateSource, Lock
  <2>2. found[r][1] = pos[r]
    BY <2>1 DEF At, IInv, Passed
  <2>3. /\ \A q \in Runs \ {r} : locks'[q] = locks[q]
        /\ locks'[r] = locks[r] \cup {<<"source", found[r]>>}
    BY <2>1 DEF IInv, TypeOK
  <2>4. /\ Ahead(r)' > pos[r] /\ Ahead(r) = pos[r] /\ Active(r)'
        /\ \A q \in Runs \ {r} : stage'[q] = stage[q] /\ pos'[q] = pos[q]
    BY <1>6, <2>1
  <2>5. \A y \in Rows : <<"source", y>> \in locks'[r] =>
            <<"source", y>> \in locks[r] \/ y[1] < Ahead(r)'
    BY <1>1, <2>2, <2>3, <2>4
  <2>6. \A k \in Keys : <<"trigger", k>> \in locks'[r] => <<"trigger", k>> \in locks[r]
    BY <2>3
  <2> QED
    BY <1>1, <2>3, <2>4, <2>5, <2>6, LocksGrow
<1>9. ASSUME NEW r \in Runs, UpsertTrigger(r) PROVE LocksBehind'
  <2>1. /\ stage[r] = "trigger"
        /\ locks' = [locks EXCEPT ![r] = @ \cup {<<"trigger", pos[r]>>}]
        /\ \/ pos' = [pos EXCEPT ![r] = @ + 1] /\ stage' = stage
           \/ stage' = [stage EXCEPT ![r] = "commit"] /\ pos' = pos
    BY <1>9 DEF UpsertTrigger, At, Goto, Lock, TriggerAt
  <2>2. /\ \A q \in Runs \ {r} : stage'[q] = stage[q] /\ pos'[q] = pos[q] /\ locks'[q] = locks[q]
        /\ locks'[r] = locks[r] \cup {<<"trigger", pos[r]>>}
        /\ \/ pos'[r] = pos[r] + 1 /\ stage'[r] = "trigger"
           \/ stage'[r] = "commit"
    BY <2>1 DEF IInv, TypeOK
  <2>3. pos[r] \in 1..NumTriggers /\ Ahead(r) = NumSources + pos[r] /\ Active(r)'
    BY <1>2, <2>1, <2>2 DEF Ahead, Active
  <2>4. Ahead(r)' > NumSources + pos[r]
    BY <1>1, <2>2, <2>3 DEF Ahead
  <2>5. \A k \in Keys : <<"trigger", k>> \in locks'[r] =>
            <<"trigger", k>> \in locks[r] \/ NumSources + k < Ahead(r)'
    BY <1>1, <2>2, <2>3, <2>4
  <2>6. \A y \in Rows : <<"source", y>> \in locks'[r] => <<"source", y>> \in locks[r]
    BY <2>2
  <2> QED
    BY <1>1, <2>2, <2>3, <2>4, <2>5, <2>6, LocksGrow
<1>10. CASE UNCHANGED vars
  BY <1>10 DEF vars, LocksBehind, Ahead, Active
<1> QED
  BY <1>3, <1>4, <1>5, <1>7, <1>8, <1>9, <1>10 DEF Next, Step, Rest, SelectAmbiguous, Fail

\* An execution waits only for one that is further in the files, so that no
\* number of overlapping executions can wait in a circle (seed.py goes through
\* both files in their order; PostgreSQL keeps the locks until the COMMIT).
THEOREM WaitsAreOrdered == Spec => []WaitsForward
<1>1. Spec => []LocksBehind
  BY InitLocks, LocksStep, Invariance, PTL DEF Spec
<1>2. IInv /\ LocksBehind => WaitsForward
  <2> SUFFICES ASSUME IInv, LocksBehind, NEW r \in Runs, NEW q \in Runs, WaitsFor(r, q)
               PROVE  Ahead(r) < Ahead(q)
    BY DEF WaitsForward
  <2>1. CASE stage[r] = "write" /\ found[r] # None /\ <<"source", found[r]>> \in locks[q]
    BY <2>1 DEF LocksBehind, Ahead, IInv, TypeOK, Passed
  <2>2. CASE stage[r] = "trigger" /\ <<"trigger", pos[r]>> \in locks[q]
    BY <2>2 DEF LocksBehind, Ahead, IInv, InFile
  <2> QED
    BY <2>1, <2>2 DEF WaitsFor, TriggerAt
<1> QED
  BY <1>1, <1>2, Invariance, PTL
=============================================================================
