-------------------------- MODULE MigrationsProofs --------------------------
(***************************************************************************)
(* Alembic commands and the programs beside them, for any number of        *)
(* connections and transactions: the tables are always those of a          *)
(* revision, and what raced is either serial or failed.                    *)
(*                                                                         *)
(* The argument: a transaction that has altered a table keeps it locked,   *)
(* so the committed shape of the table stays what the plan started from;   *)
(* the last statement of each revision alters alembic_version.             *)
(***************************************************************************)
EXTENDS Migrations, TLAPS

Shapes == [Tables -> 0..2]

StatementsOver(F, N) ==
    [on : Tables, from : F, to : N, mode : {"exclusive", "shared"},
     rows : {"any", "not null", "insert", "resolve"}]
Statement == StatementsOver(SUBSET (0..2), 0..2)
Jobs   == Upgrades \cup Downgrades \cup Writers

\* The revision that a command which found v leads to.
Target(command, v) ==
    IF command \in Upgrades THEN 2
    ELSE IF command = "base" THEN 0
    ELSE IF command = "-1" THEN v - 1 ELSE v

\* What a statement makes of shapes x.
After(x, s) == [t \in Tables |-> IF s.mode = "exclusive" /\ t = s.on THEN s.to ELSE x[t]]

\* The statements q, in their order, lead from shapes x to shapes y, each one
\* that alters a table finding it as the one before left it.
Leads(q, x, y) ==
    \E h \in [1..(Len(q) + 1) -> Shapes] :
        /\ h[1] = x /\ h[Len(q) + 1] = y
        /\ \A i \in 1..Len(q) :
              /\ h[i + 1] = After(h[i], q[i])
              /\ q[i].mode = "exclusive" => q[i].from = {h[i][q[i].on]}

\* A statement creates its table or needs it; no shared one creates, or touches
\* alembic_version; and chat_id gets its NOT NULL back by a check of the rows.
Sound(s) ==
    /\ 0 \in s.from => s.from = {0}
    /\ s.mode = "shared" => 0 \notin s.from /\ s.on # "alembic_version"
    /\ s.mode = "exclusive" /\ s.on = "telegram_sources" /\ s.to # 2 /\ 2 \in s.from =>
          s.rows = "not null"

\* The least revision a writer can work with.
Least(command) == IF command = "seed" THEN 2 ELSE 1

\* The statements of a job that found revision v.  Those of a writer find what
\* they need in every schema from the least on; an upgrade only alters tables,
\* from revision 1 on just the two that revision 0002 is about.
StatementsOf(command, v) ==
    {s \in Statement :
        /\ Sound(s)
        /\ command \in Writers =>
              /\ s.mode = "shared" /\ s.rows # "not null"
              /\ \A u \in Least(command)..2 : AtRevision(u)[s.on] \in s.from
        /\ command \in Upgrades =>
              /\ s.mode = "exclusive" /\ s.rows = "any"
              /\ v = 1 => s.on \in {"telegram_sources", "alembic_version"}}

\* alembic_version comes last.
StampLast(q) == \A i \in 1..Len(q) : q[i].on = "alembic_version" => i = Len(q)

-----------------------------------------------------------------------------
(* The inductive invariant *)

Command(a) == job[a].command
Found(a)   == job[a].revision

TypeOK ==
    /\ schema \in Shapes
    /\ state \in [Actors -> {"idle", "running", "done", "failed", "victim"}]
    /\ job \in [Actors -> [command : Jobs \cup {"none"}, revision : 0..2, run : Nat]]
    /\ todo \in [Actors -> Seq(Statement)]
    /\ draft = [a \in Actors |-> draft[a]]
    /\ \A a \in Actors : DOMAIN draft[a] \subseteq Tables /\ \A t \in DOMAIN draft[a] : draft[a][t] \in 0..2
    /\ shares \in [Actors -> SUBSET Tables] /\ resolved \in [Actors -> SUBSET Nat]
    /\ nulls \subseteq Nat /\ runs \in Nat /\ downgraded \in BOOLEAN /\ faults \in Nat

\* The database as a transaction would leave it now, had nobody else changed it.
Planned(a) == [t \in Tables |-> IF t \in DOMAIN draft[a] THEN draft[a][t] ELSE AtRevision(Found(a))[t]]

\* What a transaction has done and has still to do leads from the revision it
\* found to the revision it wants.
OnPlan ==
    \A a \in Actors : Running(a) =>
        /\ Command(a) \in Jobs /\ Target(Command(a), Found(a)) \in 0..2
        /\ todo[a] \in Seq(StatementsOf(Command(a), Found(a)))
        /\ Leads(todo[a], Planned(a), AtRevision(Target(Command(a), Found(a))))

\* A transaction that is over holds nothing.
AtRest == \A a \in Actors : ~Running(a) => todo[a] = <<>> /\ DOMAIN draft[a] = {} /\ shares[a] = {}

\* What one transaction holds exclusively no other one holds.
Locked ==
    \A a, b \in Actors : a # b => DOMAIN draft[a] \cap (DOMAIN draft[b] \cup shares[b]) = {}

\* A writer alters no table.
WriterHolds == \A a \in Actors : Command(a) \in Writers => DOMAIN draft[a] = {}

\* So the committed shape of a table that it altered is still the one it found.
HeldUnchanged ==
    \A a \in Actors : \A t \in DOMAIN draft[a] : schema[t] = AtRevision(Found(a))[t]

\* A seed that has inserted keeps chat_id nullable; one that takes the NULLs
\* away has seen that there are none, and keeps the seeds out.
SeedHolds ==
    \A a \in Actors : Running(a) /\ Command(a) = "seed" =>
        \/ "telegram_sources" \in shares[a] /\ schema["telegram_sources"] = 2
        \/ todo[a] # <<>> /\ Head(todo[a]) = Shared("telegram_sources", {2}, "insert")
NullsGone ==
    \A a \in Actors : "telegram_sources" \in DOMAIN draft[a] /\ draft[a]["telegram_sources"] # 2 =>
        nulls = {}

IInv == /\ TypeOK /\ OnPlan /\ AtRest /\ Locked /\ WriterHolds /\ HeldUnchanged
        /\ SeedHolds /\ NullsGone /\ VersionMatchesSchema /\ NullsOnlyWhereAllowed

\* For the order of the locks.  An upgrade takes telegram_sources first; the one
\* from 0001 has then only to stamp.
UpgradeHolds ==
    \A a \in Actors : Running(a) /\ Command(a) \in Upgrades =>
        /\ shares[a] = {}
        /\ DOMAIN draft[a] = {} => todo[a] = Program(Command(a), Found(a))
        /\ DOMAIN draft[a] # {} =>
              /\ "telegram_sources" \in DOMAIN draft[a]
              /\ Found(a) = 1 => todo[a] \in {<< Stamp(1, 2) >>, <<>>}

\* A command that is where it wants to be alters nothing.
NothingToDo ==
    \A a \in Actors : Running(a) /\ Program(Command(a), Found(a)) = <<>> =>
        todo[a] = <<>> /\ DOMAIN draft[a] = {}

\* What found 0001 and holds alembic_version has come to its end.
StampEnds ==
    \A a \in Actors : Running(a) /\ Found(a) = 1 =>
        /\ StampLast(todo[a])
        /\ "alembic_version" \in DOMAIN draft[a] => todo[a] = <<>>

\* A lock on a row keeps the row's table.
SharedThere ==
    \A a \in Actors : \A t \in shares[a] :
        t # "alembic_version" /\ (t \in DOMAIN draft[a] \/ schema[t] # 0)

\* Without downgrades a transaction sees no older schema than it began on.
Upward ==
    ~downgraded => \A a \in Actors : Running(a) =>
        Command(a) \notin Downgrades /\ Found(a) <= schema["alembic_version"]

Order == UpgradeHolds /\ NothingToDo /\ StampEnds /\ SharedThere /\ Upward

-----------------------------------------------------------------------------
(* Lists of statements *)

LEMMA AtRevisionShapes ==
    /\ \A v \in 0..2 : /\ AtRevision(v) \in Shapes
                       /\ AtRevision(v)["alembic_version"] = v
                       /\ AtRevision(v)["telegram_sources"] = v
  BY DEF AtRevision, Shapes, Tables

LEMMA MoreStatements == ASSUME NEW S, NEW T, S \subseteq T, NEW q \in Seq(S) PROVE q \in Seq(T)
  OBVIOUS

LEMMA ThreeOf ==
    ASSUME NEW S, NEW a \in S, NEW b \in S, NEW d \in S PROVE <<a, b, d>> \in Seq(S)
  OBVIOUS

LEMMA TailOf ==
    ASSUME NEW q \in Seq(Statement), q # <<>>
    PROVE  /\ Tail(q) \in Seq(Statement) /\ Head(q) = q[1] /\ Head(q) \in Statement
           /\ Len(q) \in Nat \ {0} /\ Len(Tail(q)) = Len(q) - 1
           /\ \A i \in 1..Len(Tail(q)) : Tail(q)[i] = q[i + 1]
  OBVIOUS

LEMMA TailOfTwo == \A x, y : Tail(<<x, y>>) = <<y>> /\ Tail(<<y>>) = <<>>
  OBVIOUS

\* What comes after alembic_version.
LEMMA StampTail ==
    ASSUME NEW q \in Seq(Statement), q # <<>>, StampLast(q)
    PROVE  /\ StampLast(Tail(q))
           /\ Head(q).on = "alembic_version" => Tail(q) = <<>>
<1>1. /\ Tail(q) \in Seq(Statement) /\ Head(q) = q[1]
      /\ Len(q) \in Nat \ {0} /\ Len(Tail(q)) = Len(q) - 1
      /\ \A i \in 1..Len(Tail(q)) : Tail(q)[i] = q[i + 1]
  BY TailOf
<1>2. PICK n \in Nat : n = Len(q)
  BY <1>1
<1>3. Len(Tail(q)) = n - 1
  BY <1>2, <1>1
<1>4. StampLast(Tail(q))
  <2> SUFFICES ASSUME NEW i \in 1..Len(Tail(q)), Tail(q)[i].on = "alembic_version"
               PROVE  i = Len(Tail(q))
    BY DEF StampLast
  <2>1. i + 1 \in 1..Len(q) /\ q[i + 1].on = "alembic_version"
    BY <1>1
  <2>2. i + 1 = Len(q)
    BY <2>1 DEF StampLast
  <2> QED
    BY <1>2, <1>3, <2>2, SMT
<1>5. ASSUME Head(q).on = "alembic_version" PROVE Len(Tail(q)) = 0
  <2>1. 1 \in 1..Len(q) /\ q[1].on = "alembic_version"
    BY <1>1, <1>5
  <2>2. 1 = Len(q)
    BY <2>1 DEF StampLast
  <2>3. n = 1
    BY <1>2, <2>2
  <2>4. n - 1 = 0
    BY <2>3
  <2> QED
    BY <1>3, <2>4, Zenon
<1> QED
  BY <1>1, <1>4, <1>5

\* The first statement of a list that leads somewhere, and the rest of it.
LEMMA LeadsStep ==
    ASSUME NEW q \in Seq(Statement), q # <<>>, NEW x, NEW y, Leads(q, x, y)
    PROVE  /\ Leads(Tail(q), After(x, Head(q)), y)
           /\ Head(q).mode = "exclusive" => Head(q).from = {x[Head(q).on]}
<1>1. PICK h \in [1..(Len(q) + 1) -> Shapes] :
        /\ h[1] = x /\ h[Len(q) + 1] = y
        /\ \A i \in 1..Len(q) :
              /\ h[i + 1] = After(h[i], q[i])
              /\ q[i].mode = "exclusive" => q[i].from = {h[i][q[i].on]}
  BY DEF Leads
<1>2. /\ Head(q) = q[1] /\ Len(q) \in Nat \ {0} /\ Len(Tail(q)) = Len(q) - 1
      /\ \A i \in 1..Len(Tail(q)) : Tail(q)[i] = q[i + 1]
  BY TailOf
<1> DEFINE g == [i \in 1..(Len(Tail(q)) + 1) |-> h[i + 1]]
<1>3. \A i \in 1..(Len(Tail(q)) + 1) : i + 1 \in 1..(Len(q) + 1)
  BY <1>2
<1>4. g \in [1..(Len(Tail(q)) + 1) -> Shapes]
  BY <1>3
<1>5. g[1] = After(x, Head(q)) /\ g[Len(Tail(q)) + 1] = y
  BY <1>1, <1>2
<1>6. \A i \in 1..Len(Tail(q)) :
        /\ g[i + 1] = After(g[i], Tail(q)[i])
        /\ Tail(q)[i].mode = "exclusive" => Tail(q)[i].from = {g[i][Tail(q)[i].on]}
  <2> SUFFICES ASSUME NEW i \in 1..Len(Tail(q))
               PROVE  /\ g[i + 1] = After(g[i], Tail(q)[i])
                      /\ Tail(q)[i].mode = "exclusive" =>
                             Tail(q)[i].from = {g[i][Tail(q)[i].on]}
    OBVIOUS
  <2>1. /\ i + 1 \in 1..Len(q) /\ i \in 1..(Len(Tail(q)) + 1) /\ i + 1 \in 1..(Len(Tail(q)) + 1)
        /\ Tail(q)[i] = q[i + 1]
    BY <1>2
  <2>2. g[i] = h[i + 1] /\ g[i + 1] = h[(i + 1) + 1]
    BY <2>1
  <2> HIDE DEF g
  <2> QED
    BY <1>1, <2>1, <2>2
<1>7. Leads(Tail(q), After(x, Head(q)), y)
  <2> HIDE DEF g
  <2> QED
    BY <1>4, <1>5, <1>6 DEF Leads
<1>8. Head(q).mode = "exclusive" => Head(q).from = {x[Head(q).on]}
  BY <1>1, <1>2
<1> QED
  BY <1>7, <1>8

\* A list without statements leads nowhere else.
LEMMA LeadsEnd == ASSUME NEW x, NEW y, Leads(<<>>, x, y) PROVE x = y
  BY DEF Leads

\* Two lists, one after the other.
LEMMA LeadsOn ==
    ASSUME NEW p \in Seq(Statement), NEW q \in Seq(Statement), NEW x, NEW y, NEW z,
           Leads(p, x, y), Leads(q, y, z)
    PROVE  Leads(p \o q, x, z)
<1>1. PICK h \in [1..(Len(p) + 1) -> Shapes] :
        /\ h[1] = x /\ h[Len(p) + 1] = y
        /\ \A i \in 1..Len(p) :
              /\ h[i + 1] = After(h[i], p[i])
              /\ p[i].mode = "exclusive" => p[i].from = {h[i][p[i].on]}
  BY DEF Leads
<1>2. PICK g \in [1..(Len(q) + 1) -> Shapes] :
        /\ g[1] = y /\ g[Len(q) + 1] = z
        /\ \A i \in 1..Len(q) :
              /\ g[i + 1] = After(g[i], q[i])
              /\ q[i].mode = "exclusive" => q[i].from = {g[i][q[i].on]}
  BY DEF Leads
<1>3. /\ Len(p) \in Nat /\ Len(q) \in Nat /\ Len(p \o q) = Len(p) + Len(q)
      /\ \A i \in 1..Len(p) : (p \o q)[i] = p[i]
      /\ \A i \in 1..Len(q) : (p \o q)[Len(p) + i] = q[i]
  OBVIOUS
<1> DEFINE n == Len(p)
           f == [i \in 1..(Len(p \o q) + 1) |-> IF i <= n THEN h[i] ELSE g[i - n]]
<1>4. f \in [1..(Len(p \o q) + 1) -> Shapes]
  BY <1>3
<1>5. f[1] = x /\ f[Len(p \o q) + 1] = z
  BY <1>1, <1>2, <1>3
<1>6. \A i \in 1..n : f[i] = h[i] /\ f[i + 1] = h[i + 1]
  BY <1>1, <1>2, <1>3
<1>7. \A i \in 1..Len(q) : f[n + i] = g[i] /\ f[(n + i) + 1] = g[i + 1]
  BY <1>1, <1>2, <1>3
<1>8. \A i \in 1..Len(p \o q) :
        /\ f[i + 1] = After(f[i], (p \o q)[i])
        /\ (p \o q)[i].mode = "exclusive" => (p \o q)[i].from = {f[i][(p \o q)[i].on]}
  <2> SUFFICES ASSUME NEW i \in 1..Len(p \o q)
               PROVE  /\ f[i + 1] = After(f[i], (p \o q)[i])
                      /\ (p \o q)[i].mode = "exclusive" =>
                             (p \o q)[i].from = {f[i][(p \o q)[i].on]}
    OBVIOUS
  <2> HIDE DEF f
  <2>1. CASE i \in 1..n
    BY <1>1, <1>3, <1>6, <2>1
  <2>2. CASE i \notin 1..n
    <3>1. i - n \in 1..Len(q) /\ i = n + (i - n)
      BY <1>3, <2>2
    <3> HIDE DEF n
    <3> DEFINE j == i - n
    <3>2. j \in 1..Len(q) /\ i = n + j
      BY <3>1
    <3> HIDE DEF j
    <3>3. (p \o q)[i] = q[j] /\ f[i] = g[j] /\ f[i + 1] = g[j + 1]
      BY <1>3, <1>7, <3>2 DEF n
    <3> QED
      BY <1>2, <3>2, <3>3
  <2> QED
    BY <2>1, <2>2
<1> HIDE DEF f
<1> QED
  BY <1>4, <1>5, <1>8 DEF Leads

-----------------------------------------------------------------------------
(* The programs *)

\* The shapes of a database, table by table.
Shape5(ts, rm, kt, ot, av) ==
    [t \in Tables |-> CASE t = "telegram_sources" -> ts
                        [] t = "raw_messages" -> rm
                        [] t = "keyword_triggers" -> kt
                        [] t = "others" -> ot
                        [] t = "alembic_version" -> av]

LEMMA Shape5Type ==
    ASSUME NEW ts \in 0..2, NEW rm \in 0..2, NEW kt \in 0..2, NEW ot \in 0..2, NEW av \in 0..2
    PROVE  Shape5(ts, rm, kt, ot, av) \in Shapes
  BY DEF Shape5, Shapes, Tables

LEMMA Revisions ==
    /\ AtRevision(0) = Shape5(0, 0, 0, 0, 0)
    /\ AtRevision(1) = Shape5(1, 1, 1, 1, 1)
    /\ AtRevision(2) = Shape5(2, 1, 1, 1, 2)
  BY DEF AtRevision, Shape5, Tables

LEMMA Upgrade1Leads ==
    Upgrade1 \in Seq(Statement) /\ Leads(Upgrade1, AtRevision(0), AtRevision(1))
<1> DEFINE h == << Shape5(0, 0, 0, 0, 0), Shape5(1, 0, 0, 0, 0),
                   Shape5(1, 1, 0, 0, 0), Shape5(1, 1, 1, 0, 0),
                   Shape5(1, 1, 1, 1, 0), Shape5(1, 1, 1, 1, 1) >>
<1>1. h \in [1..6 -> Shapes]
  BY Shape5Type
<1>2. Upgrade1 \in Seq(Statement) /\ Len(Upgrade1) = 5
  BY DEF Upgrade1, Stamp, Exclusive, Statement, StatementsOver, Tables
<1>3. \A i \in 1..5 : /\ h[i + 1] = After(h[i], Upgrade1[i])
                      /\ Upgrade1[i].mode = "exclusive" => Upgrade1[i].from = {h[i][Upgrade1[i].on]}
  <2> SUFFICES ASSUME NEW i \in 1..5
               PROVE  /\ h[i + 1] = After(h[i], Upgrade1[i])
                      /\ Upgrade1[i].mode = "exclusive" => Upgrade1[i].from = {h[i][Upgrade1[i].on]}
    OBVIOUS
  <2>1. CASE i = 1
    BY <2>1 DEF Upgrade1, Stamp, Exclusive, After, Shape5, Tables
  <2>2. CASE i = 2
    BY <2>2 DEF Upgrade1, Stamp, Exclusive, After, Shape5, Tables
  <2>3. CASE i = 3
    BY <2>3 DEF Upgrade1, Stamp, Exclusive, After, Shape5, Tables
  <2>4. CASE i = 4
    BY <2>4 DEF Upgrade1, Stamp, Exclusive, After, Shape5, Tables
  <2>5. CASE i = 5
    BY <2>5 DEF Upgrade1, Stamp, Exclusive, After, Shape5, Tables
  <2> QED
    BY <2>1, <2>2, <2>3, <2>4, <2>5
<1>4. h[1] = AtRevision(0) /\ h[6] = AtRevision(1)
  BY Revisions
<1> HIDE DEF h
<1> QED
  BY <1>1, <1>2, <1>3, <1>4 DEF Leads

LEMMA Upgrade2Leads ==
    Upgrade2 \in Seq(Statement) /\ Leads(Upgrade2, AtRevision(1), AtRevision(2))
<1> DEFINE h == << Shape5(1, 1, 1, 1, 1), Shape5(2, 1, 1, 1, 1),
                   Shape5(2, 1, 1, 1, 2) >>
<1>1. h \in [1..3 -> Shapes]
  BY Shape5Type
<1>2. Upgrade2 \in Seq(Statement) /\ Len(Upgrade2) = 2
  BY DEF Upgrade2, Stamp, Exclusive, Statement, StatementsOver, Tables
<1>3. \A i \in 1..2 : /\ h[i + 1] = After(h[i], Upgrade2[i])
                      /\ Upgrade2[i].mode = "exclusive" => Upgrade2[i].from = {h[i][Upgrade2[i].on]}
  <2> SUFFICES ASSUME NEW i \in 1..2
               PROVE  /\ h[i + 1] = After(h[i], Upgrade2[i])
                      /\ Upgrade2[i].mode = "exclusive" => Upgrade2[i].from = {h[i][Upgrade2[i].on]}
    OBVIOUS
  <2>1. CASE i = 1
    BY <2>1 DEF Upgrade2, Stamp, Exclusive, After, Shape5, Tables
  <2>2. CASE i = 2
    BY <2>2 DEF Upgrade2, Stamp, Exclusive, After, Shape5, Tables
  <2> QED
    BY <2>1, <2>2
<1>4. h[1] = AtRevision(1) /\ h[3] = AtRevision(2)
  BY Revisions
<1> HIDE DEF h
<1> QED
  BY <1>1, <1>2, <1>3, <1>4 DEF Leads

LEMMA Downgrade1Leads ==
    Downgrade1 \in Seq(Statement) /\ Leads(Downgrade1, AtRevision(1), AtRevision(0))
<1> DEFINE h == << Shape5(1, 1, 1, 1, 1), Shape5(1, 1, 1, 0, 1),
                   Shape5(1, 1, 1, 0, 1), Shape5(1, 1, 0, 0, 1),
                   Shape5(1, 0, 0, 0, 1), Shape5(0, 0, 0, 0, 1),
                   Shape5(0, 0, 0, 0, 0) >>
<1>1. h \in [1..7 -> Shapes]
  BY Shape5Type
<1>2. Downgrade1 \in Seq(Statement) /\ Len(Downgrade1) = 6
  BY DEF Downgrade1, Stamp, Exclusive, Statement, StatementsOver, Tables
<1>3. \A i \in 1..6 : /\ h[i + 1] = After(h[i], Downgrade1[i])
                      /\ Downgrade1[i].mode = "exclusive" => Downgrade1[i].from = {h[i][Downgrade1[i].on]}
  <2> SUFFICES ASSUME NEW i \in 1..6
               PROVE  /\ h[i + 1] = After(h[i], Downgrade1[i])
                      /\ Downgrade1[i].mode = "exclusive" => Downgrade1[i].from = {h[i][Downgrade1[i].on]}
    OBVIOUS
  <2>1. CASE i = 1
    BY <2>1 DEF Downgrade1, Stamp, Exclusive, After, Shape5, Tables
  <2>2. CASE i = 2
    BY <2>2 DEF Downgrade1, Stamp, Exclusive, After, Shape5, Tables
  <2>3. CASE i = 3
    BY <2>3 DEF Downgrade1, Stamp, Exclusive, After, Shape5, Tables
  <2>4. CASE i = 4
    BY <2>4 DEF Downgrade1, Stamp, Exclusive, After, Shape5, Tables
  <2>5. CASE i = 5
    BY <2>5 DEF Downgrade1, Stamp, Exclusive, After, Shape5, Tables
  <2>6. CASE i = 6
    BY <2>6 DEF Downgrade1, Stamp, Exclusive, After, Shape5, Tables
  <2> QED
    BY <2>1, <2>2, <2>3, <2>4, <2>5, <2>6
<1>4. h[1] = AtRevision(1) /\ h[7] = AtRevision(0)
  BY Revisions
<1> HIDE DEF h
<1> QED
  BY <1>1, <1>2, <1>3, <1>4 DEF Leads

LEMMA Downgrade2Leads ==
    Downgrade2 \in Seq(Statement) /\ Leads(Downgrade2, AtRevision(2), AtRevision(1))
<1> DEFINE h == << Shape5(2, 1, 1, 1, 2), Shape5(2, 1, 1, 1, 2),
                   Shape5(1, 1, 1, 1, 2), Shape5(1, 1, 1, 1, 1) >>
<1>1. h \in [1..4 -> Shapes]
  BY Shape5Type
<1>2. Downgrade2 \in Seq(Statement) /\ Len(Downgrade2) = 3
  BY DEF Downgrade2, Stamp, Exclusive, Shared, Tighten, Statement, StatementsOver, Tables
<1>3. \A i \in 1..3 : /\ h[i + 1] = After(h[i], Downgrade2[i])
                      /\ Downgrade2[i].mode = "exclusive" => Downgrade2[i].from = {h[i][Downgrade2[i].on]}
  <2> SUFFICES ASSUME NEW i \in 1..3
               PROVE  /\ h[i + 1] = After(h[i], Downgrade2[i])
                      /\ Downgrade2[i].mode = "exclusive" => Downgrade2[i].from = {h[i][Downgrade2[i].on]}
    OBVIOUS
  <2>1. CASE i = 1
    <3>1. Downgrade2[i].mode = "shared"
      BY <2>1 DEF Downgrade2, Shared
    <3>2. h[i] \in Shapes /\ h[i + 1] = h[i]
      BY <2>1, Shape5Type
    <3> QED
      BY <3>1, <3>2 DEF After, Shapes
  <2>2. CASE i = 2
    <3>1. /\ Downgrade2[i].on = "telegram_sources" /\ Downgrade2[i].mode = "exclusive"
          /\ Downgrade2[i].from = {2} /\ Downgrade2[i].to = 1
      BY <2>2 DEF Downgrade2, Tighten
    <3> QED
      BY <2>2, <3>1 DEF After, Shape5, Tables
  <2>3. CASE i = 3
    BY <2>3 DEF Downgrade2, Stamp, Exclusive, Shared, Tighten, After, Shape5, Tables
  <2> QED
    BY <2>1, <2>2, <2>3
<1>4. h[1] = AtRevision(2) /\ h[4] = AtRevision(1)
  BY Revisions
<1> HIDE DEF h
<1> QED
  BY <1>1, <1>2, <1>3, <1>4 DEF Leads

\* Statements in shared mode lead nowhere.
LEMMA SharedLeads ==
    ASSUME NEW q \in Seq(Statement), NEW x \in Shapes, \A i \in 1..Len(q) : q[i].mode = "shared"
    PROVE  Leads(q, x, x)
<1> DEFINE h == [i \in 1..(Len(q) + 1) |-> x]
<1>1. Len(q) \in Nat
  OBVIOUS
<1>2. h \in [1..(Len(q) + 1) -> Shapes] /\ \A i \in 1..(Len(q) + 1) : h[i] = x
  OBVIOUS
<1> HIDE DEF h
<1>3. \A i \in 1..Len(q) : h[i + 1] = After(h[i], q[i])
  BY <1>1, <1>2 DEF After, Shapes
<1> QED
  BY <1>1, <1>2, <1>3 DEF Leads

LEMMA LeadsNowhere == ASSUME NEW x \in Shapes PROVE Leads(<<>>, x, x)
<1>1. <<x>> \in [1..(Len(<<>>) + 1) -> Shapes] /\ <<x>>[1] = x
  OBVIOUS
<1> QED
  BY <1>1 DEF Leads

LEMMA ExclusiveOf ==
    ASSUME NEW c \in Jobs \ Writers, NEW v, NEW t \in Tables, NEW from \in 0..2, NEW to \in 0..2,
           t = "telegram_sources" /\ to # 2 => from # 2,
           c \in Upgrades /\ v = 1 => t \in {"telegram_sources", "alembic_version"}
    PROVE  Exclusive(t, from, to) \in StatementsOf(c, v)
  BY DEF StatementsOf, Sound, Statement, StatementsOver, Exclusive

LEMMA NoTable == 0 \in 0..2
  OBVIOUS

LEMMA SharedRecord ==
    ASSUME NEW F, NEW N, 0 \in N, NEW t \in Tables, NEW from \in F,
           NEW rows \in {"any", "not null", "insert", "resolve"}
    PROVE  Shared(t, from, rows) \in StatementsOver(F, N)
  BY DEF Shared, StatementsOver

LEMMA SharedStatement ==
    ASSUME NEW t \in Tables, NEW from \in SUBSET (0..2),
           NEW rows \in {"any", "not null", "insert", "resolve"}
    PROVE  Shared(t, from, rows) \in Statement
  BY NoTable, SharedRecord DEF Statement

LEMMA SharedOf ==
    ASSUME NEW c \in Downgrades \cup Writers, NEW v, NEW t \in Tables \ {"alembic_version"},
           NEW from, from \subseteq 0..2, 0 \notin from,
           NEW rows \in {"any", "not null", "insert", "resolve"},
           c \in Writers =>
               rows # "not null" /\ \A u \in Least(c)..2 : AtRevision(u)[t] \in from
    PROVE  Shared(t, from, rows) \in StatementsOf(c, v)
<1>1. c \notin Upgrades
  BY DEF Upgrades, Downgrades, Writers
<1>2. Shared(t, from, rows) \in Statement
  <2>1. from \in SUBSET (0..2) /\ t \in Tables
    BY Zenon
  <2> QED
    BY <2>1, SharedStatement, Zenon
<1>3. /\ Shared(t, from, rows).on = t /\ Shared(t, from, rows).from = from
      /\ Shared(t, from, rows).mode = "shared" /\ Shared(t, from, rows).rows = rows
  BY DEF Shared
<1> QED
  BY <1>1, <1>2, <1>3 DEF StatementsOf, Sound

LEMMA StatementsOfRevisions ==
    ASSUME NEW c \in Jobs \ Writers, NEW v \in 0..2
    PROVE  /\ c \in Downgrades => Downgrade1 \in Seq(StatementsOf(c, v)) /\ Downgrade2 \in Seq(StatementsOf(c, v))
           /\ c \in Upgrades => Upgrade2 \in Seq(StatementsOf(c, v))
           /\ c \in Upgrades /\ v # 1 => Upgrade1 \in Seq(StatementsOf(c, v))
<1>1. c \in Downgrades => c \notin Upgrades /\ c \notin Writers
  BY DEF Upgrades, Downgrades, Writers
<1>2. ASSUME c \in Downgrades PROVE Downgrade1 \in Seq(StatementsOf(c, v))
  BY <1>1, <1>2, ExclusiveOf DEF Downgrade1, Stamp, Tables
<1>3. ASSUME c \in Downgrades PROVE Downgrade2 \in Seq(StatementsOf(c, v))
  <2>1. Tighten \in StatementsOf(c, v)
    <3>1. Tighten \in Statement
      <4>1. {2} \in SUBSET (0..2) /\ "telegram_sources" \in Tables
        BY DEF Tables
      <4> QED
        BY <4>1 DEF Tighten, Statement, StatementsOver
    <3>2. Sound(Tighten)
      BY DEF Tighten, Sound
    <3> QED
      BY <1>1, <1>3, <3>1, <3>2 DEF StatementsOf
  <2>2. Shared("telegram_sources", {1, 2}, "not null") \in StatementsOf(c, v)
    <3>1. {1, 2} \subseteq 0..2 /\ 0 \notin {1, 2} /\ "telegram_sources" \in Tables
      BY DEF Tables
    <3> QED
      BY <1>1, <1>3, <3>1, SharedOf
  <2>3. Stamp(2, 1) \in StatementsOf(c, v)
    BY <1>1, <1>3, ExclusiveOf DEF Stamp, Tables
  <2> QED
    BY <2>1, <2>2, <2>3, ThreeOf DEF Downgrade2
<1>4. Upgrade2 \in Seq(StatementsOf(c, v))
  BY ExclusiveOf DEF Upgrade2, Stamp, Tables
<1>5. v # 1 => Upgrade1 \in Seq(StatementsOf(c, v))
  BY ExclusiveOf DEF Upgrade1, Stamp, Tables
<1> QED
  BY <1>2, <1>3, <1>4, <1>5

LEMMA StatementsOfWriters ==
    ASSUME NEW c \in Writers, NEW v \in 0..2
    PROVE  Program(c, v) \in Seq(StatementsOf(c, v))
<1>1. /\ \A u \in 1..2 : AtRevision(u)["raw_messages"] = 1 /\ AtRevision(u)["keyword_triggers"] = 1
      /\ AtRevision(1)["telegram_sources"] = 1 /\ AtRevision(2)["telegram_sources"] = 2
  BY DEF AtRevision, Tables
<1>2. \A u \in 1..2 : u = 1 \/ u = 2
  OBVIOUS
<1> /\ {1} \subseteq 0..2 /\ {2} \subseteq 0..2 /\ {1, 2} \subseteq 0..2
    /\ 0 \notin {1} /\ 0 \notin {2} /\ 0 \notin {1, 2}
  OBVIOUS
<1> {"telegram_sources", "raw_messages", "keyword_triggers"} \subseteq Tables \ {"alembic_version"}
  BY DEF Tables
<1>3. CASE c = "seed"
  <2>1. Shared("telegram_sources", {2}, "insert") \in StatementsOf(c, v)
    <3>1. \A u \in Least(c)..2 : AtRevision(u)["telegram_sources"] \in {2}
      BY <1>1, <1>3 DEF Least
    <3> QED
      BY <1>3, <3>1, SharedOf
  <2>2. Shared("keyword_triggers", {1}, "any") \in StatementsOf(c, v)
    <3>1. \A u \in Least(c)..2 : AtRevision(u)["keyword_triggers"] \in {1}
      BY <1>1, <1>3 DEF Least
    <3> QED
      BY <1>3, <3>1, SharedOf
  <2> QED
    BY <1>3, <2>1, <2>2 DEF Program
<1>4. CASE c = "handler"
  <2>1. /\ Shared("raw_messages", {1}, "any") \in StatementsOf(c, v)
        /\ Shared("telegram_sources", {1, 2}, "any") \in StatementsOf(c, v)
    BY <1>1, <1>2, <1>4, SharedOf DEF Least
  <2> QED
    BY <1>4, <2>1 DEF Program
<1>5. CASE c = "reconcile"
  <2>1. Shared("telegram_sources", {1, 2}, "resolve") \in StatementsOf(c, v)
    BY <1>1, <1>2, <1>5, SharedOf DEF Least
  <2> QED
    BY <1>5, <2>1 DEF Program
<1> QED
  BY <1>3, <1>4, <1>5 DEF Writers

\* The revisions a command crosses, one after the other.
LEMMA ProgramOfCommand ==
    ASSUME NEW c \in Jobs \ Writers, NEW v \in 0..2, ~(c = "-1" /\ v = 0)
    PROVE  /\ Program(c, v) \in Seq(StatementsOf(c, v)) /\ Program(c, v) \in Seq(Statement)
           /\ Leads(Program(c, v), AtRevision(v), AtRevision(Target(c, v)))
           /\ Target(c, v) \in 0..2
           /\ v = 1 => StampLast(Program(c, v))
           /\ c = "upgrade" => \/ Program(c, v) = <<>>
                               \/ Head(Program(c, v)).on = "telegram_sources"
<1>0. v = 0 \/ v = 1 \/ v = 2
  OBVIOUS
<1>1. StampLast(Upgrade2) /\ StampLast(Downgrade1)
  BY DEF StampLast, Upgrade2, Downgrade1, Stamp, Exclusive
<1>2. CASE c = "upgrade"
  <2>1. Target(c, v) = 2 /\ c \in Upgrades
    BY <1>2 DEF Target, Upgrades
  <2>5. Target(c, v) \in 0..2
    BY <2>1
  <2>6. (v = 0 => v # 1) /\ (v = 2 => v # 1)
    OBVIOUS
  <2>2. CASE v = 0
    <3>1. Program(c, v) = Upgrade1 \o Upgrade2
      BY <1>2, <2>2 DEF Program
    <3>2. Upgrade1 \o Upgrade2 \in Seq(StatementsOf(c, v))
      BY <2>1, <2>2, StatementsOfRevisions
    <3>3. Upgrade1 \o Upgrade2 \in Seq(Statement)
      BY Upgrade1Leads, Upgrade2Leads
    <3>4. Leads(Upgrade1 \o Upgrade2, AtRevision(v), AtRevision(Target(c, v)))
      BY <2>1, <2>2, Upgrade1Leads, Upgrade2Leads, LeadsOn
    <3>5. Head(Upgrade1 \o Upgrade2).on = "telegram_sources"
      BY DEF Upgrade1, Upgrade2, Exclusive
    <3> QED
      BY <2>2, <2>5, <2>6, <3>1, <3>2, <3>3, <3>4, <3>5
  <2>3. CASE v = 1
    <3>1. Program(c, v) = Upgrade2
      BY <1>2, <2>3 DEF Program
    <3>2. Head(Upgrade2).on = "telegram_sources"
      BY DEF Upgrade2, Exclusive
    <3> QED
      BY <1>1, <1>2, <2>1, <2>3, <3>1, <3>2, Upgrade2Leads, StatementsOfRevisions
  <2>4. CASE v = 2
    <3>1. Program(c, v) = <<>>
      BY <1>2, <2>4 DEF Program
    <3>2. Leads(<<>>, AtRevision(v), AtRevision(Target(c, v)))
      BY <2>1, <2>4, AtRevisionShapes, LeadsNowhere
    <3> QED
      <4>1. <<>> \in Seq(StatementsOf(c, v)) /\ <<>> \in Seq(Statement)
        OBVIOUS
      <4> QED
        BY <1>2, <2>4, <2>5, <2>6, <3>1, <3>2, <4>1
  <2> QED
    BY <1>0, <2>2, <2>3, <2>4
<1>3. CASE c = "-1"
  <2>1. Target(c, v) = v - 1 /\ c \in Downgrades
    BY <1>3 DEF Target, Upgrades, Downgrades
  <2>2. CASE v = 1
    <3>1. Program(c, v) = Downgrade1
      BY <1>3, <2>2 DEF Program
    <3> QED
      BY <1>1, <1>3, <2>1, <2>2, <3>1, Downgrade1Leads, StatementsOfRevisions
  <2>3. CASE v = 2
    <3>1. Program(c, v) = Downgrade2
      BY <1>3, <2>3 DEF Program
    <3> QED
      BY <1>3, <2>1, <2>3, <3>1, Downgrade2Leads, StatementsOfRevisions
  <2> QED
    BY <1>0, <1>3, <2>2, <2>3
<1>4. CASE c = "base"
  <2>1. Target(c, v) = 0 /\ c \in Downgrades /\ c # "upgrade"
    BY <1>4 DEF Target, Upgrades, Downgrades
  <2>5. Target(c, v) \in 0..2
    BY <2>1
  <2>6. (v = 0 => v # 1) /\ (v = 2 => v # 1)
    OBVIOUS
  <2>2. CASE v = 0
    <3>1. Program(c, v) = <<>>
      BY <1>4, <2>2 DEF Program
    <3>2. Leads(<<>>, AtRevision(v), AtRevision(Target(c, v)))
      BY <2>1, <2>2, AtRevisionShapes, LeadsNowhere
    <3> QED
      <4>1. <<>> \in Seq(StatementsOf(c, v)) /\ <<>> \in Seq(Statement)
        OBVIOUS
      <4> QED
        BY <2>1, <2>2, <2>5, <2>6, <3>1, <3>2, <4>1
  <2>3. CASE v = 1
    <3>1. Program(c, v) = Downgrade1
      BY <1>4, <2>3 DEF Program
    <3> QED
      BY <1>1, <1>4, <2>1, <2>3, <3>1, Downgrade1Leads, StatementsOfRevisions
  <2>4. CASE v = 2
    <3>1. Program(c, v) = Downgrade2 \o Downgrade1
      BY <1>4, <2>4 DEF Program
    <3>2. Downgrade2 \o Downgrade1 \in Seq(StatementsOf(c, v))
      BY <2>1, StatementsOfRevisions
    <3>3. Downgrade2 \o Downgrade1 \in Seq(Statement)
      BY Downgrade1Leads, Downgrade2Leads
    <3>4. Leads(Downgrade2 \o Downgrade1, AtRevision(v), AtRevision(Target(c, v)))
      BY <2>1, <2>4, Downgrade1Leads, Downgrade2Leads, LeadsOn
    <3> QED
      BY <2>1, <2>4, <2>5, <2>6, <3>1, <3>2, <3>3, <3>4
  <2> QED
    BY <1>0, <2>2, <2>3, <2>4
<1> QED
  BY <1>2, <1>3, <1>4 DEF Jobs, Upgrades, Downgrades, Writers

\* A writer's transaction leads nowhere; that of a seed begins with its INSERT.
LEMMA ProgramOfWriter ==
    ASSUME NEW c \in Writers, NEW v \in 0..2
    PROVE  /\ Program(c, v) \in Seq(StatementsOf(c, v)) /\ Program(c, v) \in Seq(Statement)
           /\ Leads(Program(c, v), AtRevision(v), AtRevision(Target(c, v)))
           /\ Target(c, v) = v
           /\ StampLast(Program(c, v))
           /\ c = "seed" => /\ Program(c, v) # <<>>
                            /\ Head(Program(c, v)) = Shared("telegram_sources", {2}, "insert")
<1>1. Target(c, v) = v
  BY DEF Target, Upgrades, Writers
<1>2. Program(c, v) \in Seq(StatementsOf(c, v))
  BY StatementsOfWriters
<1>3. Program(c, v) \in Seq(Statement)
  BY <1>2, MoreStatements DEF StatementsOf
<1>4. \A i \in 1..Len(Program(c, v)) : Program(c, v)[i] \in StatementsOf(c, v)
  BY <1>2
<1>5. \A i \in 1..Len(Program(c, v)) : /\ Program(c, v)[i].mode = "shared"
                                       /\ Program(c, v)[i].on # "alembic_version"
  BY <1>4 DEF StatementsOf, Sound
<1>6. c = "seed" => /\ Program(c, v) # <<>>
                    /\ Head(Program(c, v)) = Shared("telegram_sources", {2}, "insert")
  BY DEF Program
<1>7. Leads(Program(c, v), AtRevision(v), AtRevision(v))
  BY <1>3, <1>5, SharedLeads, AtRevisionShapes
<1> QED
  BY <1>1, <1>2, <1>3, <1>5, <1>6, <1>7 DEF StampLast

LEMMA ProgramOfJob ==
    ASSUME NEW c \in Jobs, NEW v \in 0..2, ~(c = "-1" /\ v = 0)
    PROVE  /\ Program(c, v) \in Seq(StatementsOf(c, v)) /\ Program(c, v) \in Seq(Statement)
           /\ Leads(Program(c, v), AtRevision(v), AtRevision(Target(c, v)))
           /\ Target(c, v) \in 0..2
           /\ v = 1 => StampLast(Program(c, v))
  BY ProgramOfCommand, ProgramOfWriter

-----------------------------------------------------------------------------
(* The steps *)

LEMMA InitIInv == Init => IInv
<1> SUFFICES ASSUME Init PROVE IInv
  OBVIOUS
<1> USE DEF Init
<1>1. PICK v \in 0..2 : schema = AtRevision(v)
  OBVIOUS
<1>2. \A a \in Actors : /\ ~Running(a) /\ todo[a] = <<>> /\ DOMAIN draft[a] = {} /\ shares[a] = {}
  BY DEF Running
<1>3. TypeOK
  <2>1. schema \in Shapes
    BY <1>1, AtRevisionShapes
  <2>2. NoJob \in [command : Jobs \cup {"none"}, revision : 0..2, run : Nat]
    BY DEF NoJob
  <2>3. <<>> \in Seq(Statement)
    OBVIOUS
  <2> QED
    BY <1>2, <2>1, <2>2, <2>3 DEF TypeOK
<1>4. OnPlan /\ AtRest /\ Locked /\ WriterHolds /\ HeldUnchanged /\ SeedHolds /\ NullsGone
  BY <1>2 DEF OnPlan, AtRest, Locked, WriterHolds, HeldUnchanged, SeedHolds, NullsGone
<1>5. VersionMatchesSchema /\ NullsOnlyWhereAllowed
  BY <1>1 DEF VersionMatchesSchema, NullsOnlyWhereAllowed
<1> QED
  BY <1>3, <1>4, <1>5 DEF IInv

\* The schema is at the revision that alembic_version names.
LEMMA AtVersion ==
    ASSUME IInv
    PROVE  schema["alembic_version"] \in 0..2 /\ schema = AtRevision(schema["alembic_version"])
  BY AtRevisionShapes DEF IInv, VersionMatchesSchema

\* What another transaction holds no statement is executed against.
LEMMA Unblocked ==
    ASSUME IInv, NEW a \in Actors, Running(a), todo[a] # <<>>, Blockers(a) = {}, Possible(a),
           NEW s, s = Head(todo[a])
    PROVE  \A b \in Actors \ {a} : /\ s.on \notin DOMAIN draft[b]
                                   /\ s.mode = "exclusive" => s.on \notin shares[b]
<1>1. s \in StatementsOf(Command(a), Found(a))
  BY DEF IInv, OnPlan
<1>2. 0 \in s.from => s.from = {0}
  BY <1>1 DEF StatementsOf, Sound
<1>3. Shape(a, s.on) \in s.from
  BY DEF Possible
<1>4. ~((Shape(a, s.on) = 0) # (0 \in s.from))
  BY <1>2, <1>3
<1>5. {b \in Actors \ {a} : \/ s.on \in DOMAIN draft[b]
                            \/ s.mode = "exclusive" /\ s.on \in shares[b]} = {}
  BY <1>4 DEF Blockers
<1> SUFFICES ASSUME NEW b \in Actors \ {a}
             PROVE  ~(\/ s.on \in DOMAIN draft[b]
                      \/ s.mode = "exclusive" /\ s.on \in shares[b])
  OBVIOUS
<1> QED
  BY <1>5, Zenon

\* A transaction that ends without a trace.
LEMMA RollbackIInv ==
    ASSUME IInv, NEW a \in Actors, Running(a), NEW how \in {"failed", "victim"}, faults' \in Nat,
           Rollback(a, how)
    PROVE  IInv'
<1> USE DEF Rollback, End
<1>1. /\ state'[a] = how /\ \A b \in Actors \ {a} : state'[b] = state[b]
      /\ todo'[a] = <<>> /\ \A b \in Actors \ {a} : todo'[b] = todo[b]
      /\ draft'[a] = <<>> /\ \A b \in Actors \ {a} : draft'[b] = draft[b]
      /\ shares'[a] = {} /\ \A b \in Actors \ {a} : shares'[b] = shares[b]
  BY DEF IInv, TypeOK
<1>2. ~Running(a)' /\ \A b \in Actors \ {a} : Running(b)' <=> Running(b)
  BY <1>1 DEF Running
<1>3. DOMAIN draft'[a] = {}
  BY <1>1
<1>4. \A b \in Actors : Command(b)' = Command(b) /\ Found(b)' = Found(b)
  BY DEF Command, Found
<1>5. TypeOK'
  <2>1. /\ todo' \in [Actors -> Seq(Statement)] /\ shares' \in [Actors -> SUBSET Tables]
        /\ resolved' \in [Actors -> SUBSET Nat]
        /\ state' \in [Actors -> {"idle", "running", "done", "failed", "victim"}]
    BY DEF IInv, TypeOK
  <2>2. \A b \in Actors : /\ DOMAIN draft'[b] \subseteq Tables
                          /\ \A t \in DOMAIN draft'[b] : draft'[b][t] \in 0..2
    BY <1>1, <1>3 DEF IInv, TypeOK
  <2>3. draft' = [b \in Actors |-> draft'[b]]
    BY DEF IInv, TypeOK
  <2> QED
    BY <2>1, <2>2, <2>3 DEF IInv, TypeOK
<1>6. \A b \in Actors \ {a} : Planned(b)' = Planned(b)
  BY <1>1, <1>4 DEF Planned
<1>7. OnPlan'
  BY <1>1, <1>2, <1>4, <1>6 DEF IInv, OnPlan
<1>8. AtRest'
  BY <1>1, <1>2, <1>3 DEF IInv, AtRest
<1>9. Locked' /\ WriterHolds'
  BY <1>1, <1>3, <1>4 DEF IInv, Locked, WriterHolds
<1>10. HeldUnchanged' /\ NullsGone'
  BY <1>1, <1>3, <1>4 DEF IInv, HeldUnchanged, NullsGone
<1>11. SeedHolds'
  BY <1>1, <1>2, <1>4 DEF IInv, SeedHolds
<1>12. VersionMatchesSchema' /\ NullsOnlyWhereAllowed'
  BY DEF IInv, VersionMatchesSchema, NullsOnlyWhereAllowed
<1> QED
  BY <1>5, <1>7, <1>8, <1>9, <1>10, <1>11, <1>12 DEF IInv

\* What the beginning of a transaction changes: the job of a free connection.
Began(a, v, command) ==
    /\ ~Running(a) /\ v = schema["alembic_version"] /\ schema = AtRevision(v)
    /\ job' = [job EXCEPT ![a] = [command |-> command, revision |-> v, run |-> runs']]
    /\ \/ /\ command = "-1"
          /\ state' = [state EXCEPT ![a] = "failed"] /\ todo' = todo
       \/ /\ ~(command = "-1" /\ v = 0)
          /\ state' = [state EXCEPT ![a] = "running"]
          /\ todo' = [todo EXCEPT ![a] = Program(command, v)]
    /\ todo[a] = <<>> /\ DOMAIN draft[a] = {} /\ shares[a] = {}
    /\ \A b \in Actors \ {a} : /\ Command(b)' = Command(b) /\ Found(b)' = Found(b)
                               /\ state'[b] = state[b] /\ todo'[b] = todo[b]
                               /\ Running(b)' <=> Running(b)
    /\ Command(a)' = command /\ Found(a)' = v

LEMMA BeginEffect ==
    ASSUME IInv, NEW command \in Commands, Begin(command)
    PROVE  \E a \in Actors, v \in 0..2 : Began(a, v, command)
<1>1. PICK a \in Actors : a = Free /\ ~Running(a)
  BY DEF Begin, Free
<1>2. PICK v \in 0..2 : v = schema["alembic_version"] /\ schema = AtRevision(v)
  BY AtVersion
<1>3. /\ runs' = runs + 1
      /\ job' = [job EXCEPT ![a] = [command |-> command, revision |-> v, run |-> runs']]
  BY <1>1, <1>2 DEF Begin
<1>4. \/ /\ command = "-1"
         /\ state' = [state EXCEPT ![a] = "failed"] /\ todo' = todo
      \/ /\ ~(command = "-1" /\ v = 0)
         /\ state' = [state EXCEPT ![a] = "running"]
         /\ todo' = [todo EXCEPT ![a] = Program(command, v)]
  BY <1>1, <1>2 DEF Begin
<1>5. /\ todo[a] = <<>> /\ DOMAIN draft[a] = {} /\ shares[a] = {}
  BY <1>1 DEF IInv, AtRest
<1>6. /\ \A b \in Actors \ {a} : job'[b] = job[b]
      /\ job'[a].command = command /\ job'[a].revision = v
  BY <1>3 DEF IInv, TypeOK
<1>7. /\ \A b \in Actors \ {a} : Command(b)' = Command(b) /\ Found(b)' = Found(b)
      /\ Command(a)' = command /\ Found(a)' = v
  BY <1>6 DEF Command, Found
<1>8. \A b \in Actors \ {a} : state'[b] = state[b] /\ todo'[b] = todo[b]
  BY <1>4 DEF IInv, TypeOK
<1>9. \A b \in Actors \ {a} : Running(b)' <=> Running(b)
  BY <1>8 DEF Running
<1> QED
  BY <1>1, <1>2, <1>3, <1>4, <1>5, <1>7, <1>8, <1>9 DEF Began

LEMMA BeginIInv ==
    ASSUME IInv, NEW command \in Commands, Begin(command)
    PROVE  IInv'
<1>1. PICK a \in Actors, v \in 0..2 : Began(a, v, command)
  BY BeginEffect
<1> USE DEF Began
<1>2. command \in Jobs
  BY MigrationsAssumption DEF Jobs
<1>3. /\ runs' = runs + 1 /\ downgraded' = (downgraded \/ command \in Downgrades)
      /\ schema' = schema /\ nulls' = nulls /\ draft' = draft /\ shares' = shares
      /\ resolved' = resolved /\ faults' = faults
  BY DEF Begin
<1>4. \A b \in Actors \ {a} : Planned(b)' = Planned(b)
  BY <1>1, <1>3 DEF Planned
<1>5. job' \in [Actors -> [command : Jobs \cup {"none"}, revision : 0..2, run : Nat]]
  <2>1. runs' \in Nat
    BY <1>3 DEF IInv, TypeOK
  <2>2. [command |-> command, revision |-> v, run |-> runs']
           \in [command : Jobs \cup {"none"}, revision : 0..2, run : Nat]
    BY <1>2, <2>1
  <2> QED
    BY <1>1, <2>2 DEF IInv, TypeOK
<1>6. /\ schema' \in Shapes /\ draft' = [b \in Actors |-> draft'[b]]
      /\ \A b \in Actors : /\ DOMAIN draft'[b] \subseteq Tables
                           /\ \A t \in DOMAIN draft'[b] : draft'[b][t] \in 0..2
      /\ shares' \in [Actors -> SUBSET Tables] /\ resolved' \in [Actors -> SUBSET Nat]
      /\ nulls' \subseteq Nat /\ runs' \in Nat /\ downgraded' \in BOOLEAN /\ faults' \in Nat
  BY <1>1, <1>3 DEF IInv, TypeOK
<1>7. Locked' /\ HeldUnchanged' /\ WriterHolds'
  BY <1>1, <1>3 DEF IInv, Locked, WriterHolds, HeldUnchanged
<1>8. NullsGone' /\ VersionMatchesSchema' /\ NullsOnlyWhereAllowed'
  BY <1>3 DEF IInv, NullsGone, VersionMatchesSchema, NullsOnlyWhereAllowed
<1>9. CASE /\ state' = [state EXCEPT ![a] = "failed"] /\ todo' = todo
  <2>1. ~Running(a)'
    BY <1>1, <1>9 DEF Running, IInv, TypeOK
  <2>2. /\ state' \in [Actors -> {"idle", "running", "done", "failed", "victim"}]
        /\ todo' \in [Actors -> Seq(Statement)]
    BY <1>9 DEF IInv, TypeOK
  <2>3. TypeOK'
    BY <1>5, <1>6, <2>2 DEF TypeOK
  <2>4. OnPlan'
    BY <1>1, <1>4, <2>1 DEF IInv, OnPlan
  <2>5. AtRest'
    BY <1>1, <1>3, <1>9 DEF IInv, AtRest
  <2>6. SeedHolds'
    BY <1>1, <1>3, <1>9, <2>1 DEF IInv, SeedHolds
  <2> QED
    BY <1>7, <1>8, <2>3, <2>4, <2>5, <2>6 DEF IInv
<1>10. CASE /\ ~(command = "-1" /\ v = 0)
            /\ state' = [state EXCEPT ![a] = "running"]
            /\ todo' = [todo EXCEPT ![a] = Program(command, v)]
  <2>1. /\ Program(command, v) \in Seq(StatementsOf(command, v))
        /\ Program(command, v) \in Seq(Statement)
        /\ Leads(Program(command, v), AtRevision(v), AtRevision(Target(command, v)))
        /\ Target(command, v) \in 0..2
    BY <1>1, <1>2, <1>10, ProgramOfJob
  <2>2. todo'[a] = Program(command, v) /\ Running(a)'
    BY <1>1, <1>10 DEF IInv, TypeOK, Running
  <2>3. TypeOK'
    <3>1. /\ state' \in [Actors -> {"idle", "running", "done", "failed", "victim"}]
          /\ todo' \in [Actors -> Seq(Statement)]
      BY <1>10, <2>1 DEF IInv, TypeOK
    <3> QED
      BY <1>5, <1>6, <3>1 DEF TypeOK
  <2>4. Planned(a)' = AtRevision(v)
    <3>1. DOMAIN draft'[a] = {}
      BY <1>1, <1>3
    <3> QED
      BY <1>1, <3>1 DEF Planned, AtRevision
  <2>5. OnPlan'
    <3>1. /\ Command(a)' \in Jobs /\ Target(Command(a), Found(a))' \in 0..2
          /\ todo'[a] \in Seq(StatementsOf(Command(a)', Found(a)'))
          /\ Leads(todo'[a], Planned(a)', AtRevision(Target(Command(a)', Found(a)')))
      BY <1>1, <1>2, <2>1, <2>2, <2>4
    <3> QED
      BY <1>1, <1>4, <3>1 DEF IInv, OnPlan
  <2>6. AtRest'
    BY <1>1, <1>3, <2>2 DEF IInv, AtRest
  <2>7. SeedHolds'
    <3>1. command = "seed" => /\ Program(command, v) # <<>>
                              /\ Head(Program(command, v)) = Shared("telegram_sources", {2}, "insert")
      BY DEF Program
    <3> QED
      BY <1>1, <1>3, <2>2, <3>1 DEF IInv, SeedHolds
  <2> QED
    BY <1>7, <1>8, <2>3, <2>5, <2>6, <2>7 DEF IInv
<1> QED
  BY <1>1, <1>9, <1>10

LEMMA ExecuteIInv ==
    ASSUME IInv, NEW a \in Actors, Execute(a)
    PROVE  IInv'
<1>1. /\ Running(a) /\ todo[a] # <<>> /\ Blockers(a) = {} /\ Possible(a)
      /\ todo' = [todo EXCEPT ![a] = Tail(@)]
      /\ schema' = schema /\ nulls' = nulls /\ state' = state /\ job' = job
      /\ runs' = runs /\ downgraded' = downgraded /\ faults' = faults
  BY DEF Execute
<1>2. PICK s : s = Head(todo[a])
  OBVIOUS
<1>3. s \in Statement /\ todo[a] \in Seq(Statement) /\ Tail(todo[a]) \in Seq(Statement)
  BY <1>1, <1>2, TailOf DEF IInv, TypeOK
<1>4. /\ s.on \in Tables /\ s.to \in 0..2 /\ s.mode \in {"exclusive", "shared"}
  BY <1>3 DEF Statement, StatementsOver
<1>5. \/ /\ s.mode = "exclusive" /\ shares' = shares /\ resolved' = resolved
         /\ draft' = [draft EXCEPT ![a] =
                [t \in DOMAIN draft[a] \cup {s.on} |-> IF t = s.on THEN s.to ELSE draft[a][t]]]
      \/ /\ s.mode = "shared" /\ draft' = draft
         /\ shares' = [shares EXCEPT ![a] = shares[a] \cup {s.on}]
         /\ resolved' = [resolved EXCEPT ![a] = IF s.rows = "resolve" THEN nulls ELSE resolved[a]]
  BY <1>2 DEF Execute
<1>6. /\ \A b \in Actors \ {a} : /\ todo'[b] = todo[b] /\ draft'[b] = draft[b]
                                 /\ shares'[b] = shares[b]
      /\ todo'[a] = Tail(todo[a])
  BY <1>1, <1>5 DEF IInv, TypeOK
<1>7. /\ \A b \in Actors : Command(b)' = Command(b) /\ Found(b)' = Found(b)
      /\ \A b \in Actors : Running(b)' <=> Running(b)
  BY <1>1 DEF Command, Found, Running
<1>8. /\ s \in StatementsOf(Command(a), Found(a))
      /\ Tail(todo[a]) \in Seq(StatementsOf(Command(a), Found(a)))
  BY <1>1, <1>2 DEF IInv, OnPlan
<1>9. Shape(a, s.on) \in s.from /\ (s.rows = "not null" => nulls = {})
  BY <1>1, <1>2 DEF Possible
<1>10. /\ Leads(Tail(todo[a]), After(Planned(a), s), AtRevision(Target(Command(a), Found(a))))
       /\ s.mode = "exclusive" => s.from = {Planned(a)[s.on]}
  BY <1>1, <1>2, <1>3, LeadsStep DEF IInv, OnPlan
<1>11. \A b \in Actors \ {a} : /\ s.on \notin DOMAIN draft[b]
                               /\ s.mode = "exclusive" => s.on \notin shares[b]
  BY <1>1, <1>2, Unblocked
\* What a holds now.
<1>12. CASE s.mode = "exclusive"
  <2>1. /\ DOMAIN draft'[a] = DOMAIN draft[a] \cup {s.on} /\ draft'[a][s.on] = s.to
        /\ \A t \in DOMAIN draft[a] : t # s.on => draft'[a][t] = draft[a][t]
        /\ shares' = shares /\ resolved' = resolved /\ draft' = [b \in Actors |-> draft'[b]]
    BY <1>5, <1>12 DEF IInv, TypeOK
  <2>2. Planned(a)' = After(Planned(a), s)
    BY <1>4, <1>7, <1>12, <2>1 DEF Planned, After
  <2>3. TypeOK'
    <3>1. \A b \in Actors : /\ DOMAIN draft'[b] \subseteq Tables
                            /\ \A t \in DOMAIN draft'[b] : draft'[b][t] \in 0..2
      <4>1. /\ DOMAIN draft'[a] \subseteq Tables
            /\ \A t \in DOMAIN draft'[a] : draft'[a][t] \in 0..2
        BY <1>4, <2>1 DEF IInv, TypeOK
      <4>2. \A b \in Actors \ {a} : /\ DOMAIN draft'[b] \subseteq Tables
                                    /\ \A t \in DOMAIN draft'[b] : draft'[b][t] \in 0..2
        BY <1>6 DEF IInv, TypeOK
      <4> QED
        BY <4>1, <4>2
    <3>2. todo' \in [Actors -> Seq(Statement)]
      BY <1>1, <1>3 DEF IInv, TypeOK
    <3> QED
      BY <1>1, <2>1, <3>1, <3>2 DEF IInv, TypeOK
  <2>4. OnPlan'
    <3>1. \A b \in Actors \ {a} : Planned(b)' = Planned(b)
      BY <1>6, <1>7 DEF Planned
    <3> QED
      BY <1>6, <1>7, <1>8, <1>10, <2>2, <3>1 DEF IInv, OnPlan
  <2>5. AtRest'
    BY <1>1, <1>6, <1>7, <2>1 DEF IInv, AtRest
  <2>6. Locked'
    <3> SUFFICES ASSUME NEW b \in Actors, NEW c \in Actors, b # c, NEW t \in DOMAIN draft'[b]
                 PROVE  t \notin DOMAIN draft'[c] /\ t \notin shares'[c]
      BY DEF Locked
    <3>1. \A d, e \in Actors : \A u \in DOMAIN draft[d] :
              d # e => u \notin DOMAIN draft[e] /\ u \notin shares[e]
      BY DEF IInv, Locked
    <3>2. CASE b = a
      <4>1. c \in Actors \ {a} /\ draft'[c] = draft[c] /\ shares'[c] = shares[c]
        BY <1>6, <3>2
      <4>2. t = s.on \/ t \in DOMAIN draft[a]
        BY <2>1, <3>2
      <4>3. CASE t = s.on
        BY <1>11, <1>12, <4>1, <4>3
      <4>4. CASE t \in DOMAIN draft[a]
        BY <3>1, <4>1, <4>4
      <4> QED
        BY <4>2, <4>3, <4>4
    <3>3. CASE c = a
      <4>1. b \in Actors \ {a} /\ t \in DOMAIN draft[b]
        BY <1>6, <3>3
      <4>2. t # s.on
        BY <1>11, <4>1
      <4>3. t \notin DOMAIN draft[a] /\ t \notin shares[a]
        BY <3>1, <4>1
      <4> QED
        BY <2>1, <3>3, <4>2, <4>3
    <3>4. CASE b # a /\ c # a
      BY <1>6, <3>1, <3>4
    <3> QED
      BY <3>2, <3>3, <3>4
  <2>7. WriterHolds'
    <3>1. Command(a) \notin Writers
      BY <1>8, <1>12 DEF StatementsOf
    <3> QED
      BY <1>6, <1>7, <3>1 DEF IInv, WriterHolds
  <2>8. HeldUnchanged'
    <3>1. s.on \notin DOMAIN draft[a] => schema[s.on] = AtRevision(Found(a))[s.on]
      BY <1>4, <1>9, <1>10, <1>12 DEF Shape, Planned
    <3> QED
      BY <1>1, <1>6, <1>7, <2>1, <3>1 DEF IInv, HeldUnchanged
  <2>9. SeedHolds'
    <3>1. Command(a) # "seed"
      BY <1>8, <1>12 DEF StatementsOf, Writers
    <3> QED
      BY <1>1, <1>6, <1>7, <2>1, <3>1 DEF IInv, SeedHolds
  <2>10. NullsGone'
    <3>1. s.on = "telegram_sources" /\ s.to # 2 => nulls = {}
      <4>1. s.on = "telegram_sources" /\ s.to # 2 /\ 2 \in s.from => nulls = {}
        BY <1>8, <1>9, <1>12 DEF StatementsOf, Sound
      <4>2. s.on = "telegram_sources" /\ 2 \notin s.from => nulls = {}
        BY <1>9 DEF Shape, IInv, NullsGone, NullsOnlyWhereAllowed
      <4> QED
        BY <4>1, <4>2
    <3> QED
      BY <1>1, <1>6, <2>1, <3>1 DEF IInv, NullsGone
  <2> QED
    BY <1>1, <2>3, <2>4, <2>5, <2>6, <2>7, <2>8, <2>9, <2>10
    DEF IInv, VersionMatchesSchema, NullsOnlyWhereAllowed
<1>13. CASE s.mode = "shared"
  <2>1. /\ draft' = draft /\ shares'[a] = shares[a] \cup {s.on}
        /\ shares' = [shares EXCEPT ![a] = shares[a] \cup {s.on}]
        /\ resolved' = [resolved EXCEPT ![a] = IF s.rows = "resolve" THEN nulls ELSE resolved[a]]
    BY <1>5, <1>13 DEF IInv, TypeOK
  <2>2. \A b \in Actors : Planned(b)' = Planned(b)
    BY <1>7, <2>1 DEF Planned
  <2>3. TypeOK'
    <3>1. todo' \in [Actors -> Seq(Statement)]
      BY <1>1, <1>3 DEF IInv, TypeOK
    <3>2. shares' \in [Actors -> SUBSET Tables] /\ resolved' \in [Actors -> SUBSET Nat]
      BY <1>4, <2>1 DEF IInv, TypeOK
    <3> QED
      BY <1>1, <2>1, <3>1, <3>2 DEF IInv, TypeOK
  <2>4. OnPlan'
    <3>1. After(Planned(a), s) = Planned(a)
      BY <1>13 DEF After, Planned
    <3> QED
      BY <1>6, <1>7, <1>8, <1>10, <2>2, <3>1 DEF IInv, OnPlan
  <2>5. AtRest'
    BY <1>1, <1>6, <1>7, <2>1 DEF IInv, AtRest
  <2>6. Locked'
    <3> SUFFICES ASSUME NEW b \in Actors, NEW c \in Actors, b # c, NEW t \in DOMAIN draft'[b]
                 PROVE  t \notin DOMAIN draft'[c] /\ t \notin shares'[c]
      BY DEF Locked
    <3>1. \A d, e \in Actors : \A u \in DOMAIN draft[d] :
              d # e => u \notin DOMAIN draft[e] /\ u \notin shares[e]
      BY DEF IInv, Locked
    <3>2. CASE c = a
      <4>1. b \in Actors \ {a} /\ t \in DOMAIN draft[b]
        BY <2>1, <3>2
      <4>2. t # s.on
        BY <1>11, <4>1
      <4>3. t \notin DOMAIN draft[a] /\ t \notin shares[a]
        BY <3>1, <4>1
      <4> QED
        BY <2>1, <3>2, <4>2, <4>3
    <3>3. CASE c # a
      BY <1>6, <2>1, <3>1, <3>3
    <3> QED
      BY <3>2, <3>3
  <2>7. WriterHolds' /\ HeldUnchanged' /\ NullsGone'
    BY <1>1, <1>7, <2>1 DEF IInv, WriterHolds, HeldUnchanged, NullsGone
  <2>8. SeedHolds'
    <3>1. ASSUME Command(a) = "seed"
          PROVE  "telegram_sources" \in shares'[a] /\ schema'["telegram_sources"] = 2
      <4>1. CASE "telegram_sources" \in shares[a] /\ schema["telegram_sources"] = 2
        BY <1>1, <2>1, <4>1
      <4>2. CASE s = Shared("telegram_sources", {2}, "insert")
        <5>1. s.on = "telegram_sources" /\ s.from = {2}
          BY <4>2 DEF Shared
        <5>2. DOMAIN draft[a] = {}
          BY <3>1 DEF IInv, WriterHolds, Writers
        <5> QED
          BY <1>1, <1>9, <2>1, <5>1, <5>2 DEF Shape
      <4> QED
        BY <1>1, <1>2, <3>1, <4>1, <4>2 DEF IInv, SeedHolds
    <3> QED
      BY <1>1, <1>6, <1>7, <3>1 DEF IInv, SeedHolds
  <2> QED
    BY <1>1, <2>3, <2>4, <2>5, <2>6, <2>7, <2>8
    DEF IInv, VersionMatchesSchema, NullsOnlyWhereAllowed
<1> QED
  BY <1>4, <1>12, <1>13

\* A commit leaves a schema as it was, or takes it from the revision that the
\* command found to the one it wants.
LEMMA CommitSchema ==
    ASSUME IInv, NEW a \in Actors, Commit(a)
    PROVE  /\ schema' # schema => /\ schema["alembic_version"] = Found(a)
                                  /\ schema' = AtRevision(Target(Command(a), Found(a)))
           /\ Target(Command(a), Found(a)) \in 0..2
<1>1. Running(a) /\ todo[a] = <<>> /\ schema' = [t \in Tables |-> Shape(a, t)]
  BY DEF Commit
<1>2. PICK w : w = Target(Command(a), Found(a)) /\ w \in 0..2
  BY <1>1 DEF IInv, OnPlan
<1>3. PICK v \in 0..2 : v = Found(a)
  BY DEF IInv, TypeOK, Found
<1>4. Planned(a) = AtRevision(w)
  BY <1>1, <1>2, LeadsEnd DEF IInv, OnPlan
<1>5. \A t \in Tables : IF t \in DOMAIN draft[a] THEN draft[a][t] = AtRevision(w)[t]
                         ELSE AtRevision(v)[t] = AtRevision(w)[t]
  BY <1>3, <1>4 DEF Planned
<1>6. \A t \in DOMAIN draft[a] : t \in Tables /\ schema[t] = AtRevision(v)[t]
  BY <1>3 DEF IInv, HeldUnchanged, TypeOK
<1>7. schema = [t \in Tables |-> schema[t]]
  BY DEF IInv, TypeOK, Shapes
<1>8. CASE w = v
  <2>1. \A t \in Tables : Shape(a, t) = schema[t]
    BY <1>5, <1>6, <1>8 DEF Shape
  <2> QED
    BY <1>1, <1>2, <1>7, <2>1
<1>9. CASE w # v
  <2>1. "alembic_version" \in DOMAIN draft[a]
    BY <1>2, <1>5, <1>9, AtRevisionShapes DEF Tables
  <2>2. schema["alembic_version"] = v
    BY <1>6, <2>1, AtRevisionShapes
  <2>3. schema = AtRevision(v)
    BY <2>2, AtVersion
  <2>4. \A t \in Tables : Shape(a, t) = AtRevision(w)[t]
    BY <1>5, <2>3 DEF Shape
  <2>5. schema' = AtRevision(w)
    BY <1>1, <2>4 DEF AtRevision
  <2> QED
    BY <1>2, <1>3, <2>2, <2>5
<1> QED
  BY <1>8, <1>9

LEMMA CommitIInv ==
    ASSUME IInv, NEW a \in Actors, Commit(a)
    PROVE  IInv'
<1>1. /\ Running(a) /\ todo[a] = <<>> /\ schema' = [t \in Tables |-> Shape(a, t)]
      /\ nulls' = (nulls \ resolved[a]) \cup {job[a].run : c \in {job[a].command} \cap {"seed"}}
      /\ faults' = faults /\ job' = job /\ runs' = runs /\ downgraded' = downgraded
      /\ state' = [state EXCEPT ![a] = "done"] /\ todo' = [todo EXCEPT ![a] = <<>>]
      /\ draft' = [draft EXCEPT ![a] = <<>>] /\ shares' = [shares EXCEPT ![a] = {}]
      /\ resolved' = [resolved EXCEPT ![a] = {}]
  BY DEF Commit, End
<1>2. /\ state'[a] = "done" /\ \A b \in Actors \ {a} : state'[b] = state[b]
      /\ todo'[a] = <<>> /\ \A b \in Actors \ {a} : todo'[b] = todo[b]
      /\ draft'[a] = <<>> /\ \A b \in Actors \ {a} : draft'[b] = draft[b]
      /\ shares'[a] = {} /\ \A b \in Actors \ {a} : shares'[b] = shares[b]
  BY <1>1 DEF IInv, TypeOK
<1>3. ~Running(a)' /\ \A b \in Actors \ {a} : Running(b)' <=> Running(b)
  BY <1>2 DEF Running
<1>4. DOMAIN draft'[a] = {}
  BY <1>2
<1>5. \A b \in Actors : Command(b)' = Command(b) /\ Found(b)' = Found(b)
  BY <1>1 DEF Command, Found
<1>6. \A t \in Tables \ DOMAIN draft[a] : schema'[t] = schema[t]
  BY <1>1 DEF Shape
\* What another transaction holds in any mode a has not altered.
<1>7. \A b \in Actors \ {a} : \A t \in DOMAIN draft[b] \cup shares[b] : schema'[t] = schema[t]
  BY <1>6 DEF IInv, TypeOK, Locked
<1>8. nulls' \subseteq Nat /\ (Command(a) # "seed" => nulls' \subseteq nulls)
  <2>1. job[a].run \in Nat
    BY DEF IInv, TypeOK
  <2> QED
    BY <1>1, <2>1 DEF IInv, TypeOK, Command
<1>9. Command(a) = "seed" => /\ "telegram_sources" \in shares[a]
                             /\ schema["telegram_sources"] = 2 /\ DOMAIN draft[a] = {}
  BY <1>1 DEF IInv, SeedHolds, WriterHolds, Writers
<1>10. VersionMatchesSchema'
  BY CommitSchema DEF IInv, VersionMatchesSchema
<1>11. TypeOK'
  <2>1. schema' \in Shapes
    BY <1>10, AtRevisionShapes DEF VersionMatchesSchema
  <2>2. /\ todo' \in [Actors -> Seq(Statement)] /\ shares' \in [Actors -> SUBSET Tables]
        /\ resolved' \in [Actors -> SUBSET Nat]
        /\ state' \in [Actors -> {"idle", "running", "done", "failed", "victim"}]
    BY <1>1 DEF IInv, TypeOK
  <2>3. \A b \in Actors : /\ DOMAIN draft'[b] \subseteq Tables
                          /\ \A t \in DOMAIN draft'[b] : draft'[b][t] \in 0..2
    BY <1>2, <1>4 DEF IInv, TypeOK
  <2>4. draft' = [b \in Actors |-> draft'[b]]
    BY <1>1 DEF IInv, TypeOK
  <2> QED
    BY <1>1, <1>8, <2>1, <2>2, <2>3, <2>4 DEF IInv, TypeOK
<1>12. OnPlan'
  <2>1. \A b \in Actors \ {a} : Planned(b)' = Planned(b)
    BY <1>2, <1>5 DEF Planned
  <2> QED
    BY <1>2, <1>3, <1>5, <2>1 DEF IInv, OnPlan
<1>13. AtRest' /\ Locked' /\ WriterHolds'
  BY <1>2, <1>3, <1>4, <1>5 DEF IInv, AtRest, Locked, WriterHolds
<1>14. HeldUnchanged'
  BY <1>2, <1>4, <1>5, <1>7 DEF IInv, HeldUnchanged
<1>15. SeedHolds'
  BY <1>2, <1>3, <1>5, <1>7 DEF IInv, SeedHolds
<1>16. NullsGone'
  <2> SUFFICES ASSUME NEW b \in Actors \ {a}, "telegram_sources" \in DOMAIN draft[b],
                      draft[b]["telegram_sources"] # 2
               PROVE  nulls' = {}
    BY <1>2, <1>4 DEF NullsGone
  <2>1. Command(a) # "seed"
    BY <1>9 DEF IInv, Locked
  <2> QED
    BY <1>8, <2>1 DEF IInv, NullsGone
<1>17. NullsOnlyWhereAllowed'
  <2>1. CASE Command(a) = "seed"
    BY <1>6, <1>9, <2>1 DEF NullsOnlyWhereAllowed, Tables
  <2>2. CASE Command(a) # "seed"
    <3> SUFFICES ASSUME nulls # {} PROVE schema'["telegram_sources"] = 2
      BY <1>8, <2>2 DEF NullsOnlyWhereAllowed
    <3>1. schema["telegram_sources"] = 2
      BY DEF IInv, NullsOnlyWhereAllowed
    <3>2. "telegram_sources" \in DOMAIN draft[a] => draft[a]["telegram_sources"] = 2
      BY DEF IInv, NullsGone
    <3> QED
      BY <1>1, <3>1, <3>2 DEF Shape, Tables
  <2> QED
    BY <2>1, <2>2
<1> QED
  BY <1>10, <1>11, <1>12, <1>13, <1>14, <1>15, <1>16, <1>17 DEF IInv

LEMMA NextIInv == IInv /\ [Next]_vars => IInv'
<1> SUFFICES ASSUME IInv, [Next]_vars PROVE IInv'
  OBVIOUS
<1>1. ASSUME NEW command \in Commands, Begin(command) PROVE IInv'
  BY <1>1, BeginIInv
<1>2. ASSUME NEW a \in Actors, Execute(a) PROVE IInv'
  BY <1>2, ExecuteIInv
<1>3. ASSUME NEW a \in Actors, Raise(a) PROVE IInv'
  <2>1. Running(a) /\ Rollback(a, "failed") /\ faults' \in Nat
    BY <1>3 DEF Raise, IInv, TypeOK
  <2> QED
    BY <2>1, RollbackIInv
<1>4. ASSUME NEW a \in Actors, Commit(a) PROVE IInv'
  BY <1>4, CommitIInv
<1>5. ASSUME NEW a \in Actors, DeadlockDetected(a) PROVE IInv'
  <2>1. Running(a)
    BY <1>5 DEF DeadlockDetected, Waiting, Blockers
  <2>2. Rollback(a, "victim") /\ faults' \in Nat
    BY <1>5 DEF DeadlockDetected, IInv, TypeOK
  <2> QED
    BY <2>1, <2>2, RollbackIInv
<1>6. ASSUME NEW a \in Actors, Crash(a) PROVE IInv'
  <2>1. Running(a) /\ Rollback(a, "failed") /\ faults' \in Nat
    BY <1>6 DEF Crash, IInv, TypeOK
  <2> QED
    BY <2>1, RollbackIInv
<1>7. ASSUME UNCHANGED vars PROVE IInv'
  BY <1>7 DEF vars, IInv, TypeOK, OnPlan, AtRest, Locked, WriterHolds, HeldUnchanged, SeedHolds,
              NullsGone, VersionMatchesSchema, NullsOnlyWhereAllowed, Planned, Command, Found, Running
<1> QED
  BY <1>1, <1>2, <1>3, <1>4, <1>5, <1>6, <1>7 DEF Next, Step, Finished

-----------------------------------------------------------------------------
(* The order of the locks *)

\* What the end of a transaction changes.
LEMMA EndEffect ==
    ASSUME IInv, NEW a \in Actors, NEW how, how # "running", End(a, how)
    PROVE  /\ todo'[a] = <<>> /\ DOMAIN draft'[a] = {} /\ shares'[a] = {}
           /\ state'[a] = how /\ ~Running(a)'
           /\ \A b \in Actors \ {a} : /\ todo'[b] = todo[b] /\ draft'[b] = draft[b]
                                      /\ shares'[b] = shares[b] /\ state'[b] = state[b]
                                      /\ Running(b)' <=> Running(b)
           /\ \A b \in Actors : Command(b)' = Command(b) /\ Found(b)' = Found(b)
<1>1. /\ state' = [state EXCEPT ![a] = how] /\ todo' = [todo EXCEPT ![a] = <<>>]
      /\ draft' = [draft EXCEPT ![a] = <<>>] /\ shares' = [shares EXCEPT ![a] = {}]
      /\ job' = job
  BY DEF End
<1>2. /\ state'[a] = how /\ \A b \in Actors \ {a} : state'[b] = state[b]
      /\ todo'[a] = <<>> /\ \A b \in Actors \ {a} : todo'[b] = todo[b]
      /\ draft'[a] = <<>> /\ \A b \in Actors \ {a} : draft'[b] = draft[b]
      /\ shares'[a] = {} /\ \A b \in Actors \ {a} : shares'[b] = shares[b]
  BY <1>1 DEF IInv, TypeOK
<1>3. ~Running(a)' /\ \A b \in Actors \ {a} : Running(b)' <=> Running(b)
  BY <1>2 DEF Running
<1>4. DOMAIN draft'[a] = {}
  BY <1>2
<1> QED
  BY <1>1, <1>2, <1>3, <1>4 DEF Command, Found

LEMMA InitOrder == Init => Order
  BY DEF Init, Running, Order, UpgradeHolds, NothingToDo, StampEnds, SharedThere, Upward

LEMMA RollbackOrder ==
    ASSUME IInv, Order, NEW a \in Actors, NEW how \in {"failed", "victim"}, Rollback(a, how)
    PROVE  Order'
<1>1. how # "running" /\ End(a, how) /\ schema' = schema /\ downgraded' = downgraded
  BY DEF Rollback, End
<1>2. /\ ~Running(a)' /\ shares'[a] = {}
      /\ \A b \in Actors \ {a} : /\ todo'[b] = todo[b] /\ draft'[b] = draft[b]
                                 /\ shares'[b] = shares[b]
                                 /\ Running(b)' <=> Running(b)
      /\ \A b \in Actors : Command(b)' = Command(b) /\ Found(b)' = Found(b)
  BY <1>1, EndEffect
<1>3. UpgradeHolds'
  BY <1>2 DEF Order, UpgradeHolds
<1>4. NothingToDo' /\ StampEnds'
  BY <1>2 DEF Order, NothingToDo, StampEnds
<1>5. SharedThere' /\ Upward'
  BY <1>1, <1>2 DEF Order, SharedThere, Upward
<1> QED
  BY <1>3, <1>4, <1>5 DEF Order

LEMMA CommitOrder ==
    ASSUME IInv, Order, NEW a \in Actors, Commit(a)
    PROVE  Order'
<1>1. /\ Running(a) /\ End(a, "done") /\ downgraded' = downgraded
      /\ schema' = [t \in Tables |-> Shape(a, t)]
  BY DEF Commit, End
<1>2. /\ ~Running(a)' /\ shares'[a] = {}
      /\ \A b \in Actors \ {a} : /\ todo'[b] = todo[b] /\ draft'[b] = draft[b]
                                 /\ shares'[b] = shares[b]
                                 /\ Running(b)' <=> Running(b)
      /\ \A b \in Actors : Command(b)' = Command(b) /\ Found(b)' = Found(b)
  BY <1>1, EndEffect
<1>3. UpgradeHolds'
  BY <1>2 DEF Order, UpgradeHolds
<1>4. NothingToDo' /\ StampEnds'
  BY <1>2 DEF Order, NothingToDo, StampEnds
<1>5. SharedThere'
  <2>1. \A b \in Actors \ {a} : \A t \in shares[b] : schema'[t] = schema[t]
    BY <1>1 DEF IInv, TypeOK, Locked, Shape
  <2> QED
    BY <1>2, <2>1 DEF Order, SharedThere
<1>6. Upward'
  <2> SUFFICES ASSUME ~downgraded, NEW b \in Actors \ {a}, Running(b)
               PROVE  Command(b) \notin Downgrades /\ Found(b) <= schema'["alembic_version"]
    BY <1>1, <1>2 DEF Upward
  <2>1. Command(b) \notin Downgrades /\ Found(b) <= schema["alembic_version"] /\ Found(b) \in 0..2
    BY DEF Order, Upward, IInv, TypeOK, Found
  <2>2. CASE schema' = schema
    BY <2>1, <2>2
  <2>3. CASE schema' # schema
    <3>1. /\ schema["alembic_version"] = Found(a)
          /\ schema' = AtRevision(Target(Command(a), Found(a)))
          /\ Target(Command(a), Found(a)) \in 0..2
      BY <2>3, CommitSchema
    <3>2. Command(a) \in Upgrades \cup Writers
      BY <1>1 DEF Order, Upward, IInv, OnPlan, Jobs
    <3>3. Command(a) \in Writers => Target(Command(a), Found(a)) = Found(a)
      BY DEF Target, Upgrades, Writers
    <3>4. Command(a) \notin Writers
      BY <2>3, <3>1, <3>3, AtVersion
    <3>5. Target(Command(a), Found(a)) = 2
      BY <3>2, <3>4 DEF Target
    <3> QED
      BY <2>1, <3>1, <3>5, AtRevisionShapes
  <2> QED
    BY <2>2, <2>3
<1> QED
  BY <1>3, <1>4, <1>5, <1>6 DEF Order

LEMMA BeginOrder ==
    ASSUME IInv, Order, NEW command \in Commands, Begin(command)
    PROVE  Order'
<1>1. PICK a \in Actors, v \in 0..2 : Began(a, v, command)
  BY BeginEffect
<1> USE DEF Began
<1>2. command \in Jobs
  BY MigrationsAssumption DEF Jobs
<1>3. /\ downgraded' = (downgraded \/ command \in Downgrades)
      /\ schema' = schema /\ draft' = draft /\ shares' = shares
  BY DEF Begin
<1>4. Running(a)' => ~(command = "-1" /\ v = 0) /\ todo'[a] = Program(command, v)
  BY <1>1 DEF Running, IInv, TypeOK
<1>5. /\ Command(a)' = command /\ Found(a)' = v /\ DOMAIN draft'[a] = {} /\ shares'[a] = {}
      /\ \A b \in Actors \ {a} : /\ Command(b)' = Command(b) /\ Found(b)' = Found(b)
                                 /\ todo'[b] = todo[b] /\ (Running(b)' <=> Running(b))
                                 /\ draft'[b] = draft[b] /\ shares'[b] = shares[b]
  BY <1>1, <1>3
<1>6. UpgradeHolds'
  BY <1>4, <1>5 DEF Order, UpgradeHolds
<1>7. NothingToDo'
  BY <1>4, <1>5 DEF Order, NothingToDo
<1>8. StampEnds'
  <2>1. Running(a)' /\ v = 1 => StampLast(todo'[a])
    BY <1>2, <1>4, ProgramOfJob
  <2> QED
    BY <1>5, <2>1 DEF Order, StampEnds
<1>9. SharedThere'
  BY <1>3 DEF Order, SharedThere
<1>10. Upward'
  <2>1. Found(a)' <= schema'["alembic_version"]
    <3>1. schema'["alembic_version"] = v
      BY <1>1, <1>3
    <3>2. v <= v
      OBVIOUS
    <3> QED
      BY <1>5, <3>1, <3>2
  <2>2. ~downgraded' => ~downgraded /\ Command(a)' \notin Downgrades
    BY <1>3, <1>5
  <2> QED
    BY <1>3, <1>5, <2>1, <2>2 DEF Order, Upward
<1> QED
  BY <1>6, <1>7, <1>8, <1>9, <1>10 DEF Order

LEMMA ExecuteOrder ==
    ASSUME IInv, Order, NEW a \in Actors, Execute(a)
    PROVE  Order'
<1>1. /\ Running(a) /\ todo[a] # <<>> /\ Blockers(a) = {} /\ Possible(a)
      /\ todo' = [todo EXCEPT ![a] = Tail(@)]
      /\ schema' = schema /\ state' = state /\ job' = job /\ downgraded' = downgraded
  BY DEF Execute
<1>2. PICK s : s = Head(todo[a])
  OBVIOUS
<1>3. todo[a] \in Seq(Statement) /\ s \in StatementsOf(Command(a), Found(a))
  BY <1>1, <1>2 DEF IInv, TypeOK, OnPlan
<1>4. \/ /\ s.mode = "exclusive" /\ shares' = shares
         /\ draft' = [draft EXCEPT ![a] =
                [t \in DOMAIN draft[a] \cup {s.on} |-> IF t = s.on THEN s.to ELSE draft[a][t]]]
      \/ /\ s.mode = "shared" /\ draft' = draft
         /\ shares' = [shares EXCEPT ![a] = shares[a] \cup {s.on}]
  BY <1>2 DEF Execute
<1>5. \A b \in Actors \ {a} : /\ todo'[b] = todo[b] /\ draft'[b] = draft[b]
                              /\ shares'[b] = shares[b]
  BY <1>1, <1>4 DEF IInv, TypeOK
<1>6. /\ \A b \in Actors : Command(b)' = Command(b) /\ Found(b)' = Found(b)
      /\ \A b \in Actors : Running(b)' <=> Running(b)
  BY <1>1 DEF Command, Found, Running
<1>7. todo'[a] = Tail(todo[a])
  BY <1>1 DEF IInv, TypeOK
<1>8. \/ /\ s.mode = "exclusive" /\ shares'[a] = shares[a]
         /\ DOMAIN draft'[a] = DOMAIN draft[a] \cup {s.on}
      \/ /\ s.mode = "shared" /\ draft'[a] = draft[a]
         /\ shares'[a] = shares[a] \cup {s.on}
  BY <1>4 DEF IInv, TypeOK
<1>9. UpgradeHolds'
  <2> SUFFICES ASSUME Command(a) \in Upgrades
               PROVE  /\ shares'[a] = {} /\ "telegram_sources" \in DOMAIN draft'[a]
                      /\ Found(a) = 1 => todo'[a] \in {<< Stamp(1, 2) >>, <<>>}
    BY <1>5, <1>6 DEF Order, UpgradeHolds
  <2>1. /\ shares'[a] = {} /\ DOMAIN draft'[a] = DOMAIN draft[a] \cup {s.on}
    BY <1>1, <1>3, <1>8 DEF StatementsOf, Order, UpgradeHolds
  <2>2. CASE DOMAIN draft[a] = {}
    <3>1. todo[a] = Program(Command(a), Found(a)) /\ Command(a) = "upgrade"
      BY <1>1, <2>2 DEF Order, UpgradeHolds, Upgrades
    <3>2. s.on = "telegram_sources"
      <4>1. Found(a) \in 0..2 /\ "upgrade" \in Jobs \ Writers
        BY DEF IInv, TypeOK, Found, Jobs, Upgrades, Writers
      <4> QED
        BY <1>1, <1>2, <3>1, <4>1, ProgramOfCommand
    <3>3. Found(a) = 1 => todo'[a] = << Stamp(1, 2) >>
      <4>1. Found(a) = 1 => todo[a] = << Exclusive("telegram_sources", 1, 2), Stamp(1, 2) >>
        BY <3>1 DEF Program, Upgrade2
      <4> QED
        BY <1>7, <4>1, TailOfTwo
    <3> QED
      BY <2>1, <3>2, <3>3
  <2>3. CASE DOMAIN draft[a] # {}
    <3>1. "telegram_sources" \in DOMAIN draft[a]
      BY <1>1, <2>3 DEF Order, UpgradeHolds
    <3>2. Found(a) = 1 => todo[a] = << Stamp(1, 2) >>
      BY <1>1, <2>3 DEF Order, UpgradeHolds
    <3>3. Found(a) = 1 => todo'[a] = <<>>
      BY <1>7, <3>2, TailOfTwo
    <3> QED
      BY <2>1, <3>1, <3>3
  <2> QED
    BY <2>2, <2>3
<1>10. NothingToDo'
  BY <1>1, <1>5, <1>6 DEF Order, NothingToDo
<1>11. StampEnds'
  <2> SUFFICES ASSUME Found(a) = 1
               PROVE  /\ StampLast(Tail(todo[a]))
                      /\ "alembic_version" \in DOMAIN draft'[a] => Tail(todo[a]) = <<>>
    BY <1>5, <1>6, <1>7 DEF Order, StampEnds
  <2>1. StampLast(todo[a]) /\ "alembic_version" \notin DOMAIN draft[a]
    BY <1>1 DEF Order, StampEnds
  <2>2. StampLast(Tail(todo[a])) /\ (s.on = "alembic_version" => Tail(todo[a]) = <<>>)
    BY <1>1, <1>2, <1>3, <2>1, StampTail
  <2> QED
    BY <1>8, <2>1, <2>2
<1>12. SharedThere'
  <2> SUFFICES ASSUME NEW t \in shares'[a]
               PROVE  t # "alembic_version" /\ (t \in DOMAIN draft'[a] \/ schema[t] # 0)
    BY <1>1, <1>5 DEF Order, SharedThere
  <2>1. CASE t \in shares[a]
    BY <1>8, <2>1 DEF Order, SharedThere
  <2>2. CASE t \notin shares[a]
    <3>1. s.mode = "shared" /\ t = s.on /\ draft'[a] = draft[a]
      BY <1>8, <2>2
    <3>2. s.on # "alembic_version" /\ 0 \notin s.from
      BY <1>3, <3>1 DEF StatementsOf, Sound
    <3>3. Shape(a, s.on) # 0
      BY <1>1, <1>2, <3>2 DEF Possible
    <3> QED
      BY <3>1, <3>2, <3>3 DEF Shape
  <2> QED
    BY <2>1, <2>2
<1>13. Upward'
  BY <1>1, <1>6 DEF Order, Upward
<1> QED
  BY <1>9, <1>10, <1>11, <1>12, <1>13 DEF Order

LEMMA NextOrder == IInv /\ Order /\ [Next]_vars => Order'
<1> SUFFICES ASSUME IInv, Order, [Next]_vars PROVE Order'
  OBVIOUS
<1>1. ASSUME NEW command \in Commands, Begin(command) PROVE Order'
  BY <1>1, BeginOrder
<1>2. ASSUME NEW a \in Actors, Execute(a) PROVE Order'
  BY <1>2, ExecuteOrder
<1>3. ASSUME NEW a \in Actors, Commit(a) PROVE Order'
  BY <1>3, CommitOrder
<1>4. ASSUME NEW a \in Actors, Raise(a) \/ DeadlockDetected(a) \/ Crash(a) PROVE Order'
  <2>1. Rollback(a, "failed") \/ Rollback(a, "victim")
    BY <1>4 DEF Raise, DeadlockDetected, Crash
  <2> QED
    BY <2>1, RollbackOrder
<1>5. ASSUME UNCHANGED vars PROVE Order'
  BY <1>5 DEF vars, Order, UpgradeHolds, NothingToDo, StampEnds, SharedThere, Upward, Command, Found,
              Running
<1> QED
  BY <1>1, <1>2, <1>3, <1>4, <1>5 DEF Next, Step, Finished

\* Nobody in a deadlock is superfluous: each one blocks another.
LEMMA EachBlocks ==
    ASSUME NEW S, Deadlock(S), NEW a \in S
    PROVE  \E c \in S : a \in Blockers(c)
<1> SUFFICES ASSUME \A c \in S : a \notin Blockers(c) PROVE FALSE
  OBVIOUS
<1>1. \A c \in S : \E d \in S : d \in Blockers(c)
  BY DEF Deadlock, Cyclic
<1>2. \A c \in S : \E d \in S \ {a} : d \in Blockers(c)
  BY <1>1
<1>3. Cyclic(S \ {a})
  BY <1>2 DEF Cyclic
<1>4. S \ {a} = S
  BY <1>3 DEF Deadlock
<1> QED
  BY <1>4

LEMMA BlockerHolds ==
    ASSUME NEW c \in Actors, NEW a \in Blockers(c)
    PROVE  /\ Running(c) /\ todo[c] # <<>> /\ a \in Actors \ {c}
           /\ \/ Head(todo[c]).on \in DOMAIN draft[a]
              \/ Head(todo[c]).mode = "exclusive" /\ Head(todo[c]).on \in shares[a]
<1>1. Running(c) /\ todo[c] # <<>>
  BY DEF Blockers
<1>2. PICK s : s = Head(todo[c])
  OBVIOUS
<1>3. a \in {b \in Actors \ {c} : \/ s.on \in DOMAIN draft[b]
                                  \/ s.mode = "exclusive" /\ s.on \in shares[b]}
  BY <1>1, <1>2 DEF Blockers
<1> QED
  BY <1>1, <1>2, <1>3

\* Everyone in a deadlock runs, has statements left and waits for another there.
LEMMA InDeadlock ==
    ASSUME NEW S \in SUBSET Waiting, Deadlock(S), NEW a \in S
    PROVE  /\ a \in Actors /\ Running(a) /\ todo[a] # <<>>
           /\ \E b \in S : b \in Blockers(a)
  BY BlockerHolds DEF Deadlock, Cyclic, Waiting

\* The next statement of an upgrade, on the schema that it planned for.
LEMMA UpgradePossible ==
    ASSUME IInv, NEW a \in Actors, Running(a), Command(a) \in Upgrades, todo[a] # <<>>,
           schema["alembic_version"] = Found(a)
    PROVE  Possible(a)
<1>1. PICK s : s = Head(todo[a])
  OBVIOUS
<1>2. s \in StatementsOf(Command(a), Found(a)) /\ todo[a] \in Seq(Statement)
  BY <1>1 DEF IInv, TypeOK, OnPlan
<1>3. s.mode = "exclusive" /\ s.rows = "any" /\ s.on \in Tables
  BY <1>2 DEF StatementsOf, Statement, StatementsOver
<1>4. s.from = {Planned(a)[s.on]}
  BY <1>1, <1>2, <1>3, LeadsStep DEF IInv, OnPlan
<1>5. schema = AtRevision(Found(a))
  BY AtVersion
<1>6. Shape(a, s.on) = Planned(a)[s.on]
  BY <1>3, <1>5 DEF Shape, Planned
<1> QED
  BY <1>1, <1>3, <1>4, <1>6 DEF Possible

\* The next statement of a writer, on any schema from its least one on.
LEMMA WriterPossible ==
    ASSUME IInv, NEW a \in Actors, Running(a), Command(a) \in Writers, todo[a] # <<>>,
           schema["alembic_version"] >= Least(Command(a))
    PROVE  Possible(a)
<1>1. PICK s : s = Head(todo[a])
  OBVIOUS
<1>2. s \in StatementsOf(Command(a), Found(a))
  BY <1>1 DEF IInv, OnPlan
<1>3. /\ s.rows # "not null"
      /\ \A u \in Least(Command(a))..2 : AtRevision(u)[s.on] \in s.from
  BY <1>2 DEF StatementsOf
<1>4. PICK u \in 0..2 : u = schema["alembic_version"] /\ schema = AtRevision(u)
  BY AtVersion
<1>5. u \in Least(Command(a))..2
  BY <1>4 DEF Least
<1>6. Shape(a, s.on) = AtRevision(u)[s.on]
  BY <1>4 DEF Shape, IInv, WriterHolds
<1> QED
  BY <1>1, <1>3, <1>5, <1>6 DEF Possible

\* An upgrade whose revision is still the schema's is in no deadlock.
LEMMA UpgradeNotStuck ==
    ASSUME IInv, Order, NEW S \in SUBSET Waiting, Deadlock(S), NEW a \in S,
           Command(a) \in Upgrades, schema["alembic_version"] = Found(a)
    PROVE  FALSE
<1>1. a \in Actors /\ Running(a) /\ todo[a] # <<>> /\ Found(a) \in 0..2
  BY InDeadlock DEF IInv, TypeOK, Found
<1>2. schema = AtRevision(Found(a))
  BY AtVersion
\* It blocks another one, so it has altered telegram_sources.
<1>3. "telegram_sources" \in DOMAIN draft[a]
  <2>1. PICK c \in S : a \in Blockers(c)
    BY EachBlocks
  <2>2. c \in Actors
    BY InDeadlock
  <2>3. shares[a] = {}
    BY <1>1 DEF Order, UpgradeHolds
  <2>4. DOMAIN draft[a] # {}
    BY <2>1, <2>2, <2>3, BlockerHolds
  <2> QED
    BY <1>1, <2>4 DEF Order, UpgradeHolds
\* It waits for a table of another one.
<1>4. PICK b \in S : b \in Blockers(a)
  BY InDeadlock
<1>5. b \in Actors \ {a} /\ Running(b) /\ todo[b] # <<>> /\ Found(b) \in 0..2
  BY <1>1, <1>4, BlockerHolds, InDeadlock DEF IInv, TypeOK, Found
<1>6. PICK t \in Tables : t = Head(todo[a]).on /\ (t \in DOMAIN draft[b] \/ t \in shares[b])
  <2>1. Head(todo[a]) \in Statement
    BY <1>1, TailOf DEF IInv, TypeOK
  <2>2. Head(todo[a]).on \in Tables
    BY <2>1 DEF Statement, StatementsOver
  <2> QED
    BY <1>1, <1>4, <2>2, BlockerHolds
<1>7. t \in DOMAIN draft[b] => schema[t] = AtRevision(Found(b))[t]
  BY <1>5 DEF IInv, HeldUnchanged
<1>8. CASE Found(a) = 0
  <2>1. schema[t] = 0
    BY <1>2, <1>6, <1>8 DEF AtRevision
  <2>2. t \in DOMAIN draft[b]
    BY <1>5, <1>6, <2>1 DEF Order, SharedThere
  <2>3. Found(b) = 0
    BY <1>5, <1>7, <2>1, <2>2 DEF AtRevision, Tables
  <2>4. Command(b) \notin Writers
    BY <1>5, <2>2 DEF IInv, WriterHolds
  <2>5. Command(b) \notin Downgrades
    <3>1. Command(b) # "base"
      <4>1. Program("base", 0) = <<>>
        BY DEF Program
      <4> QED
        BY <1>5, <2>2, <2>3, <4>1 DEF Order, NothingToDo
    <3>2. Command(b) # "-1"
      <4>1. Target("-1", 0) = 0 - 1
        BY DEF Target, Upgrades
      <4> QED
        BY <1>5, <2>3, <4>1 DEF IInv, OnPlan
    <3> QED
      BY <3>1, <3>2 DEF Downgrades
  <2>6. Command(b) \in Upgrades
    BY <1>5, <2>4, <2>5 DEF IInv, OnPlan, Jobs
  <2>7. "telegram_sources" \in DOMAIN draft[b]
    BY <1>5, <2>2, <2>6 DEF Order, UpgradeHolds
  <2> QED
    BY <1>1, <1>3, <1>5, <2>7 DEF IInv, Locked
<1>9. CASE Found(a) = 1
  <2>1. todo[a] = << Stamp(1, 2) >>
    BY <1>1, <1>3, <1>9 DEF Order, UpgradeHolds
  <2>2. t = "alembic_version"
    BY <1>6, <2>1 DEF Stamp, Exclusive
  <2>3. t \in DOMAIN draft[b]
    BY <1>5, <1>6, <2>2 DEF Order, SharedThere
  <2>4. Found(b) = 1
    BY <1>5, <1>7, <1>9, <2>2, <2>3, AtRevisionShapes
  <2> QED
    BY <1>5, <2>2, <2>3, <2>4 DEF Order, StampEnds
<1>10. CASE Found(a) = 2
  <2>1. Program(Command(a), Found(a)) = <<>>
    BY <1>10 DEF Program, Upgrades
  <2> QED
    BY <1>1, <2>1 DEF Order, NothingToDo
<1> QED
  BY <1>1, <1>8, <1>9, <1>10

\* Without downgrades no writer that began on a schema it can work with is in a
\* deadlock: it waits for an upgrade, and that one only stamps.
LEMMA WriterNotStuck ==
    ASSUME IInv, Order, ~downgraded, NEW S \in SUBSET Waiting, Deadlock(S), NEW a \in S,
           Command(a) \in Writers, Found(a) >= Least(Command(a))
    PROVE  FALSE
<1>1. a \in Actors /\ Running(a) /\ todo[a] # <<>>
  BY InDeadlock
<1>2. PICK b \in S : b \in Blockers(a)
  BY InDeadlock
<1>3. b \in Actors \ {a} /\ Running(b) /\ todo[b] # <<>> /\ Found(b) \in 0..2
  BY <1>1, <1>2, BlockerHolds, InDeadlock DEF IInv, TypeOK, Found
<1>4. DOMAIN draft[b] # {}
  <2>1. Head(todo[a]) \in StatementsOf(Command(a), Found(a))
    BY <1>1 DEF IInv, OnPlan
  <2>2. Head(todo[a]).mode # "exclusive"
    BY <2>1 DEF StatementsOf
  <2> QED
    BY <1>1, <1>2, <2>2, BlockerHolds
<1>5. Command(b) \in Upgrades
  BY <1>3, <1>4 DEF IInv, OnPlan, WriterHolds, Order, Upward, Jobs
<1>6. "telegram_sources" \in DOMAIN draft[b]
  BY <1>3, <1>4, <1>5 DEF Order, UpgradeHolds
<1>7. Found(b) = schema["alembic_version"]
  <2>1. schema["telegram_sources"] = Found(b)
    BY <1>3, <1>6, AtRevisionShapes DEF IInv, HeldUnchanged
  <2> QED
    BY <2>1, AtVersion, AtRevisionShapes
<1>8. Found(b) # 0
  <2>1. Found(a) <= schema["alembic_version"] /\ Found(a) \in 0..2 /\ Found(a) >= 1
    BY <1>1 DEF Order, Upward, Least, IInv, TypeOK, Found
  <2> QED
    BY <1>3, <1>7, <2>1
<1>9. CASE Found(b) = 2
  <2>1. Program(Command(b), Found(b)) = <<>>
    BY <1>5, <1>9 DEF Program, Upgrades
  <2> QED
    BY <1>3, <2>1 DEF Order, NothingToDo
<1>10. CASE Found(b) = 1
  <2>1. todo[b] = << Stamp(1, 2) >>
    BY <1>3, <1>4, <1>5, <1>10 DEF Order, UpgradeHolds
  <2>2. PICK c \in S : c \in Blockers(b)
    BY InDeadlock
  <2>3. c \in Actors \ {b} /\ Running(c) /\ todo[c] # <<>> /\ Found(c) \in 0..2
    BY <1>3, <2>2, BlockerHolds, InDeadlock DEF IInv, TypeOK, Found
  <2>4. Head(todo[b]).on = "alembic_version"
    BY <2>1 DEF Stamp, Exclusive
  <2>5. "alembic_version" \in DOMAIN draft[c]
    BY <1>3, <2>2, <2>3, <2>4, BlockerHolds DEF Order, SharedThere
  <2>6. Found(c) = 1
    BY <1>7, <1>10, <2>3, <2>5, AtRevisionShapes DEF IInv, HeldUnchanged
  <2> QED
    BY <2>3, <2>5, <2>6 DEF Order, StampEnds
<1> QED
  BY <1>3, <1>8, <1>9, <1>10

-----------------------------------------------------------------------------
(* The theorems *)

LEMMA AlwaysIInv == Spec => []IInv
  BY InitIInv, NextIInv, PTL DEF Spec

LEMMA AlwaysOrder == Spec => [](IInv /\ Order)
  BY InitIInv, NextIInv, InitOrder, NextOrder, PTL DEF Spec

\* Whatever races, fails or dies, the tables are those of the revision that
\* alembic_version names (one transaction per command, migrations/env.py).
THEOREM AppliedAsAWhole == Spec => []VersionMatchesSchema
<1>1. IInv => VersionMatchesSchema
  BY DEF IInv
<1> QED
  BY <1>1, AlwaysIInv, PTL

\* No row without a chat_id is left where the column is NOT NULL: the downgrade
\* of revision 0002 counts such rows, and SET NOT NULL checks them again.
THEOREM NoStrayNull == Spec => []NullsOnlyWhereAllowed
<1>1. IInv => NullsOnlyWhereAllowed
  BY DEF IInv
<1> QED
  BY <1>1, AlwaysIInv, PTL

\* A commit that changes the schema changes the revision its command planned
\* from, though env.py takes no lock of its own.
THEOREM RacesSerialize == Spec => CommandsSerialize
<1>1. ASSUME IInv, [Next]_vars
      PROVE  [\A a \in Actors : Running(a) /\ state'[a] = "done" /\ schema' # schema =>
                  schema["alembic_version"] = job[a].revision]_vars
  <2> SUFFICES ASSUME NEW a \in Actors, Running(a), state'[a] = "done", schema' # schema
               PROVE  schema["alembic_version"] = job[a].revision
    OBVIOUS
  <2>1. \A b \in Actors : ~DeadlockDetected(b) /\ ~Crash(b) /\ ~Execute(b) /\ ~Raise(b)
    BY DEF DeadlockDetected, Crash, Execute, Raise, Rollback
  <2>2. \A c \in Commands : ~Begin(c)
    BY DEF Begin
  <2>3. PICK b \in Actors : Commit(b)
    BY <1>1, <2>1, <2>2 DEF Next, Step, Finished, vars
  <2>4. b = a
    BY <2>3 DEF Commit, End, IInv, TypeOK, Running
  <2>5. schema["alembic_version"] = Found(a)
    BY <1>1, <2>3, <2>4, CommitSchema
  <2> QED
    BY <2>5 DEF Found
<1> QED
  BY <1>1, AlwaysIInv, PTL DEF Spec, CommandsSerialize

\* Who fails, or loses a deadlock, in a step.
LEMMA WhoFails ==
    ASSUME IInv, Next, NEW a \in Actors, Running(a), state'[a] \in {"failed", "victim"}
    PROVE  Raise(a) \/ DeadlockDetected(a) \/ Crash(a)
<1>1. state[a] = "running" /\ state'[a] # state[a] /\ state'[a] # "done"
  BY DEF Running
<1>2. \A c \in Commands : ~Begin(c)
  <2> SUFFICES ASSUME NEW c \in Commands, Begin(c) PROVE FALSE
    OBVIOUS
  <2>1. PICK d \in Actors, v \in 0..2 : Began(d, v, c)
    BY BeginEffect
  <2>2. a # d
    BY <2>1 DEF Began
  <2> QED
    BY <1>1, <2>1, <2>2 DEF Began
<1>3. \A b \in Actors : ~Execute(b)
  BY <1>1 DEF Execute
<1>4. ~Finished
  BY <1>1 DEF Finished, vars
<1>5. \A b \in Actors : Raise(b) \/ DeadlockDetected(b) \/ Crash(b) \/ Commit(b) => b = a
  <2> SUFFICES ASSUME NEW b \in Actors, NEW how, End(b, how) PROVE b = a
    BY DEF Raise, DeadlockDetected, Crash, Commit, Rollback
  <2> QED
    BY <1>1 DEF End, IInv, TypeOK
<1>6. ~Commit(a)
  BY <1>1 DEF Commit, End, IInv, TypeOK
<1> QED
  BY <1>2, <1>3, <1>4, <1>5, <1>6 DEF Next, Step

\* The one thing that makes an upgrade fail, or lose a deadlock, is a commit
\* that changed the revision it planned from (migrations/env.py, no lock).
THEOREM OvertakenOnly == Spec => UpgradeFailsOnlyIfOvertaken
<1>1. ASSUME IInv, Order, [Next]_vars
      PROVE  [\A a \in Actors :
                 /\ Running(a) /\ job[a].command \in Upgrades
                 /\ state'[a] \in {"failed", "victim"} /\ faults' = faults
                 => schema["alembic_version"] # job[a].revision]_vars
  <2> SUFFICES ASSUME NEW a \in Actors, Running(a), Command(a) \in Upgrades,
                      state'[a] \in {"failed", "victim"}, faults' = faults,
                      schema["alembic_version"] = Found(a)
               PROVE  FALSE
    BY DEF Command, Found
  <2>1. Next
    BY <1>1 DEF vars, Running
  <2>2. ~Crash(a)
    BY <1>1 DEF Crash, IInv, TypeOK
  <2>3. ~Raise(a)
    BY <1>1, UpgradePossible DEF Raise
  <2>4. ~DeadlockDetected(a)
    <3> SUFFICES ASSUME DeadlockDetected(a) PROVE FALSE
      OBVIOUS
    <3>1. PICK S \in SUBSET Waiting : a \in S /\ Deadlock(S)
      BY DEF DeadlockDetected
    <3> QED
      BY <1>1, <3>1, UpgradeNotStuck
  <2> QED
    BY <1>1, <2>1, <2>2, <2>3, <2>4, WhoFails
<1> QED
  BY <1>1, AlwaysOrder, PTL DEF Spec, UpgradeFailsOnlyIfOvertaken

\* The old release may go on working during an upgrade: without a downgrade or a
\* lost connection no handler, reconciliation or seed fails that began on a
\* schema it can work with (deploy.sh migrates before it replaces the services).
THEOREM OldReleaseWorks == Spec => []UpgradesDisturbNobody
<1>1. Init => UpgradesDisturbNobody
  BY DEF Init, UpgradesDisturbNobody
<1>2. ASSUME IInv, Order, UpgradesDisturbNobody, [Next]_vars
      PROVE  UpgradesDisturbNobody'
  <2> SUFFICES ASSUME ~downgraded', faults' = 0, NEW a \in Actors,
                      Command(a)' \in Writers, state'[a] \in {"failed", "victim"},
                      ~(Found(a)' < Least(Command(a)'))
               PROVE  FALSE
    BY DEF UpgradesDisturbNobody, Command, Found, Least
  <2>1. ~downgraded /\ faults = 0
    <3>1. downgraded' = downgraded \/ downgraded' = TRUE \/ \E x : downgraded' = (downgraded \/ x)
      BY <1>2 DEF Next, Step, Begin, Execute, Raise, Commit, DeadlockDetected, Crash, Rollback, End,
                  Finished, vars
    <3>2. faults' = faults \/ faults' = faults + 1
      BY <1>2 DEF Next, Step, Begin, Execute, Raise, Commit, DeadlockDetected, Crash, Rollback, End,
                  Finished, vars
    <3> QED
      BY <1>2, <3>1, <3>2 DEF IInv, TypeOK
  <2>2. ~(Command(a) \in Writers /\ state[a] \in {"failed", "victim"} /\ ~(Found(a) < Least(Command(a))))
    BY <1>2, <2>1 DEF UpgradesDisturbNobody, Command, Found, Least
  <2>3. state'[a] # state[a] \/ job'[a] # job[a]
    BY <2>2 DEF Command, Found
  <2>4. CASE Running(a)
    <3>1. Next
      BY <1>2, <2>3 DEF vars
    <3>2. Raise(a) \/ DeadlockDetected(a) \/ Crash(a)
      BY <1>2, <2>4, <3>1, WhoFails
    <3>3. ~Crash(a)
      BY <2>1 DEF Crash
    <3>4. job' = job
      BY <3>2 DEF Raise, DeadlockDetected, Crash, Rollback, End
    <3>5. /\ Command(a) \in Writers /\ Found(a) \in 0..2 /\ Found(a) >= Least(Command(a))
      BY <1>2, <3>4 DEF Command, Found, Least, IInv, TypeOK
    <3>6. CASE Raise(a)
      <4>1. schema["alembic_version"] \in 0..2 /\ Found(a) <= schema["alembic_version"]
        BY <1>2, <2>1, <2>4, AtVersion DEF Order, Upward
      <4>2. schema["alembic_version"] >= Least(Command(a))
        BY <3>5, <4>1 DEF Least
      <4> QED
        BY <1>2, <2>4, <3>5, <3>6, <4>2, WriterPossible DEF Raise
    <3>7. CASE DeadlockDetected(a)
      <4>1. PICK S \in SUBSET Waiting : a \in S /\ Deadlock(S)
        BY <3>7 DEF DeadlockDetected
      <4> QED
        BY <1>2, <2>1, <3>5, <4>1, WriterNotStuck
    <3> QED
      BY <3>2, <3>3, <3>6, <3>7
  <2>5. CASE ~Running(a)
    <3>1. PICK c \in Commands : Begin(c)
      BY <1>2, <2>3, <2>5 DEF Next, Step, Execute, Raise, Commit, DeadlockDetected, Crash, Rollback, End,
                              Finished, vars, Running, Waiting, Blockers, IInv, TypeOK
    <3>2. PICK d \in Actors, v \in 0..2 : Began(d, v, c)
      BY <1>2, <3>1, BeginEffect
    <3>3. d = a
      BY <2>3, <3>2 DEF Began
    <3>4. c = "-1"
      BY <2>3, <3>2, <3>3, <1>2 DEF Began, IInv, TypeOK
    <3> QED
      BY <3>2, <3>3, <3>4 DEF Began, Writers
  <2> QED
    BY <2>4, <2>5
<1> QED
  BY <1>1, <1>2, AlwaysOrder, PTL DEF Spec
=============================================================================
